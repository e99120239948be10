------------------------------ MODULE Views_proofs -------------------------------
(***************************************************************************)
(* The provider tables refer only to what exists, a refresh leaves them as *)
(* the mapping says and does not fail, and a remap restores what its job   *)
(* fetched, for any resources, any tables, columns and join tables, any    *)
(* worlds and any number of commands.                                      *)
(***************************************************************************)
EXTENDS ViewsProps, FiniteSetTheorems, TLAPS

Docs == [Resource -> Content \cup {NULL}]
Tabled == [Resource -> Rows \cup {NULL}]

\* The commands, and the ways they end.
Which == {"import", "remap", "reset", "reinstall", "remove", NULL}
Ended == {"never", "failed", "raised", "done"}

\* What a state needs of the types; the order of the files does not matter.
Record == [of : Which, at : Nat \cup {-1}, job : Nat, read : Snapshot \cup {NULL},
           sole : BOOLEAN, ended : Ended]
CmdTyped(d, js) ==
  /\ d \in Record
  /\ d.job \in DOMAIN js \cup {0}
  /\ d.at = -1 => d.job \in DOMAIN js

CmdsTyped(cs, js) == cs \in [Command -> Record] /\ \A d \in Command : CmdTyped(cs[d], js)

ViewsTyped ==
  /\ res \in Docs /\ rel \in SUBSET Relations
  /\ view \in Tabled /\ join \in SUBSET Relations
  /\ jobs \in Seq(Job)
  /\ CmdsTyped(cmd, jobs)

\* The inductive invariant: what exists is typed, and the tables refer to it.
ViewsInv == ViewsTyped /\ ViewsRefer
---------------------------------------------------------------------------------
\* The row that a query of queries/ builds for a resource is a row of its
\* table, whatever its columns find.
LEMMA RowTyped ==
  ASSUME NEW rs \in Docs, NEW rl \in SUBSET Relations, NEW r \in Resource, rs[r] # NULL
  PROVE  /\ Row(rs, rl, r) \in Rows
         /\ Row(rs, rl, r) # NULL
         /\ \A c \in DOMAIN Row(rs, rl, r).fk :
              /\ c \in ColumnsOf(TypeOf[r])
              /\ Row(rs, rl, r).fk[c] = Target(rl, r, c)
<1>1. \A c : Target(rl, r, c) \in Resource \cup {NULL}
  <2>1. TAKE c
  <2>2. Targets(rl, r, c) \subseteq Resource BY DEF Targets, Relations
  <2>3. CASE Targets(rl, r, c) = {} BY <2>3 DEF Target
  <2>4. CASE Targets(rl, r, c) # {}
    <3>1. (CHOOSE t \in Targets(rl, r, c) : TRUE) \in Targets(rl, r, c) BY <2>4
    <3> QED BY <3>1, <2>2 DEF Target
  <2> QED BY <2>3, <2>4
<1>2. TypeOf[r] \in Type BY ViewsAssumption
<1>3. [c \in ColumnsOf(TypeOf[r]) |-> Target(rl, r, c)]
        \in [ColumnsOf(TypeOf[r]) -> Resource \cup {NULL}] BY <1>1
<1>4. rs[r] \in Content BY DEF Docs
<1>5. Row(rs, rl, r) \in Rows BY <1>2, <1>3, <1>4 DEF Row, Rows
<1> QED BY <1>5, ViewsAssumption DEF Row

\* ON CONFLICT DO UPDATE keeps the tables typed and never removes a row.
LEMMA UpsertTyped ==
  ASSUME NEW v \in Tabled, NEW rs \in Docs, NEW rl \in SUBSET Relations, NEW t
  PROVE  /\ Upsert(v, rs, rl, t) \in Tabled
         /\ \A r \in Resource : v[r] # NULL => Upsert(v, rs, rl, t)[r] # NULL
         /\ NewPairs(rl, t) \subseteq Relations
<1>1. \A r \in Resource : rs[r] # NULL => Row(rs, rl, r) \in Rows /\ Row(rs, rl, r) # NULL
  BY RowTyped
<1> QED BY <1>1 DEF Upsert, Tabled, NewPairs

\* A file whose statements do not raise leaves tables that refer to what
\* exists, although its rows are those of an older snapshot.
LEMMA UpsertRefers ==
  ASSUME NEW v \in Tabled, NEW rs \in Docs, NEW rl \in SUBSET Relations, NEW t,
         NEW existing, NEW j \in SUBSET Relations,
         Refer(v, existing, j), ~Fails(v, rs, rl, t, existing)
  PROVE  Refer(Upsert(v, rs, rl, t), existing, j \cup NewPairs(rl, t))
<1> DEFINE u == Upsert(v, rs, rl, t)
<1>1. \A r \in Resource : u[r] = IF TypeOf[r] = t /\ rs[r] # NULL THEN Row(rs, rl, r) ELSE v[r]
  BY DEF Upsert
<1>2. \A r \in Resource : v[r] # NULL => u[r] # NULL BY UpsertTyped
<1>3. \A r \in Resource : u[r] # NULL => existing[r] # NULL
  BY <1>1 DEF Refer, Fails
<1>4. ASSUME NEW r \in Resource, u[r] # NULL, NEW c \in DOMAIN u[r].fk, u[r].fk[c] # NULL
      PROVE  u[u[r].fk[c]] # NULL
  <2>1. CASE TypeOf[r] = t /\ rs[r] # NULL
    <3>1. u[r] = Row(rs, rl, r) BY <2>1, <1>1
    <3>2. c \in ColumnsOf(t) /\ u[r].fk[c] = Target(rl, r, c) BY <2>1, <3>1, <1>4, RowTyped
    <3> QED BY <2>1, <3>2, <1>4 DEF Fails
  <2>2. CASE ~(TypeOf[r] = t /\ rs[r] # NULL)
    <3>1. u[r] = v[r] BY <2>2, <1>1
    <3>2. v[r] \in Rows BY <3>1, <1>4 DEF Tabled
    <3>3. v[r].fk[c] \in Resource \cup {NULL}
      <4>1. PICK s \in Type : v[r].fk \in [ColumnsOf(s) -> Resource \cup {NULL}] BY <3>2 DEF Rows
      <4> QED BY <4>1, <3>1, <1>4
    <3>4. v[v[r].fk[c]] # NULL BY <3>1, <1>4 DEF Refer
    <3> QED BY <3>1, <3>3, <3>4, <1>2, <1>4
  <2> QED BY <2>1, <2>2
<1>5. ASSUME NEW x \in j \cup NewPairs(rl, t) PROVE u[x.from] # NULL /\ u[x.to] # NULL
  <2>1. CASE x \in NewPairs(rl, t) BY <2>1 DEF Fails
  <2>2. CASE x \in j
    <3>1. x.from \in Resource /\ x.to \in Resource BY <2>2 DEF Relations
    <3> QED BY <2>2, <3>1, <1>2 DEF Refer
  <2> QED BY <2>1, <2>2
<1> QED BY <1>3, <1>4, <1>5 DEF Refer

\* The cascades of any change of the resources leave tables that are typed and
\* refer to the resources that are left.
LEMMA CascadeRefers ==
  ASSUME NEW v \in Tabled, NEW old, NEW j \in SUBSET Relations, Refer(v, old, j), NEW rs \in Docs
  PROVE  /\ CascadeRows(v, rs) \in Tabled
         /\ CascadePairs(j, rs) \subseteq Relations
         /\ Refer(CascadeRows(v, rs), rs, CascadePairs(j, rs))
<1> DEFINE w == CascadeRows(v, rs)
           Kept(r) == SetNull(v[r].fk, rs)
<1>1. ASSUME NEW r \in Resource, rs[r] # NULL, v[r] # NULL
      PROVE  /\ w[r] \in Rows /\ w[r] # NULL /\ w[r].fk = Kept(r)
             /\ \A c \in DOMAIN v[r].fk : v[r].fk[c] \in Resource \cup {NULL}
  <2>1. v[r] \in Rows BY <1>1 DEF Tabled
  <2>2. PICK t \in Type : v[r].fk \in [ColumnsOf(t) -> Resource \cup {NULL}] BY <2>1 DEF Rows
  <2>3. Kept(r) \in [ColumnsOf(t) -> Resource \cup {NULL}] BY <2>2 DEF SetNull
  <2>4. w[r] = [doc |-> v[r].doc, fk |-> Kept(r)] BY <1>1 DEF CascadeRows
  <2>5. w[r] \in Rows /\ w[r].fk = Kept(r) BY <2>1, <2>3, <2>4 DEF Rows
  <2> QED BY <2>2, <2>5, ViewsAssumption
<1>2. \A r \in Resource : rs[r] = NULL \/ v[r] = NULL => w[r] = NULL BY DEF CascadeRows
<1>3. w \in Tabled BY <1>1, <1>2 DEF Tabled, CascadeRows
<1>4. \A r \in Resource : w[r] # NULL => rs[r] # NULL /\ v[r] # NULL BY <1>2
<1>5. ASSUME NEW r \in Resource, w[r] # NULL, NEW c \in DOMAIN w[r].fk, w[r].fk[c] # NULL
      PROVE  w[w[r].fk[c]] # NULL
  <2>1. rs[r] # NULL /\ v[r] # NULL BY <1>4, <1>5
  <2>2. w[r].fk = Kept(r) BY <1>1, <2>1
  <2>3. c \in DOMAIN v[r].fk BY <1>5, <2>2 DEF SetNull
  <2>4. w[r].fk[c] = v[r].fk[c] /\ rs[v[r].fk[c]] # NULL BY <1>5, <2>2, <2>3 DEF SetNull
  <2>5. v[r].fk[c] \in Resource BY <1>1, <2>1, <2>3, <2>4, <1>5
  <2>6. v[v[r].fk[c]] # NULL BY <2>1, <2>3, <2>4, <1>5 DEF Refer
  <2> QED BY <1>1, <2>4, <2>5, <2>6
<1>6. ASSUME NEW x \in CascadePairs(j, rs) PROVE w[x.from] # NULL /\ w[x.to] # NULL
  <2>1. x \in j /\ rs[x.from] # NULL /\ rs[x.to] # NULL BY DEF CascadePairs
  <2>2. x.from \in Resource /\ x.to \in Resource BY <2>1 DEF Relations
  <2> QED BY <2>1, <2>2, <1>1 DEF Refer
<1> QED BY <1>3, <1>4, <1>5, <1>6 DEF Refer, CascadePairs
---------------------------------------------------------------------------------
\* The records of the jobs, as they are fetched.
LEMMA FetchedTyped == ASSUME NEW w \in World PROVE Fetched(w) \in Job
BY DEF Fetched, Job, Documents, NoDocuments

\* An answer of AWS, or none.
AnyAnswer == [doc : Documents, part : Documents]
Unanswered == [doc |-> NoDocuments, part |-> NoDocuments]

\* What a mapping leaves comes from one answer and one order of the partial rows.
LEMMA MappingOf ==
  ASSUME NEW job, NEW m \in Mappings(job)
  PROVE  \E a \in AnyAnswer : \E last \in Lasts(Applied(job, a)) : m = Mapping(job, a, last)
<1>1. PICK a \in Answer : m \in {Mapping(job, a, last) : last \in Lasts(Applied(job, a))}
  BY DEF Mappings
<1> QED BY <1>1, ViewsAssumption DEF AnyAnswer

\* A job stays a job when rows of it are applied.
LEMMA AppliedTyped ==
  ASSUME NEW job \in Job, NEW a \in AnyAnswer
  PROVE  Applied(job, a) \in Job
<1>1. /\ a.doc \in Documents /\ a.part \in Documents
      /\ job.world \in World /\ job.uris \subseteq Resource
      /\ job.asked.doc \in Documents /\ job.asked.part \in [Resource -> SUBSET Doc]
  BY DEF AnyAnswer, Job
<1> DEFINE docs == [r \in Resource |-> IF a.doc[r] # NULL THEN a.doc[r] ELSE job.asked.doc[r]]
           parts == [r \in Resource |-> job.asked.part[r] \cup ({a.part[r]} \ {NULL})]
           uris == job.uris \cup {r \in Resource : Given(job, a, r) # NULL}
<1>2. docs \in Documents BY <1>1 DEF Documents
<1>3. parts \in [Resource -> SUBSET Doc] BY <1>1 DEF Documents
<1>4. uris \subseteq Resource BY <1>1
<1>5. Applied(job, a) = [world |-> job.world, mapped |-> TRUE, uris |-> uris,
                         asked |-> [doc |-> docs, part |-> parts]]
  BY DEF Applied
<1> HIDE DEF docs, parts, uris
<1> QED BY <1>1, <1>2, <1>3, <1>4, <1>5 DEF Job

\* What a mapping builds of a resource that has a base row.
LEMMA BuiltTyped ==
  ASSUME res \in Docs, NEW job \in Job, NEW a \in AnyAnswer, NEW last \in Lasts(Applied(job, a)),
         NEW r \in Resource, Base(job, a, r) # NULL
  PROVE  Built(job, a, last)[r] \in Content
<1>1. job.world.doc \in Documents /\ a.doc \in Documents BY ViewsAssumption DEF Job, AnyAnswer
<1>2. Base(job, a, r) \in Doc \cup {NULL} BY <1>1 DEF Base, Given, Documents, Docs, Content
<1>3. \A q \in DOMAIN last : last[q] \in Doc BY DEF Lasts
<1>4. [doc |-> Base(job, a, r), part |-> IF r \in DOMAIN last THEN last[r] ELSE NULL] \in Content
  BY <1>2, <1>3 DEF Content
<1> QED BY <1>4 DEF Built

\* So what a mapping makes of one is typed.
LEMMA MappingTyped ==
  ASSUME res \in Docs, NEW job \in Job, NEW m \in Mappings(job)
  PROVE  m.job \in Job /\ m.res \in Docs /\ m.rel \in SUBSET Relations
<1>1. PICK a \in AnyAnswer : \E last \in Lasts(Applied(job, a)) : m = Mapping(job, a, last)
  BY MappingOf
<1>2. PICK last \in Lasts(Applied(job, a)) : m = Mapping(job, a, last) BY <1>1
<1>3. job.world.rel \in SUBSET Relations BY ViewsAssumption DEF Job
<1>4. Built(job, a, last) \in Docs BY BuiltTyped DEF Built, Docs
<1>5. Live(Built(job, a, last), job.world.rel) \in SUBSET Relations BY <1>3 DEF Live
<1>6. Applied(job, a) \in Job BY AppliedTyped
<1> QED BY <1>2, <1>4, <1>5, <1>6 DEF Mapping

\* A job of the list that changes leaves a list of jobs.
LEMMA JobsStay ==
  ASSUME jobs \in Seq(Job), NEW j \in DOMAIN jobs, NEW n \in Job
  PROVE  LET js == [jobs EXCEPT ![j] = n]
         IN /\ js \in Seq(Job) /\ DOMAIN js = DOMAIN jobs
            /\ js[j] = n /\ \A i \in DOMAIN jobs : i # j => js[i] = jobs[i]
OBVIOUS

\* The fields of a command change one by one.
LEMMA FieldTyped ==
  ASSUME NEW js, NEW d, CmdTyped(d, js)
  PROVE  /\ \A w \in Which : CmdTyped([d EXCEPT !.of = w], js)
         /\ \A i \in Nat : CmdTyped([d EXCEPT !.at = i], js)
         /\ \A r \in Snapshot \cup {NULL} : CmdTyped([d EXCEPT !.read = r], js)
         /\ \A b \in BOOLEAN : CmdTyped([d EXCEPT !.sole = b], js)
         /\ \A e \in Ended : CmdTyped([d EXCEPT !.ended = e], js)
         /\ d.at # -1 => CmdTyped([d EXCEPT !.job = 0], js)
<1>1. ASSUME NEW w \in Which PROVE CmdTyped([d EXCEPT !.of = w], js) BY DEF CmdTyped, Record
<1>2. ASSUME NEW i \in Nat PROVE CmdTyped([d EXCEPT !.at = i], js) BY DEF CmdTyped, Record
<1>3. ASSUME NEW r \in Snapshot \cup {NULL} PROVE CmdTyped([d EXCEPT !.read = r], js) BY DEF CmdTyped, Record
<1>4. ASSUME NEW b \in BOOLEAN PROVE CmdTyped([d EXCEPT !.sole = b], js) BY DEF CmdTyped, Record
<1>5. ASSUME NEW e \in Ended PROVE CmdTyped([d EXCEPT !.ended = e], js) BY DEF CmdTyped, Record
<1>6. d.at # -1 => CmdTyped([d EXCEPT !.job = 0], js) BY DEF CmdTyped, Record
<1> QED BY <1>1, <1>2, <1>3, <1>4, <1>5, <1>6

\* A command that does not run.
LEMMA IdleTyped == ASSUME NEW js PROVE CmdTyped(Idle, js) /\ CmdTyped(Failed, js)
<1>1. CmdTyped(Idle, js) BY DEF CmdTyped, Record, Idle, Which, Ended
<1> QED BY <1>1, FieldTyped DEF Failed, Ended

\* A command that starts.
LEMMA StartsTyped ==
  ASSUME NEW js, NEW of \in Which, NEW sole \in BOOLEAN
  PROVE  CmdTyped([Idle EXCEPT !.of = of, !.sole = sole], js)
BY IdleTyped, FieldTyped

\* A command that ends, in a refresh or before it.
LEMMA EndsTyped ==
  ASSUME NEW js, NEW d, CmdTyped(d, js), NEW e \in Ended
  PROVE  /\ CmdTyped([d EXCEPT !.at = 0, !.ended = e], js)
         /\ CmdTyped([d EXCEPT !.at = 0, !.read = NULL, !.ended = e], js)
<1>1. CmdTyped([d EXCEPT !.at = 0], js) BY FieldTyped
<1>2. CmdTyped([d EXCEPT !.at = 0, !.read = NULL], js) BY <1>1, FieldTyped
<1> QED BY <1>1, <1>2, FieldTyped

\* Commands that are typed for some jobs are typed for more of them.
LEMMA CmdsGrow ==
  ASSUME NEW cs, NEW js, NEW ks, CmdsTyped(cs, js), DOMAIN js \subseteq DOMAIN ks
  PROVE  CmdsTyped(cs, ks)
BY DEF CmdsTyped, CmdTyped

\* A command changes alone.
LEMMA OneTyped ==
  ASSUME NEW cs, NEW js, CmdsTyped(cs, js), NEW c \in Command, NEW d, CmdTyped(d, js)
  PROVE  CmdsTyped([cs EXCEPT ![c] = d], js)
BY DEF CmdsTyped, CmdTyped

\* A commit that tells the other commands that the tables changed keeps them typed.
LEMMA OthersTyped ==
  ASSUME CmdsTyped(cmd, jobs), NEW c \in Command
  PROVE  CmdsTyped(Others(c), jobs)
<1>1. \A d \in Command : CmdTyped([cmd[d] EXCEPT !.sole = FALSE], jobs) BY FieldTyped DEF CmdsTyped
<1> QED BY <1>1 DEF Others, CmdsTyped, CmdTyped

\* What the transactions of Map and MapRaises do to the tables.
LEMMA TablesKeep ==
  ASSUME ViewsInv, NEW rs \in Docs, NEW rl \in SUBSET Relations, Tables(rs, rl)
  PROVE  /\ res' \in Docs /\ rel' \in SUBSET Relations
         /\ view' \in Tabled /\ join' \in SUBSET Relations
         /\ ViewsRefer'
BY CascadeRefers DEF ViewsInv, ViewsTyped, ViewsRefer, Tables

\* A command forward by one file is a command.
LEMMA ForwardTyped ==
  ASSUME NEW c \in Command, NEW i \in Nat \cup {-1}, NEW cs, NEW js, CmdsTyped(cs, js)
  PROVE  CmdsTyped(Forward(c, i, cs), js)
<1>1. "done" \in Ended BY DEF Ended
<1>2. CmdTyped(cs[c], js) BY DEF CmdsTyped
<1>3. CASE i < Len(files)
  <2> DEFINE next == [cs[c] EXCEPT !.at = i + 1]
  <2>1. Forward(c, i, cs) = [cs EXCEPT ![c] = next] BY <1>3 DEF Forward
  <2>2. i + 1 \in Nat OBVIOUS
  <2>3. CmdTyped(next, js) BY <1>2, <2>2, FieldTyped
  <2> HIDE DEF next
  <2>4. CmdsTyped([cs EXCEPT ![c] = next], js) BY <2>3, OneTyped
  <2> QED BY <2>1, <2>4
<1>4. CASE ~(i < Len(files))
  <2> DEFINE ends == [cs[c] EXCEPT !.at = 0, !.ended = "done"]
  <2>1. Forward(c, i, cs) = [cs EXCEPT ![c] = ends] BY <1>4 DEF Forward, CmdsTyped
  <2>2. CmdTyped(ends, js) BY <1>1, <1>2, EndsTyped
  <2> HIDE DEF ends
  <2>3. CmdsTyped([cs EXCEPT ![c] = ends], js) BY <2>2, OneTyped
  <2> QED BY <2>1, <2>3
<1> QED BY <1>3, <1>4

\* What the transaction of import --debug, remap and reset does to the tables,
\* and to the commands.
LEMMA FirstFileKeeps ==
  ASSUME ViewsInv, NEW rs \in Docs, NEW rl \in SUBSET Relations,
         NEW c \in Command, NEW of \in Which, WithFirstFile(c, of, rs, rl)
  PROVE  /\ res' \in Docs /\ rel' \in SUBSET Relations
         /\ view' \in Tabled /\ join' \in SUBSET Relations
         /\ ViewsRefer'
         /\ CmdsTyped(cmd', jobs)
<1> DEFINE v == CascadeRows(view, rs)
           j == CascadePairs(join, rs)
           t == files[1]
           sole == Alone(c, rs, rl)
           starts == [Idle EXCEPT !.of = of, !.sole = sole]
<1>1. v \in Tabled /\ j \in SUBSET Relations /\ Refer(v, rs, j)
  BY CascadeRefers DEF ViewsInv, ViewsTyped, ViewsRefer
<1>2. /\ ~Fails(v, rs, rl, t, rs) /\ res' = rs /\ rel' = rl
      /\ view' = Upsert(v, rs, rl, t) /\ join' = j \cup NewPairs(rl, t)
      /\ cmd' = Forward(c, 1, [Others(c) EXCEPT ![c] = starts])
  BY DEF WithFirstFile
<1>3. sole \in BOOLEAN BY DEF Alone
<1>4. CmdTyped(starts, jobs)
  <2> HIDE DEF sole
  <2> QED BY <1>3, StartsTyped
<1> HIDE DEF v, j, t, starts
<1>5. Refer(Upsert(v, rs, rl, t), rs, j \cup NewPairs(rl, t)) BY <1>1, <1>2, UpsertRefers
<1>6. Upsert(v, rs, rl, t) \in Tabled /\ NewPairs(rl, t) \subseteq Relations BY <1>1, UpsertTyped
<1>7. CmdsTyped([Others(c) EXCEPT ![c] = starts], jobs)
  BY <1>4, OthersTyped, OneTyped DEF ViewsInv, ViewsTyped
<1>8. CmdsTyped(cmd', jobs) BY <1>2, <1>7, ForwardTyped
<1> QED BY <1>1, <1>2, <1>5, <1>6, <1>8 DEF ViewsRefer
---------------------------------------------------------------------------------
\* Every step of every command keeps the invariant.
LEMMA ViewsStep == ViewsInv /\ [Next]_vars => ViewsInv'
<1> SUFFICES ASSUME ViewsInv, [Next]_vars PROVE ViewsInv'
  OBVIOUS
<1> USE DEF ViewsInv
<1>0. /\ CmdsTyped(cmd, jobs) /\ jobs \in Seq(Job)
      /\ \A c \in Command : CmdTyped(cmd[c], jobs)
  BY DEF ViewsTyped, CmdsTyped
<1>14. {"failed", "raised"} \subseteq Ended BY DEF Ended
<1>15. {"import", "remap", "reset", "reinstall", "remove"} \subseteq Which BY DEF Which
<1>1. CASE UNCHANGED vars
  BY <1>1 DEF vars, tables, ViewsTyped, ViewsRefer
<1>2. ASSUME NEW c \in Command, NEW w \in World, Fetch(c, w) PROVE ViewsInv'
  <2>1. Fetched(w) \in Job BY FetchedTyped
  <2>2. /\ jobs' \in Seq(Job) /\ Len(jobs') = Len(jobs) + 1
        /\ DOMAIN jobs \subseteq DOMAIN jobs'
    BY <1>2, <2>1, <1>0 DEF Fetch
  <2> DEFINE n == Len(jobs')
             fetched == [Idle EXCEPT !.of = "import", !.at = -1, !.job = n]
  <2>3. cmd' = [cmd EXCEPT ![c] = fetched] BY <1>2 DEF Fetch
  <2>4. n \in DOMAIN jobs' /\ n \in Nat BY <2>2, <1>0
  <2>5. CmdTyped(fetched, jobs')
    <3> HIDE DEF n
    <3> DEFINE d == [Idle EXCEPT !.of = "import"]
               e == [d EXCEPT !.at = -1]
    <3>1. CmdTyped(d, jobs) BY <1>15, IdleTyped, FieldTyped
    <3> HIDE DEF d
    <3>2. e \in Record BY <3>1 DEF CmdTyped, Record
    <3> HIDE DEF e
    <3>3. [e EXCEPT !.job = n] \in Record /\ [e EXCEPT !.job = n].job = n
      BY <2>4, <3>2 DEF Record
    <3> QED BY <2>4, <3>3 DEF CmdTyped, d, e
  <2> HIDE DEF fetched
  <2>6. CmdsTyped(cmd', jobs') BY <1>0, <2>2, <2>3, <2>5, CmdsGrow, OneTyped
  <2> QED BY <1>2, <2>2, <2>6 DEF Fetch, ViewsTyped, ViewsRefer, tables, CmdsTyped
<1>3. ASSUME NEW c \in Command, Map(c) PROVE ViewsInv'
  <2> DEFINE sole == Alone(c, res', rel')
             mapped == [Others(c)[c] EXCEPT !.at = 1, !.job = 0, !.sole = sole]
  <2>1. cmd[c].job \in DOMAIN jobs BY <1>3, <1>0 DEF Map, CmdTyped, Record
  <2>2. PICK m \in Mappings(jobs[cmd[c].job]) :
          Tables(m.res, m.rel) /\ jobs' = [jobs EXCEPT ![cmd[c].job] = m.job]
    BY <1>3 DEF Map
  <2>3. m.job \in Job /\ m.res \in Docs /\ m.rel \in SUBSET Relations
    BY <1>0, <2>1, MappingTyped DEF ViewsTyped
  <2>4. /\ res' \in Docs /\ rel' \in SUBSET Relations
        /\ view' \in Tabled /\ join' \in SUBSET Relations /\ ViewsRefer'
    BY <2>2, <2>3, TablesKeep
  <2>5. jobs' \in Seq(Job) /\ DOMAIN jobs' = DOMAIN jobs BY <1>0, <2>1, <2>2, <2>3, JobsStay
  <2>6. CmdsTyped(Others(c), jobs) BY <1>0, OthersTyped
  <2>7. sole \in BOOLEAN BY DEF Alone
  <2>8. cmd' = [Others(c) EXCEPT ![c] = mapped] BY <1>3 DEF Map, Others
  <2> HIDE DEF sole
  <2>9. CmdTyped(mapped, jobs)
    <3> DEFINE d == [Others(c)[c] EXCEPT !.at = 1]
    <3>1. CmdTyped(d, jobs) /\ d.at = 1 BY <2>6, FieldTyped DEF CmdsTyped, CmdTyped, Record
    <3> HIDE DEF d
    <3>2. CmdTyped([d EXCEPT !.job = 0], jobs) BY <3>1, FieldTyped
    <3>3. CmdTyped([[d EXCEPT !.job = 0] EXCEPT !.sole = sole], jobs) BY <2>7, <3>2, FieldTyped
    <3> QED BY <3>3 DEF d
  <2> HIDE DEF mapped
  <2>10. CmdsTyped([Others(c) EXCEPT ![c] = mapped], jobs) BY <2>6, <2>9, OneTyped
  <2>11. CmdsTyped(cmd', jobs') BY <2>5, <2>8, <2>10, CmdsGrow
  <2> QED BY <2>4, <2>5, <2>11 DEF ViewsTyped, CmdsTyped
<1>16. ASSUME NEW c \in Command, NEW rs \in Docs, NEW rl \in SUBSET Relations, NEW n \in Job,
              cmd[c].at = -1, Tables(rs, rl), jobs' = [jobs EXCEPT ![cmd[c].job] = n],
              cmd' = [Others(c) EXCEPT ![c] = Failed]
       PROVE  ViewsInv'
  <2>1. cmd[c].job \in DOMAIN jobs BY <1>16, <1>0 DEF CmdTyped
  <2>2. jobs' \in Seq(Job) /\ DOMAIN jobs' = DOMAIN jobs BY <1>0, <1>16, <2>1, JobsStay
  <2>3. /\ res' \in Docs /\ rel' \in SUBSET Relations
        /\ view' \in Tabled /\ join' \in SUBSET Relations /\ ViewsRefer'
    BY <1>16, TablesKeep
  <2>4. CmdsTyped(Others(c), jobs) BY <1>0, OthersTyped
  <2>5. CmdsTyped(cmd', jobs) BY <1>16, <2>4, IdleTyped, OneTyped
  <2>6. CmdsTyped(cmd', jobs') BY <2>2, <2>5, CmdsGrow
  <2> QED BY <2>2, <2>3, <2>6 DEF ViewsTyped, CmdsTyped
<1>4. ASSUME NEW c \in Command, MapRaises(c) PROVE ViewsInv'
  <2>1. PICK m \in Mappings(jobs[cmd[c].job]) :
          /\ Tables(m.res, Live(m.res, rel) \cup m.rel)
          /\ jobs' = [jobs EXCEPT ![cmd[c].job] = m.job]
    BY <1>4 DEF MapRaises
  <2>2. cmd[c].at = -1 /\ cmd' = [Others(c) EXCEPT ![c] = Failed] BY <1>4 DEF MapRaises
  <2>3. jobs[cmd[c].job] \in Job BY <1>0, <2>2 DEF CmdTyped
  <2>4. m.job \in Job /\ m.res \in Docs /\ m.rel \in SUBSET Relations
    BY <2>3, MappingTyped DEF ViewsTyped
  <2>5. Live(m.res, rel) \cup m.rel \in SUBSET Relations BY <2>4 DEF Live, ViewsTyped
  <2> QED BY <1>16, <2>1, <2>2, <2>4, <2>5
<1>17. ASSUME NEW c \in Command, AwsRaises(c) PROVE ViewsInv'
  <2> DEFINE job == jobs[cmd[c].job]
             rs == [r \in Resource |->
                      IF job.mapped \/ job.world.doc[r] = NULL THEN res[r]
                      ELSE [doc |-> job.world.doc[r], part |-> IF res[r] = NULL THEN NULL ELSE res[r].part]]
  <2>1. /\ cmd[c].at = -1 /\ cmd' = [Others(c) EXCEPT ![c] = Failed]
        /\ Tables(rs, rel) /\ jobs' = [jobs EXCEPT ![cmd[c].job] = Applied(job, Unanswered)]
    BY <1>17 DEF AwsRaises, Unanswered
  <2>2. job \in Job BY <1>0, <2>1 DEF CmdTyped
  <2>3. Unanswered \in AnyAnswer BY DEF Unanswered, AnyAnswer, Documents, NoDocuments
  <2>4. Applied(job, Unanswered) \in Job BY <2>2, <2>3, AppliedTyped
  <2>5. rs \in Docs
    <3>1. job.world.doc \in Documents BY <2>2, ViewsAssumption DEF Job
    <3>2. res \in Docs BY DEF ViewsTyped
    <3> HIDE DEF job
    <3>3. ASSUME NEW r \in Resource, job.world.doc[r] # NULL
          PROVE  [doc |-> job.world.doc[r], part |-> IF res[r] = NULL THEN NULL ELSE res[r].part] \in Content
      BY <3>1, <3>2, <3>3 DEF Documents, Docs, Content
    <3> QED BY <3>2, <3>3 DEF Docs
  <2>6. rel \in SUBSET Relations BY DEF ViewsTyped
  <2> HIDE DEF rs, job
  <2> QED BY <1>16, <2>1, <2>4, <2>5, <2>6
<1>18. ASSUME NEW c \in Command, cmd' = [cmd EXCEPT ![c] = Failed],
              UNCHANGED <<tables, view, join, jobs>>
       PROVE  ViewsInv'
  <2>1. CmdsTyped(cmd', jobs) BY <1>0, <1>18, IdleTyped, OneTyped
  <2> QED BY <1>18, <2>1 DEF ViewsTyped, ViewsRefer, tables, CmdsTyped
<1>5. ASSUME NEW c \in Command, ReadFile(c) PROVE ViewsInv'
  <2> DEFINE seen == [res |-> res, rel |-> rel]
  <2>1. seen \in Snapshot BY DEF Snapshot, ViewsTyped, Docs
  <2>2. cmd' = [cmd EXCEPT ![c] = [cmd[c] EXCEPT !.read = seen]] BY <1>5 DEF ReadFile
  <2> HIDE DEF seen
  <2>3. CmdsTyped(cmd', jobs) BY <1>0, <2>1, <2>2, FieldTyped, OneTyped
  <2> QED BY <1>5, <2>3 DEF ReadFile, ViewsTyped, ViewsRefer, tables, CmdsTyped
<1>6. ASSUME NEW c \in Command, WriteFile(c) PROVE ViewsInv'
  <2> DEFINE seen == cmd[c].read
             t == files[cmd[c].at]
             wrote == [cmd[c] EXCEPT !.read = NULL]
  <2>1. seen \in Snapshot /\ cmd[c].at \in Nat \cup {-1}
    BY <1>6, <1>0 DEF WriteFile, CmdTyped, Record
  <2>2. seen.res \in Docs /\ seen.rel \in SUBSET Relations BY <2>1 DEF Snapshot, Docs
  <2>3. /\ ~Fails(view, seen.res, seen.rel, t, res)
        /\ view' = Upsert(view, seen.res, seen.rel, t)
        /\ join' = join \cup NewPairs(seen.rel, t)
        /\ UNCHANGED <<res, rel, jobs>>
        /\ cmd' = Forward(c, cmd[c].at, [cmd EXCEPT ![c] = wrote])
    BY <1>6 DEF WriteFile, tables
  <2>4. CmdTyped(wrote, jobs) BY <1>0, FieldTyped
  <2> HIDE DEF seen, t, wrote
  <2>5. Refer(view', res, join') BY <2>2, <2>3, UpsertRefers DEF ViewsTyped, ViewsRefer
  <2>6. view' \in Tabled /\ join' \in SUBSET Relations BY <2>2, <2>3, UpsertTyped DEF ViewsTyped
  <2>7. CmdsTyped([cmd EXCEPT ![c] = wrote], jobs) BY <1>0, <2>4, OneTyped
  <2>8. CmdsTyped(cmd', jobs) BY <2>1, <2>3, <2>7, ForwardTyped
  <2> QED BY <2>3, <2>5, <2>6, <2>8 DEF ViewsTyped, ViewsRefer, CmdsTyped
<1>7. ASSUME NEW c \in Command, RefreshRaises(c) PROVE ViewsInv'
  <2> DEFINE raised == [cmd[c] EXCEPT !.at = 0, !.read = NULL, !.ended = "raised"]
  <2>1. cmd' = [cmd EXCEPT ![c] = raised] BY <1>7, <1>0 DEF RefreshRaises, CmdsTyped
  <2>2. CmdTyped(raised, jobs) BY <1>0, <1>14, EndsTyped
  <2> HIDE DEF raised
  <2>3. CmdsTyped(cmd', jobs) BY <1>0, <2>1, <2>2, OneTyped
  <2> QED BY <1>7, <2>3 DEF RefreshRaises, ViewsTyped, ViewsRefer, tables, CmdsTyped
<1>8. ASSUME NEW c \in Command, NEW j \in DOMAIN jobs, Remap(c, j) PROVE ViewsInv'
  <2>1. PICK m \in Mappings(jobs[j]) :
          WithFirstFile(c, "remap", m.res, m.rel) /\ jobs' = [jobs EXCEPT ![j] = m.job]
    BY <1>8 DEF Remap
  <2>2. m.job \in Job /\ m.res \in Docs /\ m.rel \in SUBSET Relations
    BY <1>0, MappingTyped DEF ViewsTyped
  <2>3. jobs' \in Seq(Job) /\ DOMAIN jobs' = DOMAIN jobs BY <1>0, <2>1, <2>2, JobsStay
  <2>4. CmdsTyped(cmd', jobs') BY <1>0, <1>15, <2>1, <2>2, <2>3, FirstFileKeeps, CmdsGrow
  <2> QED BY <1>15, <2>1, <2>2, <2>3, <2>4, FirstFileKeeps DEF ViewsTyped, CmdsTyped
<1>9. ASSUME NEW c \in Command, Reset(c) PROVE ViewsInv'
  <2> DEFINE none == [r \in Resource |-> NULL]
             cleared(j) == Fetched(jobs[j].world)
  <2>1. none \in Docs /\ {} \in SUBSET Relations BY DEF Docs
  <2>2. WithFirstFile(c, "reset", none, {}) BY <1>9 DEF Reset
  <2>3. jobs' \in Seq(Job) /\ DOMAIN jobs' = DOMAIN jobs
    <3>1. jobs' = [j \in DOMAIN jobs |-> cleared(j)] BY <1>9 DEF Reset
    <3>2. \A j \in DOMAIN jobs : cleared(j) \in Job
      <4>1. \A j \in DOMAIN jobs : jobs[j] \in Job BY <1>0
      <4>2. \A j \in DOMAIN jobs : jobs[j].world \in World BY <4>1 DEF Job
      <4> QED BY <4>2, FetchedTyped
    <3> HIDE DEF cleared
    <3> QED BY <1>0, <3>1, <3>2
  <2> HIDE DEF none
  <2>4. CmdsTyped(cmd', jobs') BY <1>0, <1>15, <2>1, <2>2, <2>3, FirstFileKeeps, CmdsGrow
  <2> QED BY <1>15, <2>1, <2>2, <2>3, <2>4, FirstFileKeeps DEF ViewsTyped, CmdsTyped
<1>10. ASSUME NEW c \in Command, Reinstall(c) PROVE ViewsInv'
  <2> DEFINE sole == Alone(c, res, rel)
             starts == [Idle EXCEPT !.of = "reinstall", !.at = 1, !.sole = sole]
  <2>1. sole \in BOOLEAN BY DEF Alone
  <2>2. cmd' = [cmd EXCEPT ![c] = starts] BY <1>10 DEF Reinstall
  <2> HIDE DEF sole
  <2>3. CmdTyped(starts, jobs)
    <3>1. CmdTyped([Idle EXCEPT !.of = "reinstall"], jobs) BY <1>15, IdleTyped, FieldTyped
    <3>2. CmdTyped([Idle EXCEPT !.of = "reinstall", !.at = 1], jobs) BY <3>1, FieldTyped
    <3> QED BY <2>1, <3>2, FieldTyped
  <2> HIDE DEF starts
  <2>4. CmdsTyped(cmd', jobs) BY <1>0, <2>2, <2>3, OneTyped
  <2> QED BY <1>10, <2>4 DEF Reinstall, ViewsTyped, ViewsRefer, tables, CmdsTyped
<1>11. ASSUME NEW c \in Command, Kill(c) \/ SessionRaises(c) PROVE ViewsInv'
  BY <1>11, <1>18 DEF Kill, SessionRaises
<1>12. ASSUME NEW c \in Command, Remove(c) PROVE ViewsInv'
  <2> DEFINE removing == [Idle EXCEPT !.of = "remove", !.ended = "raised"]
  <2>1. cmd' = [cmd EXCEPT ![c] = removing] BY <1>12 DEF Remove
  <2>2. CmdTyped([Idle EXCEPT !.of = "remove"], jobs) BY <1>15, IdleTyped, FieldTyped
  <2>3. CmdTyped(removing, jobs) BY <1>14, <2>2, FieldTyped
  <2> HIDE DEF removing
  <2>4. CmdsTyped(cmd', jobs) BY <1>0, <2>1, <2>3, OneTyped
  <2> QED BY <1>12, <2>4 DEF Remove, ViewsTyped, ViewsRefer, tables, CmdsTyped
<1>13. ASSUME NEW c \in Command, NEW w \in World, Debug(c, w) PROVE ViewsInv'
  <2>1. PICK m \in Mappings(Fetched(w)) :
          WithFirstFile(c, "import", m.res, m.rel) /\ jobs' = Append(jobs, m.job)
    BY <1>13 DEF Debug
  <2>2. m.job \in Job /\ m.res \in Docs /\ m.rel \in SUBSET Relations
    BY FetchedTyped, MappingTyped DEF ViewsTyped
  <2>3. jobs' \in Seq(Job) /\ DOMAIN jobs \subseteq DOMAIN jobs' BY <1>0, <2>1, <2>2
  <2>4. CmdsTyped(cmd', jobs') BY <1>15, <2>1, <2>2, <2>3, FirstFileKeeps, CmdsGrow
  <2> QED BY <1>15, <2>1, <2>2, <2>3, <2>4, FirstFileKeeps DEF ViewsTyped, CmdsTyped
<1> QED
  BY <1>1, <1>2, <1>3, <1>4, <1>5, <1>6, <1>7, <1>8, <1>9, <1>10, <1>11, <1>12, <1>13, <1>17 DEF Next

\* The invariant holds.
LEMMA ViewsInvHolds == Spec => []ViewsInv
<1>1. Init => ViewsInv
  <2> SUFFICES ASSUME Init PROVE ViewsInv
    OBVIOUS
  <2>1. CmdsTyped(cmd, jobs) BY IdleTyped DEF Init, CmdsTyped, CmdTyped
  <2> QED BY <2>1 DEF Init, ViewsInv, ViewsTyped, ViewsRefer, Refer, Docs, Tabled
<1> QED BY <1>1, ViewsStep, PTL DEF Spec

\* Whatever commands map and refresh, kill and fail, in whatever order, no row,
\* column or pair of the provider tables refers to something that is gone
\* (bootstrap_db.refresh_views with the foreign keys of the tables).
THEOREM ViewsReferHolds == Spec => []ViewsRefer
<1>1. ViewsInv => ViewsRefer BY DEF ViewsInv
<1> QED BY <1>1, ViewsInvHolds, PTL

---------------------------------------------------------------------------------
(***************************************************************************)
(* The files: every type has one, in the order of the numbers.             *)
(***************************************************************************)
\* files.sort() gives every file once, because the numbers differ.
LEMMA FilesSorted ==
  /\ Cardinality(Type) \in Nat \ {0}
  /\ files \in [1 .. Cardinality(Type) -> Type]
  /\ Len(files) = Cardinality(Type)
  /\ \A i \in DOMAIN files : \A j \in DOMAIN files : i < j => Number[files[i]] < Number[files[j]]
  /\ \A t \in Type : \E i \in DOMAIN files : files[i] = t
<1> DEFINE n == Cardinality(Type)
           upTo(t) == {u \in Type : Number[u] <= Number[t]}
           pos == [t \in Type |-> Cardinality(upTo(t))]
           sorted(s) == \A i, j \in DOMAIN s : i < j => Number[s[i]] < Number[s[j]]
<1>1. IsFiniteSet(Type) /\ Type # {} /\ Number \in [Type -> Nat] BY FilesAssumption
<1>2. n \in Nat \ {0} BY <1>1, FS_CardinalityType, FS_EmptySet
<1>3. \A t \in Type : pos[t] \in 1 .. n
  <2>1. TAKE t \in Type
  <2>2. IsFiniteSet(upTo(t)) /\ Cardinality(upTo(t)) <= n BY <1>1, FS_Subset
  <2>3. t \in upTo(t) BY <1>1
  <2>4. Cardinality(upTo(t)) \in Nat \ {0} BY <2>2, <2>3, FS_CardinalityType, FS_EmptySet
  <2> QED BY <1>2, <2>2, <2>4
<1>4. \A t \in Type : \A u \in Type : Number[t] < Number[u] => pos[t] < pos[u]
  <2>1. SUFFICES ASSUME NEW t \in Type, NEW u \in Type, Number[t] < Number[u] PROVE pos[t] < pos[u]
    OBVIOUS
  <2>2. IsFiniteSet(upTo(t)) /\ IsFiniteSet(upTo(u)) BY <1>1, FS_Subset
  <2>3. upTo(t) \subseteq upTo(u) /\ u \in upTo(u) /\ u \notin upTo(t) BY <1>1, <2>1
  <2>4. Cardinality(upTo(t)) <= Cardinality(upTo(u)) /\ Cardinality(upTo(t)) # Cardinality(upTo(u))
    <3> HIDE DEF upTo
    <3> QED BY <2>2, <2>3, FS_Subset
  <2>5. Cardinality(upTo(t)) \in Nat /\ Cardinality(upTo(u)) \in Nat BY <2>2, FS_CardinalityType
  <2> QED BY <2>4, <2>5
<1>5. \A t \in Type : \A u \in Type : pos[t] = pos[u] => t = u
  <2>1. SUFFICES ASSUME NEW t \in Type, NEW u \in Type, pos[t] = pos[u] PROVE Number[t] = Number[u]
    BY FilesAssumption
  <2>2. Number[t] \in Nat /\ Number[u] \in Nat /\ pos[t] \in Nat /\ pos[u] \in Nat BY <1>1, <1>3
  <2>3. ~(Number[t] < Number[u]) /\ ~(Number[u] < Number[t])
    <3> HIDE DEF pos
    <3> QED BY <1>4, <2>1, <2>2
  <2> QED BY <2>2, <2>3
<1>6. IsFiniteSet(1 .. n) /\ Cardinality(1 .. n) = n BY <1>2, FS_Interval
<1>7. \A k \in 1 .. n : \E t \in Type : pos[t] = k
  <2>1. pos \in [Type -> 1 .. n]
    <3>1. pos = [t \in Type |-> pos[t]] OBVIOUS
    <3> HIDE DEF pos
    <3> QED BY <1>3, <3>1
  <2> HIDE DEF pos
  <2>2. pos \in Injection(Type, 1 .. n) BY <1>5, <2>1 DEF Injection, IsInjective
  <2>3. pos \in Surjection(Type, 1 .. n) BY <2>2, <1>6, FS_Injection
  <2> QED BY <2>3 DEF Surjection
<1> DEFINE first == [k \in 1 .. n |-> CHOOSE t \in Type : pos[t] = k]
<1>8. first \in [1 .. n -> Type] /\ \A k \in 1 .. n : pos[first[k]] = k
  <2> HIDE DEF pos
  <2> QED BY <1>7
<1>9. sorted(first)
  <2>1. SUFFICES ASSUME NEW i \in 1 .. n, NEW j \in 1 .. n, i < j
                 PROVE  Number[first[i]] < Number[first[j]]
    BY <1>8
  <2>2. first[i] \in Type /\ first[j] \in Type /\ pos[first[i]] = i /\ pos[first[j]] = j BY <1>8
  <2>3. Number[first[i]] \in Nat /\ Number[first[j]] \in Nat BY <1>1, <2>2
  <2>4. ~(Number[first[j]] < Number[first[i]])
    <3> HIDE DEF pos, first
    <3> QED BY <1>4, <2>1, <2>2
  <2>5. Number[first[i]] # Number[first[j]]
    <3> HIDE DEF pos, first
    <3> QED BY FilesAssumption, <2>1, <2>2
  <2> HIDE DEF first
  <2> QED BY <2>3, <2>4, <2>5
<1>10. files \in [1 .. n -> Type] /\ sorted(files)
  <2> HIDE DEF first, n
  <2> QED BY <1>8, <1>9 DEF files, n
<1>11. \A i \in 1 .. n : \A j \in 1 .. n : files[i] = files[j] => i = j
  <2>1. SUFFICES ASSUME NEW i \in 1 .. n, NEW j \in 1 .. n, i < j PROVE files[i] # files[j]
    BY <1>2
  <2>2. Number[files[i]] < Number[files[j]] BY <1>10, <2>1
  <2>3. Number[files[i]] \in Nat BY <1>1, <1>10, <2>1
  <2> QED BY <2>2, <2>3
<1>12. files \in Injection(1 .. n, Type) BY <1>10, <1>11 DEF Injection, IsInjective
<1>13. files \in Surjection(1 .. n, Type) BY <1>1, <1>6, <1>12, FS_Injection
<1>14. Len(files) = n BY <1>2, <1>10
<1> QED BY <1>2, <1>10, <1>13, <1>14 DEF Surjection
---------------------------------------------------------------------------------
(***************************************************************************)
(* Remap restores what the job fetched.                                    *)
(***************************************************************************)
\* Every job knows its mapped rows, has no answers before they are mapped, and the
\* one that the tables show is mapped and theirs; when they show none because they
\* are empty, none is mapped.
JobKnows(job) ==
  /\ job.uris = IF job.mapped THEN {r \in Resource : DocOf(job, r) # NULL} ELSE {}
  /\ ~job.mapped => job.asked.doc = NoDocuments
JobsKnow(js) == \A j \in DOMAIN js : JobKnows(js[j])
Fits(rs, rl, job) == (\A r \in Resource : Restored(rs, job, r)) /\ rl = Live(rs, job.world.rel)
Shows(js, s, rs, rl) ==
  /\ s \in DOMAIN js \cup {0, NULL}
  /\ s \in DOMAIN js => js[s].mapped /\ Fits(rs, rl, js[s])
  /\ s = 0 => \A j \in DOMAIN js : ~js[j].mapped
RestoreInv == JobsKnow(jobs) /\ Shows(jobs, shows, res, rel)

\* The records of the jobs.
LEMMA JobTyped ==
  ASSUME ViewsTyped, NEW j \in DOMAIN jobs
  PROVE  jobs[j] \in Job /\ jobs[j].world \in World /\ j \in Nat \ {0} /\ j # NULL
<1>1. jobs[j] \in Job /\ j \in Nat \ {0} BY DEF ViewsTyped
<1> QED BY <1>1, ViewsAssumption DEF Job

LEMMA FetchedKnows ==
  ASSUME NEW w PROVE JobKnows(Fetched(w)) /\ ~Fetched(w).mapped
BY DEF JobKnows, Fetched

\* Whatever AWS answers, a job knows its mapped rows when they are applied.
LEMMA AppliedKnows ==
  ASSUME NEW job, JobKnows(job), NEW a
  PROVE  JobKnows(Applied(job, a)) /\ Applied(job, a).mapped
<1> DEFINE next == Applied(job, a)
<1>1. /\ next.mapped /\ next.world = job.world
      /\ next.uris = job.uris \cup {r \in Resource : Given(job, a, r) # NULL}
      /\ \A r \in Resource : next.asked.doc[r] = IF a.doc[r] # NULL THEN a.doc[r] ELSE job.asked.doc[r]
  BY DEF Applied
<1> HIDE DEF next
<1>2. ASSUME NEW r \in Resource
      PROVE  r \in next.uris <=> DocOf(next, r) # NULL
  <2>1. r \in next.uris <=> r \in job.uris \/ Given(job, a, r) # NULL BY <1>1
  <2>2. DocOf(next, r) = IF a.doc[r] # NULL THEN a.doc[r] ELSE DocOf(job, r) BY <1>1 DEF DocOf
  <2>3. CASE job.mapped
    <3>1. r \in job.uris <=> DocOf(job, r) # NULL BY <2>3 DEF JobKnows
    <3> QED BY <2>1, <2>2, <2>3, <3>1 DEF Given
  <2>4. CASE ~job.mapped
    <3>1. r \notin job.uris BY <2>4 DEF JobKnows
    <3>2. DocOf(job, r) = job.world.doc[r] BY <2>4 DEF JobKnows, DocOf, NoDocuments
    <3> QED BY <2>1, <2>2, <2>4, <3>1, <3>2 DEF Given
  <2> QED BY <2>3, <2>4
<1>3. next.uris \subseteq Resource
  <2>1. job.uris \subseteq Resource BY DEF JobKnows
  <2> QED BY <1>1, <2>1
<1>4. next.uris = {r \in Resource : DocOf(next, r) # NULL} BY <1>2, <1>3
<1> QED BY <1>1, <1>4 DEF JobKnows, next

\* A mapping of a job that is not mapped yet, or that the tables show, leaves tables
\* that fit it.
LEMMA MappingShows ==
  ASSUME res \in Docs, NEW job \in Job, JobKnows(job), NEW m \in Mappings(job)
  PROVE  /\ JobKnows(m.job) /\ m.job.mapped
         /\ (job.mapped => \A r \in Resource : Restored(res, job, r)) => Fits(m.res, m.rel, m.job)
<1>1. PICK a \in AnyAnswer : \E last \in Lasts(Applied(job, a)) : m = Mapping(job, a, last)
  BY MappingOf
<1>2. PICK last \in Lasts(Applied(job, a)) : m = Mapping(job, a, last) BY <1>1
<1>3. m.job = Applied(job, a) /\ m.res = Built(job, a, last)
      /\ m.rel = Live(Built(job, a, last), job.world.rel)
  BY <1>2 DEF Mapping
<1>4. JobKnows(m.job) /\ m.job.mapped BY <1>3, AppliedKnows
<1>5. ASSUME job.mapped => \A r \in Resource : Restored(res, job, r), NEW r \in Resource
      PROVE  Restored(m.res, m.job, r)
  <2>1. DocOf(m.job, r) = IF a.doc[r] # NULL THEN a.doc[r] ELSE DocOf(job, r)
    BY <1>3 DEF Applied, DocOf
  <2>2. Base(job, a, r) = DocOf(m.job, r)
    <3>1. CASE a.doc[r] # NULL BY <2>1, <3>1 DEF Base, Given
    <3>2. CASE a.doc[r] = NULL /\ ~job.mapped
      <4>1. r \notin job.uris BY <3>2 DEF JobKnows
      <4>2. DocOf(job, r) = job.world.doc[r] BY <3>2 DEF JobKnows, DocOf, NoDocuments
      <4> QED BY <2>1, <3>2, <4>1, <4>2 DEF Base, Given
    <3>3. CASE a.doc[r] = NULL /\ job.mapped
      <4>1. r \in job.uris <=> DocOf(job, r) # NULL BY <3>3 DEF JobKnows
      <4>2. Restored(res, job, r) BY <1>5, <3>3
      <4> QED BY <2>1, <3>3, <4>1, <4>2 DEF Base, Given, Restored
    <3> QED BY <3>1, <3>2, <3>3
  <2>3. /\ DOMAIN last = {q \in Resource : Parts(m.job, q) # {}}
        /\ \A q \in DOMAIN last : last[q] \in Parts(m.job, q)
    BY <1>3 DEF Lasts
  <2>4. m.res[r] = IF Base(job, a, r) = NULL THEN NULL
                   ELSE [doc |-> Base(job, a, r), part |-> IF r \in DOMAIN last THEN last[r] ELSE NULL]
    BY <1>3 DEF Built
  <2>5. CASE DocOf(m.job, r) = NULL BY <2>2, <2>4, <2>5 DEF Restored
  <2>6. CASE DocOf(m.job, r) # NULL
    <3>1. m.res[r] # NULL BY <1>3, <2>2, <2>6, BuiltTyped, ViewsAssumption
    <3>2. m.res[r].doc = DocOf(m.job, r)
          /\ m.res[r].part = IF r \in DOMAIN last THEN last[r] ELSE NULL
      BY <2>2, <2>4, <2>6
    <3>3. IF Parts(m.job, r) = {} THEN m.res[r].part = NULL ELSE m.res[r].part \in Parts(m.job, r)
      BY <2>3, <3>2
    <3> QED BY <2>6, <3>1, <3>2, <3>3 DEF Restored
  <2> QED BY <2>5, <2>6
<1>6. m.job.world = job.world BY <1>3 DEF Applied
<1> QED BY <1>3, <1>4, <1>5, <1>6 DEF Fits

\* Mapping a job leaves the tables that it fetched and was answered, where the
\* tables did not show a newer one.
LEMMA StoredShows ==
  ASSUME ViewsTyped, RestoreInv, NEW j \in DOMAIN jobs, NEW m \in Mappings(jobs[j])
  PROVE  LET js == [jobs EXCEPT ![j] = m.job]
         IN JobsKnow(js) /\ Shows(js, Shown(j), m.res, m.rel)
<1> DEFINE js == [jobs EXCEPT ![j] = m.job]
<1>1. /\ DOMAIN js = DOMAIN jobs /\ js[j] = m.job
      /\ \A i \in DOMAIN jobs : i # j => js[i] = jobs[i]
  OBVIOUS
<1>2. JobKnows(jobs[j]) /\ jobs[j] \in Job /\ res \in Docs
  BY JobTyped DEF RestoreInv, JobsKnow, ViewsTyped
<1>3. JobKnows(m.job) /\ m.job.mapped BY <1>2, MappingShows
<1>4. JobsKnow(js)
  <2>1. \A i \in DOMAIN js : JobKnows(js[i]) BY <1>1, <1>3 DEF RestoreInv, JobsKnow
  <2> QED BY <2>1 DEF JobsKnow
<1>5. \A i \in DOMAIN jobs : i \in Nat \ {0} /\ i # NULL BY JobTyped
<1> HIDE DEF js
<1>6. CASE jobs[j].mapped /\ shows \notin {0, j}
  <2>1. Shown(j) = NULL BY <1>6 DEF Shown
  <2> QED BY <1>1, <1>4, <1>5, <2>1, ViewsAssumption DEF Shows, js
<1>7. CASE ~(jobs[j].mapped /\ shows \notin {0, j})
  <2>1. Shown(j) = j BY <1>7 DEF Shown
  <2>2. jobs[j].mapped => shows = j BY <1>7 DEF RestoreInv, Shows
  <2>3. jobs[j].mapped => \A r \in Resource : Restored(res, jobs[j], r)
    BY <2>2 DEF RestoreInv, Shows, Fits
  <2>4. Fits(m.res, m.rel, m.job) BY <1>2, <2>3, MappingShows
  <2>5. Shows(js, j, m.res, m.rel) BY <1>1, <1>3, <1>5, <2>4 DEF Shows
  <2> QED BY <1>4, <2>1, <2>5 DEF js
<1> QED BY <1>6, <1>7

\* Every step keeps what the jobs know and what the tables show.
LEMMA RestoreStep == ViewsInv /\ RestoreInv /\ [Next]_vars => RestoreInv'
<1> SUFFICES ASSUME ViewsInv, RestoreInv, [Next]_vars PROVE RestoreInv'
  OBVIOUS
<1>0. /\ ViewsTyped /\ jobs \in Seq(Job)
      /\ \A c \in Command : CmdTyped(cmd[c], jobs)
  BY DEF ViewsInv, ViewsTyped, CmdsTyped
<1>1. \A j \in DOMAIN jobs : j \in Nat \ {0} /\ j # NULL BY <1>0, JobTyped
<1>2. ASSUME UNCHANGED <<jobs, shows, res, rel>> PROVE RestoreInv'
  BY <1>2 DEF RestoreInv, JobsKnow, Shows, Fits
<1>3. ASSUME NEW j \in DOMAIN jobs, NEW m \in Mappings(jobs[j]),
             jobs' = [jobs EXCEPT ![j] = m.job], shows' = Shown(j), res' = m.res, rel' = m.rel
      PROVE  RestoreInv'
  BY <1>0, <1>3, StoredShows DEF RestoreInv
<1>4. ASSUME NEW n, JobKnows(n), jobs' = Append(jobs, n),
             \/ UNCHANGED <<shows, res, rel>> /\ ~n.mapped
             \/ shows' = Len(jobs') /\ n.mapped /\ Fits(res', rel', n)
      PROVE  RestoreInv'
  <2>1. /\ DOMAIN jobs' = DOMAIN jobs \cup {Len(jobs) + 1} /\ Len(jobs) + 1 \notin DOMAIN jobs
        /\ jobs'[Len(jobs) + 1] = n /\ Len(jobs') = Len(jobs) + 1
        /\ \A i \in DOMAIN jobs : jobs'[i] = jobs[i]
    BY <1>0, <1>4
  <2>2. Len(jobs) + 1 \in Nat \ {0} BY <1>0
  <2>3. JobsKnow(jobs') BY <1>4, <2>1 DEF RestoreInv, JobsKnow
  <2>4. CASE UNCHANGED <<shows, res, rel>> /\ ~n.mapped
    <3>1. shows # Len(jobs) + 1 BY <2>1, <2>2, ViewsAssumption DEF RestoreInv, Shows
    <3>2. Shows(jobs', shows, res, rel) BY <2>1, <2>4, <3>1 DEF RestoreInv, Shows
    <3> QED BY <2>3, <2>4, <3>2 DEF RestoreInv
  <2>5. CASE shows' = Len(jobs') /\ n.mapped /\ Fits(res', rel', n)
    <3>1. Shows(jobs', shows', res', rel') BY <2>1, <2>2, <2>5 DEF Shows
    <3> QED BY <2>3, <3>1 DEF RestoreInv
  <2> QED BY <1>4, <2>4, <2>5
<1>5. ASSUME NEW c \in Command, NEW w \in World, Fetch(c, w) PROVE RestoreInv'
  <2>1. jobs' = Append(jobs, Fetched(w)) /\ UNCHANGED <<shows, res, rel>> BY <1>5 DEF Fetch, tables
  <2> QED BY <1>4, <2>1, FetchedKnows
<1>6. ASSUME NEW c \in Command, Map(c) PROVE RestoreInv'
  <2>1. cmd[c].job \in DOMAIN jobs BY <1>0, <1>6 DEF Map, CmdTyped
  <2> QED BY <1>3, <1>6, <2>1 DEF Map, Tables
<1>7. ASSUME NEW c \in Command, cmd[c].at = -1, NEW n, JobKnows(n),
             jobs' = [jobs EXCEPT ![cmd[c].job] = n], shows' = NULL
      PROVE  RestoreInv'
  <2>1. DOMAIN jobs' = DOMAIN jobs BY <1>7
  <2>2. \A i \in DOMAIN jobs' : jobs'[i] \in {jobs[i], n} BY <1>7
  <2>3. JobsKnow(jobs') BY <1>7, <2>1, <2>2 DEF RestoreInv, JobsKnow
  <2>4. Shows(jobs', NULL, res', rel') BY <1>1, <2>1, ViewsAssumption DEF Shows
  <2> QED BY <1>7, <2>3, <2>4 DEF RestoreInv
<1>8. ASSUME NEW c \in Command, MapRaises(c) PROVE RestoreInv'
  <2>1. PICK m \in Mappings(jobs[cmd[c].job]) : jobs' = [jobs EXCEPT ![cmd[c].job] = m.job]
    BY <1>8 DEF MapRaises
  <2>2. cmd[c].at = -1 /\ shows' = NULL BY <1>8 DEF MapRaises
  <2>3. JobKnows(jobs[cmd[c].job]) /\ jobs[cmd[c].job] \in Job /\ res \in Docs
    BY <1>0, <2>2, JobTyped DEF CmdTyped, RestoreInv, JobsKnow, ViewsTyped
  <2>4. JobKnows(m.job) BY <2>3, MappingShows
  <2> QED BY <1>7, <2>1, <2>2, <2>4
<1>9. ASSUME NEW c \in Command, AwsRaises(c) PROVE RestoreInv'
  <2>1. /\ cmd[c].at = -1 /\ shows' = NULL
        /\ jobs' = [jobs EXCEPT ![cmd[c].job] = Applied(jobs[cmd[c].job], Unanswered)]
    BY <1>9 DEF AwsRaises, Unanswered
  <2>2. JobKnows(jobs[cmd[c].job]) BY <1>0, <2>1 DEF CmdTyped, RestoreInv, JobsKnow
  <2>3. JobKnows(Applied(jobs[cmd[c].job], Unanswered)) BY <2>2, AppliedKnows
  <2> QED BY <1>7, <2>1, <2>3
<1>10. ASSUME NEW c \in Command, NEW w \in World, Debug(c, w) PROVE RestoreInv'
  <2>1. PICK m \in Mappings(Fetched(w)) :
          /\ WithFirstFile(c, "import", m.res, m.rel) /\ jobs' = Append(jobs, m.job)
          /\ shows' = Len(jobs')
    BY <1>10 DEF Debug
  <2>2. JobKnows(m.job) /\ m.job.mapped /\ Fits(m.res, m.rel, m.job)
    BY <1>0, FetchedKnows, FetchedTyped, MappingShows DEF ViewsTyped
  <2>3. res' = m.res /\ rel' = m.rel BY <2>1 DEF WithFirstFile
  <2> QED BY <1>4, <2>1, <2>2, <2>3
<1>11. ASSUME NEW c \in Command, NEW j \in DOMAIN jobs, Remap(c, j) PROVE RestoreInv'
  BY <1>3, <1>11 DEF Remap, WithFirstFile
<1>12. ASSUME NEW c \in Command, Reset(c) PROVE RestoreInv'
  <2>1. jobs' = [j \in DOMAIN jobs |-> Fetched(jobs[j].world)] /\ shows' = 0
    BY <1>12 DEF Reset
  <2>2. \A j \in DOMAIN jobs' : JobKnows(jobs'[j]) /\ ~jobs'[j].mapped BY <2>1, FetchedKnows
  <2>3. JobsKnow(jobs') BY <2>2 DEF JobsKnow
  <2>4. Shows(jobs', 0, res', rel') BY <1>1, <2>1, <2>2 DEF Shows
  <2> QED BY <2>1, <2>3, <2>4 DEF RestoreInv
<1> QED
  BY <1>2, <1>5, <1>6, <1>8, <1>9, <1>10, <1>11, <1>12
  DEF Next, vars, tables, ReadFile, WriteFile, RefreshRaises, Reinstall, Remove, Kill, SessionRaises

LEMMA RestoreInvHolds == Spec => []RestoreInv
<1>1. Init => RestoreInv BY DEF Init, RestoreInv, JobsKnow, Shows
<1> QED BY <1>1, RestoreStep, ViewsInvHolds, PTL DEF Spec

\* The tables hold what the job that they show fetched and what AWS answered its
\* mappings since the last reset, whatever commands map, remap, reset, fail, are
\* refused or die before (cli/account/aws.py remap, debug reset).
THEOREM RemapRestoresHolds == Spec => []RemapRestores
<1>1. RestoreInv => RemapRestores BY DEF RestoreInv, Shows, Fits, RemapRestores
<1> QED BY <1>1, RestoreInvHolds, PTL

---------------------------------------------------------------------------------
(***************************************************************************)
(* A refresh of tables that nobody maps meanwhile.                         *)
(***************************************************************************)
Now == [res |-> res, rel |-> rel]

\* The table of a type and its join tables hold what the resources say.
Covered(t) ==
  /\ \A r \in Resource : TypeOf[r] = t => view[r] = IF res[r] = NULL THEN NULL ELSE Row(res, rel, r)
  /\ NewPairs(rel, t) \subseteq join

\* The files that a command has run.
Passed(d, i) == \/ d.at > 0 /\ i < d.at
                \/ d.at = 0 /\ d.ended = "done"
Refreshes(d) == d.at > 0 \/ d.ended = "done"

\* The commands as a refresh has them: they read while they run, and the files
\* that one passed still hold what it read, while nothing else mapped and no
\* other statement sees older tables.
CmdRuns(d) ==
  /\ d.at <= Len(files)
  /\ d.read # NULL => d.at > 0
  /\ d.at # 0 => d.ended = "never"
CmdCovers(d) ==
  d.sole /\ Refreshes(d) =>
    /\ \A e \in Command : cmd[e].read \in {NULL, Now}
    /\ \A i \in DOMAIN files : Passed(d, i) => Covered(files[i])

MirrorInv == \A c \in Command : CmdRuns(cmd[c]) /\ CmdCovers(cmd[c])

\* A statement that reads the tables as they are leaves its type covered, and
\* the other types as they were.
LEMMA UpsertCovers ==
  ASSUME NEW v, NEW j, NEW rs, NEW rl, NEW t,
         \A r \in Resource : v[r] # NULL => rs[r] # NULL,
         res' = rs, rel' = rl, view' = Upsert(v, rs, rl, t), join' = j \cup NewPairs(rl, t)
  PROVE  Covered(t)'
<1>1. ASSUME NEW r \in Resource, TypeOf[r] = t
      PROVE  view'[r] = IF rs[r] = NULL THEN NULL ELSE Row(rs, rl, r)
  <2>1. CASE rs[r] = NULL BY <1>1, <2>1 DEF Upsert
  <2>2. CASE rs[r] # NULL BY <1>1, <2>2 DEF Upsert
  <2> QED BY <2>1, <2>2
<1> QED BY <1>1 DEF Covered

LEMMA UpsertKeepsCovered ==
  ASSUME NEW t, NEW u, Covered(u), \A r \in Resource : view[r] # NULL => res[r] # NULL,
         UNCHANGED tables, view' = Upsert(view, res, rel, t), join' = join \cup NewPairs(rel, t)
  PROVE  Covered(u)'
<1>1. CASE u = t BY <1>1, UpsertCovers DEF tables
<1>2. CASE u # t
  <2>1. \A r \in Resource : TypeOf[r] = u => view'[r] = view[r] BY <1>2 DEF Upsert
  <2> QED BY <2>1 DEF Covered, tables
<1> QED BY <1>1, <1>2
\* A command forward by one file, field by field.
LEMMA ForwardCmd ==
  ASSUME NEW cs, NEW c \in DOMAIN cs, cs[c] \in Record, NEW i \in Nat
  PROVE  LET fs == Forward(c, i, cs)
             d  == fs[c]
         IN /\ DOMAIN fs = DOMAIN cs
            /\ \A e \in DOMAIN cs : e # c => fs[e] = cs[e]
            /\ d.read = cs[c].read /\ d.sole = cs[c].sole /\ d.of = cs[c].of
            /\ \/ i < Len(files) /\ d.at = i + 1 /\ d.ended = cs[c].ended
               \/ ~(i < Len(files)) /\ d.at = 0 /\ d.ended = "done"
<1>1. CASE i < Len(files) BY <1>1 DEF Forward, Record
<1>2. CASE ~(i < Len(files))
  <2> DEFINE ends == [cs[c] EXCEPT !.at = 0, !.ended = "done"]
  <2>1. Forward(c, i, cs) = [cs EXCEPT ![c] = ends] BY <1>2 DEF Forward
  <2>2. /\ ends.read = cs[c].read /\ ends.sole = cs[c].sole /\ ends.of = cs[c].of
        /\ ends.at = 0 /\ ends.ended = "done"
    BY DEF Record
  <2> HIDE DEF ends
  <2> QED BY <1>2, <2>1, <2>2
<1> QED BY <1>1, <1>2

\* A command that changes alone, and the tables do not, keeps what the others cover.
LEMMA OneCovers ==
  ASSUME MirrorInv, DOMAIN cmd = Command, NEW c \in Command, NEW d,
         cmd' = [cmd EXCEPT ![c] = d], UNCHANGED <<res, rel, view, join>>,
         CmdRuns(d), d.read \in {NULL, Now, cmd[c].read},
         d.sole /\ Refreshes(d) =>
           /\ \A e \in Command : cmd'[e].read \in {NULL, Now}
           /\ \A i \in DOMAIN files : Passed(d, i) => Covered(files[i])
  PROVE  MirrorInv'
<1>1. Now' = Now BY DEF Now
<1>2. \A t : Covered(t)' <=> Covered(t)
  <2>1. \A r \in Resource : Row(res', rel', r) = Row(res, rel, r) OBVIOUS
  <2> QED BY <2>1 DEF Covered
<1>3. CmdRuns(d)' /\ CmdCovers(d)'
  <2>1. CmdRuns(d)' BY DEF CmdRuns
  <2>2. \A i : Passed(d, i)' <=> Passed(d, i) BY DEF Passed
  <2> QED BY <1>1, <1>2, <2>1, <2>2 DEF CmdCovers, Refreshes
<1>4. ASSUME NEW e \in Command, e # c PROVE CmdRuns(cmd[e])' /\ CmdCovers(cmd[e])'
  <2>1. cmd'[e] = cmd[e] BY <1>4
  <2>2. CmdRuns(cmd[e]) /\ CmdCovers(cmd[e]) BY DEF MirrorInv
  <2>3. CmdRuns(cmd[e])' BY <2>1, <2>2 DEF CmdRuns
  <2>4. ASSUME cmd[e].sole, Refreshes(cmd[e])
        PROVE  /\ \A f \in Command : cmd'[f].read \in {NULL, Now}
               /\ \A i \in DOMAIN files : Passed(cmd[e], i) => Covered(files[i])
    <3>1. /\ \A f \in Command : cmd[f].read \in {NULL, Now}
          /\ \A i \in DOMAIN files : Passed(cmd[e], i) => Covered(files[i])
      BY <2>2, <2>4 DEF CmdCovers
    <3>2. \A f \in Command : cmd'[f].read = IF f = c THEN d.read ELSE cmd[f].read OBVIOUS
    <3> QED BY <3>1, <3>2
  <2> QED BY <1>1, <1>2, <2>1, <2>3, <2>4 DEF CmdCovers, Refreshes, Passed
<1> QED BY <1>3, <1>4 DEF MirrorInv

\* A command that maps: the others no longer stand alone, so only what it
\* covers itself is left to show.
LEMMA MapCovers ==
  ASSUME MirrorInv, DOMAIN cmd = Command, \A e \in Command : cmd[e] \in Record,
         NEW c \in Command, DOMAIN cmd' = Command,
         \A e \in Command : e # c => cmd'[e] = Others(c)[e],
         CmdRuns(cmd'[c]),
         (CmdCovers(cmd[c]))'
  PROVE  MirrorInv'
<1>1. ASSUME NEW e \in Command, e # c PROVE CmdRuns(cmd[e])' /\ CmdCovers(cmd[e])'
  <2>1. cmd'[e] = [cmd[e] EXCEPT !.sole = FALSE] BY <1>1 DEF Others
  <2>2. /\ ~cmd'[e].sole /\ cmd'[e].at = cmd[e].at /\ cmd'[e].read = cmd[e].read
        /\ cmd'[e].ended = cmd[e].ended
    BY <2>1 DEF Record
  <2>3. CmdRuns(cmd[e]) BY DEF MirrorInv
  <2> QED BY <2>2, <2>3 DEF CmdRuns, CmdCovers
<1>2. CmdRuns(cmd[c])' BY DEF CmdRuns
<1> QED BY <1>1, <1>2 DEF MirrorInv

\* The transaction of import --debug, remap and reset covers its first file.
LEMMA FirstFileCovers ==
  ASSUME ViewsInv, MirrorInv, NEW rs \in Docs, NEW rl \in SUBSET Relations,
         NEW c \in Command, NEW of \in Which, WithFirstFile(c, of, rs, rl)
  PROVE  MirrorInv'
<1> DEFINE v == CascadeRows(view, rs)
           j == CascadePairs(join, rs)
           t == files[1]
           alone == Alone(c, rs, rl)
           starts == [Idle EXCEPT !.of = of, !.sole = alone]
           cs == [Others(c) EXCEPT ![c] = starts]
<1>1. /\ res' = rs /\ rel' = rl
      /\ view' = Upsert(v, rs, rl, t) /\ join' = j \cup NewPairs(rl, t)
      /\ cmd' = Forward(c, 1, cs)
  BY DEF WithFirstFile
<1>2. \A r \in Resource : v[r] # NULL => rs[r] # NULL BY DEF CascadeRows
<1>3. /\ DOMAIN cmd = Command /\ \A e \in Command : cmd[e] \in Record
  BY DEF ViewsInv, ViewsTyped, CmdsTyped, CmdTyped
<1>4. alone \in BOOLEAN BY DEF Alone
<1> HIDE DEF v, j, t, alone
<1>5. Covered(t)' BY <1>1, <1>2, UpsertCovers
<1>6. /\ starts \in Record /\ starts.read = NULL /\ starts.sole = alone
      /\ starts.ended = "never"
  <2>1. CmdTyped(starts, jobs) BY <1>4, StartsTyped
  <2> QED BY <2>1 DEF CmdTyped, Idle
<1>7. DOMAIN cs = Command /\ cs[c] = starts /\ \A e \in Command : e # c => cs[e] = Others(c)[e]
  BY DEF Others
<1> HIDE DEF starts, cs
<1> DEFINE d == cmd'[c]
<1>8. /\ DOMAIN cmd' = Command
      /\ \A e \in Command : e # c => cmd'[e] = Others(c)[e]
      /\ d.read = NULL /\ d.sole = alone
      /\ \/ 1 < Len(files) /\ d.at = 2 /\ d.ended = "never"
         \/ ~(1 < Len(files)) /\ d.at = 0 /\ d.ended = "done"
  <2>1. cs[c] \in Record /\ c \in DOMAIN cs BY <1>6, <1>7
  <2>2. 1 \in Nat /\ 1 + 1 = 2 OBVIOUS
  <2> QED BY <1>1, <1>6, <1>7, <2>1, <2>2, ForwardCmd
<1> HIDE DEF d
<1>9. Len(files) \in Nat \ {0} /\ DOMAIN files = 1 .. Len(files) BY FilesSorted
<1>10. CmdRuns(d) BY <1>8, <1>9 DEF CmdRuns
<1>11. ASSUME alone
       PROVE  \A e \in Command : cmd'[e].read \in {NULL, Now'}
  <2>1. Now' = [res |-> rs, rel |-> rl] BY <1>1 DEF Now
  <2>2. \A e \in Command : e # c => cmd'[e].read = cmd[e].read BY <1>3, <1>8 DEF Others, Record
  <2> QED BY <1>8, <1>11, <2>1, <2>2 DEF Alone, alone, d
<1>12. \A i \in DOMAIN files : Passed(d, i) => Covered(files[i])'
  <2>1. \A i \in DOMAIN files : Passed(d, i) => i = 1 BY <1>8, <1>9 DEF Passed
  <2> QED BY <1>5, <2>1 DEF t
<1>13. CmdCovers(cmd[c])' BY <1>8, <1>11, <1>12 DEF CmdCovers, Passed, d
<1> QED BY <1>3, <1>8, <1>10, <1>13, MapCovers DEF d
\* Every step keeps what the refreshes cover.
LEMMA MirrorStep == ViewsInv /\ MirrorInv /\ [Next]_vars => MirrorInv'
<1> SUFFICES ASSUME ViewsInv, MirrorInv, [Next]_vars PROVE MirrorInv'
  OBVIOUS
<1>0. /\ DOMAIN cmd = Command
      /\ \A c \in Command : /\ cmd[c] \in Record /\ CmdTyped(cmd[c], jobs)
                            /\ CmdRuns(cmd[c]) /\ CmdCovers(cmd[c])
      /\ \A r \in Resource : view[r] # NULL => res[r] # NULL
  BY DEF ViewsInv, ViewsTyped, CmdsTyped, CmdTyped, MirrorInv, ViewsRefer, Refer
<1>1. Len(files) \in Nat \ {0} /\ DOMAIN files = 1 .. Len(files) BY FilesSorted
<1>2. CASE UNCHANGED vars
  <2>1. Now' = Now /\ \A t : Covered(t)' <=> Covered(t)
    BY <1>2 DEF vars, tables, Now, Covered
  <2> QED BY <1>2, <2>1 DEF vars, tables, MirrorInv, CmdRuns, CmdCovers, Refreshes, Passed
<1>3. ASSUME NEW c \in Command, NEW w \in World, Fetch(c, w) PROVE MirrorInv'
  <2> DEFINE d == [Idle EXCEPT !.of = "import", !.at = -1, !.job = Len(jobs')]
  <2>1. cmd' = [cmd EXCEPT ![c] = d] /\ UNCHANGED <<res, rel, view, join>> BY <1>3 DEF Fetch, tables
  <2>2. d.at = -1 /\ d.read = NULL /\ d.ended = "never" BY DEF Idle
  <2> HIDE DEF d
  <2>3. CmdRuns(d) /\ ~Refreshes(d) BY <1>1, <2>2 DEF CmdRuns, Refreshes
  <2> QED BY <1>0, <2>1, <2>2, <2>3, OneCovers
<1>4. ASSUME NEW c \in Command, Map(c) PROVE MirrorInv'
  <2> DEFINE alone == Alone(c, res', rel')
             d == [Others(c)[c] EXCEPT !.at = 1, !.job = 0, !.sole = alone]
  <2>1. cmd[c].read = NULL /\ cmd[c].ended = "never" BY <1>0, <1>4 DEF Map, CmdRuns
  <2>2. cmd' = [Others(c) EXCEPT ![c] = d] BY <1>4 DEF Map, Others
  <2>3. Others(c)[c] = cmd[c] BY DEF Others
  <2>4. d.at = 1 /\ d.sole = alone /\ d.read = NULL /\ d.ended = "never"
    BY <1>0, <2>1, <2>3 DEF Record
  <2> HIDE DEF d, alone
  <2>5. cmd'[c] = d /\ DOMAIN cmd' = Command /\ \A e \in Command : e # c => cmd'[e] = Others(c)[e]
    BY <2>2 DEF Others
  <2>6. CmdRuns(cmd'[c]) BY <1>1, <2>4, <2>5 DEF CmdRuns
  <2>7. ASSUME alone PROVE \A e \in Command : cmd'[e].read \in {NULL, Now'}
    <3>1. \A e \in Command : e # c => cmd'[e].read = cmd[e].read BY <1>0, <2>5 DEF Others, Record
    <3> QED BY <2>4, <2>5, <2>7, <3>1 DEF Alone, alone, Now
  <2>8. \A i \in DOMAIN files : ~Passed(d, i) BY <1>1, <2>4 DEF Passed
  <2>9. CmdCovers(cmd[c])' BY <2>4, <2>5, <2>7, <2>8 DEF CmdCovers, Passed
  <2> QED BY <1>0, <2>5, <2>6, <2>9, MapCovers
<1>15. Failed.at = 0 /\ Failed.read = NULL /\ Failed.ended = "failed" BY DEF Failed, Idle
<1>16. CmdRuns(Failed) /\ ~Refreshes(Failed) BY <1>1, <1>15 DEF CmdRuns, Refreshes
<1>5. ASSUME NEW c \in Command, MapRaises(c) \/ AwsRaises(c) PROVE MirrorInv'
  <2>1. cmd' = [Others(c) EXCEPT ![c] = Failed] BY <1>5 DEF MapRaises, AwsRaises
  <2>2. cmd'[c] = Failed /\ DOMAIN cmd' = Command /\ \A e \in Command : e # c => cmd'[e] = Others(c)[e]
    BY <2>1 DEF Others
  <2>3. CmdCovers(cmd[c])' BY <1>16, <2>2 DEF CmdCovers, Refreshes
  <2> QED BY <1>0, <1>16, <2>2, <2>3, MapCovers
<1>6. ASSUME NEW c \in Command, ReadFile(c) PROVE MirrorInv'
  <2> DEFINE d == [cmd[c] EXCEPT !.read = Now]
  <2>1. cmd' = [cmd EXCEPT ![c] = d] /\ UNCHANGED <<res, rel, view, join>>
    BY <1>6 DEF ReadFile, tables, Now
  <2>2. /\ d.read = Now /\ d.at = cmd[c].at /\ d.sole = cmd[c].sole /\ d.ended = cmd[c].ended
        /\ d.at > 0
    BY <1>0, <1>6 DEF ReadFile, Record
  <2> HIDE DEF d
  <2>3. CmdRuns(d) BY <1>0, <2>2 DEF CmdRuns
  <2>4. ASSUME d.sole, Refreshes(d)
        PROVE  /\ \A e \in Command : cmd'[e].read \in {NULL, Now}
               /\ \A i \in DOMAIN files : Passed(d, i) => Covered(files[i])
    <3>1. /\ \A e \in Command : cmd[e].read \in {NULL, Now}
          /\ \A i \in DOMAIN files : Passed(d, i) => Covered(files[i])
      BY <1>0, <2>2, <2>4 DEF CmdCovers, Refreshes, Passed
    <3>2. \A e \in Command : cmd'[e].read = IF e = c THEN Now ELSE cmd[e].read BY <1>0, <2>1, <2>2
    <3> QED BY <3>1, <3>2
  <2> QED BY <1>0, <2>1, <2>2, <2>3, <2>4, OneCovers
<1>7. ASSUME NEW c \in Command, WriteFile(c) PROVE MirrorInv'
  <2>0. PICK at \in DOMAIN files : at = cmd[c].at
    <3>1. cmd[c].read # NULL BY <1>7 DEF WriteFile
    <3> QED BY <1>0, <1>1, <3>1 DEF CmdRuns, Record
  <2> DEFINE seen == cmd[c].read
             t == files[at]
             wrote == [cmd[c] EXCEPT !.read = NULL]
             cs == [cmd EXCEPT ![c] = wrote]
             d == cmd'[c]
  <2>1. /\ seen # NULL
        /\ view' = Upsert(view, seen.res, seen.rel, t)
        /\ join' = join \cup NewPairs(seen.rel, t)
        /\ UNCHANGED <<res, rel>>
        /\ cmd' = Forward(c, at, cs)
    BY <1>7, <2>0 DEF WriteFile, tables
  <2>2. at \in Nat \ {0} /\ at \in DOMAIN files /\ cmd[c].ended = "never"
    BY <1>0, <1>1, <2>0, <2>1 DEF CmdRuns, Record
  <2>3. /\ wrote \in Record /\ wrote.read = NULL /\ wrote.sole = cmd[c].sole /\ wrote.ended = "never"
    BY <1>0, <2>2 DEF Record
  <2>4. DOMAIN cs = Command /\ cs[c] = wrote /\ \A e \in Command : e # c => cs[e] = cmd[e]
    BY <1>0
  <2> HIDE DEF cs, wrote, seen, t
  <2>5. /\ DOMAIN cmd' = Command
        /\ \A e \in Command : e # c => cmd'[e] = cmd[e]
        /\ d.read = NULL /\ d.sole = cmd[c].sole
        /\ \/ at < Len(files) /\ d.at = at + 1 /\ d.ended = "never"
           \/ ~(at < Len(files)) /\ d.at = 0 /\ d.ended = "done"
    <3>1. cs[c] \in Record /\ c \in DOMAIN cs BY <2>3, <2>4
    <3> QED BY <2>1, <2>2, <2>3, <2>4, <3>1, ForwardCmd
  <2> HIDE DEF d
  <2>6. CmdRuns(d) BY <1>1, <2>2, <2>5 DEF CmdRuns
  <2>7. Now' = Now BY <2>1 DEF Now
  <2>8. ASSUME seen = Now, NEW u, u = t \/ Covered(u) PROVE Covered(u)'
    <3>1. /\ view' = Upsert(view, res, rel, t) /\ join' = join \cup NewPairs(rel, t)
          /\ UNCHANGED tables
      BY <2>1, <2>8 DEF Now, tables
    <3>2. CASE u = t
      <4>1. res' = res /\ rel' = rel BY <2>1
      <4> QED BY <1>0, <3>1, <3>2, <4>1, UpsertCovers
    <3>3. CASE Covered(u) BY <1>0, <3>1, <3>3, UpsertKeepsCovered
    <3> QED BY <2>8, <3>2, <3>3
  <2>9. ASSUME NEW e \in Command, cmd[e].sole, Refreshes(cmd[e])
        PROVE  /\ \A f \in Command : cmd'[f].read \in {NULL, Now}
               /\ \A i \in DOMAIN files : Passed(cmd[e], i) => Covered(files[i])'
               /\ Covered(t)'
    <3>1. /\ \A f \in Command : cmd[f].read \in {NULL, Now}
          /\ \A i \in DOMAIN files : Passed(cmd[e], i) => Covered(files[i])
      BY <1>0, <2>9 DEF CmdCovers
    <3>2. seen = Now BY <2>1, <3>1 DEF seen
    <3>3. \A f \in Command : cmd'[f].read \in {NULL, Now} BY <2>5, <3>1 DEF d
    <3>4. Covered(t)' BY <2>8, <3>2
    <3>5. \A i \in DOMAIN files : Covered(files[i]) => Covered(files[i])' BY <2>8, <3>2
    <3> QED BY <3>1, <3>3, <3>4, <3>5
  <2>10. CmdCovers(cmd[c])'
    <3>1. SUFFICES ASSUME d.sole
                   PROVE  /\ \A f \in Command : cmd'[f].read \in {NULL, Now'}
                          /\ \A i \in DOMAIN files : Passed(d, i) => Covered(files[i])'
      BY DEF CmdCovers, Passed, d
    <3>2. cmd[c].sole /\ Refreshes(cmd[c]) BY <2>0, <2>2, <2>5, <3>1 DEF Refreshes
    <3>3. \A i \in DOMAIN files : Passed(d, i) => i = at \/ Passed(cmd[c], i)
      BY <1>1, <2>0, <2>2, <2>5 DEF Passed
    <3>4. \A i \in DOMAIN files : Passed(cmd[c], i) => Covered(files[i])' BY <2>9, <3>1, <3>2
    <3>5. Covered(files[at])' BY <2>9, <3>1, <3>2 DEF t
    <3>6. \A f \in Command : cmd'[f].read \in {NULL, Now} BY <2>9, <3>1, <3>2
    <3> QED BY <2>7, <3>3, <3>4, <3>5, <3>6
  <2>11. ASSUME NEW e \in Command, e # c PROVE CmdRuns(cmd[e])' /\ CmdCovers(cmd[e])'
    <3>1. cmd'[e] = cmd[e] BY <2>5, <2>11
    <3>2. CmdRuns(cmd[e])' BY <1>0, <3>1 DEF CmdRuns
    <3> QED BY <2>7, <2>9, <3>1, <3>2 DEF CmdCovers, Refreshes, Passed
  <2>12. CmdRuns(cmd[c])' BY <2>6 DEF CmdRuns, d
  <2> QED BY <2>10, <2>11, <2>12 DEF MirrorInv
<1>8. ASSUME NEW c \in Command, RefreshRaises(c) PROVE MirrorInv'
  <2> DEFINE d == [cmd[c] EXCEPT !.at = 0, !.read = NULL, !.ended = "raised"]
  <2>1. cmd' = [cmd EXCEPT ![c] = d] /\ UNCHANGED <<res, rel, view, join>>
    BY <1>0, <1>8 DEF RefreshRaises, tables
  <2>2. d.at = 0 /\ d.read = NULL /\ d.ended = "raised" BY <1>0 DEF Record
  <2> HIDE DEF d
  <2>3. CmdRuns(d) /\ ~Refreshes(d) BY <1>1, <2>2 DEF CmdRuns, Refreshes
  <2> QED BY <1>0, <2>1, <2>2, <2>3, OneCovers
<1>9. ASSUME NEW c \in Command, NEW j \in DOMAIN jobs, Remap(c, j) PROVE MirrorInv'
  <2>1. "remap" \in Which BY DEF Which
  <2>2. PICK m \in Mappings(jobs[j]) : WithFirstFile(c, "remap", m.res, m.rel) BY <1>9 DEF Remap
  <2>3. m.res \in Docs /\ m.rel \in SUBSET Relations
    BY JobTyped, MappingTyped DEF ViewsInv, ViewsTyped
  <2> QED BY <2>1, <2>2, <2>3, FirstFileCovers
<1>10. ASSUME NEW c \in Command, Reset(c) PROVE MirrorInv'
  <2>1. "reset" \in Which BY DEF Which
  <2> DEFINE none == [r \in Resource |-> NULL]
  <2>2. none \in Docs /\ {} \in SUBSET Relations BY DEF Docs
  <2>3. WithFirstFile(c, "reset", none, {}) BY <1>10 DEF Reset
  <2> HIDE DEF none
  <2> QED BY <2>1, <2>2, <2>3, FirstFileCovers
<1>11. ASSUME NEW c \in Command, Reinstall(c) PROVE MirrorInv'
  <2> DEFINE alone == Alone(c, res, rel)
             d == [Idle EXCEPT !.of = "reinstall", !.at = 1, !.sole = alone]
  <2>1. cmd' = [cmd EXCEPT ![c] = d] /\ UNCHANGED <<res, rel, view, join>>
    BY <1>11 DEF Reinstall, tables
  <2>2. d.at = 1 /\ d.read = NULL /\ d.ended = "never" /\ d.sole = alone BY DEF Idle
  <2> HIDE DEF d, alone
  <2>3. CmdRuns(d) BY <1>1, <2>2 DEF CmdRuns
  <2>4. ASSUME d.sole
        PROVE  /\ \A e \in Command : cmd'[e].read \in {NULL, Now}
               /\ \A i \in DOMAIN files : ~Passed(d, i)
    <3>1. \A i \in DOMAIN files : ~Passed(d, i) BY <1>1, <2>2 DEF Passed
    <3>2. \A e \in Command : cmd'[e].read = IF e = c THEN NULL ELSE cmd[e].read BY <1>0, <2>1, <2>2
    <3> QED BY <2>2, <2>4, <3>1, <3>2 DEF alone, Alone, Now
  <2> QED BY <1>0, <2>1, <2>2, <2>3, <2>4, OneCovers
<1>12. ASSUME NEW c \in Command, Remove(c) PROVE MirrorInv'
  <2> DEFINE d == [Idle EXCEPT !.of = "remove", !.ended = "raised"]
  <2>1. cmd' = [cmd EXCEPT ![c] = d] /\ UNCHANGED <<res, rel, view, join>>
    BY <1>12 DEF Remove, tables
  <2>2. d.at = 0 /\ d.read = NULL /\ d.ended = "raised" BY DEF Idle
  <2> HIDE DEF d
  <2>3. CmdRuns(d) /\ ~Refreshes(d) BY <1>1, <2>2 DEF CmdRuns, Refreshes
  <2> QED BY <1>0, <2>1, <2>2, <2>3, OneCovers
<1>13. ASSUME NEW c \in Command, Kill(c) \/ SessionRaises(c) PROVE MirrorInv'
  <2>1. cmd' = [cmd EXCEPT ![c] = Failed] /\ UNCHANGED <<res, rel, view, join>>
    BY <1>13 DEF Kill, SessionRaises, tables
  <2> QED BY <1>0, <1>15, <1>16, <2>1, OneCovers
<1>14. ASSUME NEW c \in Command, NEW w \in World, Debug(c, w) PROVE MirrorInv'
  <2>1. "import" \in Which BY DEF Which
  <2>2. PICK m \in Mappings(Fetched(w)) : WithFirstFile(c, "import", m.res, m.rel) BY <1>14 DEF Debug
  <2>3. m.res \in Docs /\ m.rel \in SUBSET Relations
    BY FetchedTyped, MappingTyped DEF ViewsInv, ViewsTyped
  <2> QED BY <2>1, <2>2, <2>3, FirstFileCovers
<1> QED
  BY <1>2, <1>3, <1>4, <1>5, <1>6, <1>7, <1>8, <1>9, <1>10, <1>11, <1>12, <1>13, <1>14 DEF Next

LEMMA MirrorInvHolds == Spec => []MirrorInv
<1>1. Init => MirrorInv
  <2>1. Len(files) \in Nat BY FilesSorted
  <2> QED BY <2>1 DEF Init, MirrorInv, Idle, CmdRuns, CmdCovers, Refreshes
<1> QED BY <1>1, MirrorStep, ViewsInvHolds, PTL DEF Spec

\* A refresh that ran to its end while nothing mapped, and no statement saw
\* older tables, leaves every table and join table as the resources and
\* relations are, whatever was in them (bootstrap_db.refresh_views).
THEOREM RefreshMirrorsHolds == Spec => []RefreshMirrors
<1>1. ASSUME ViewsInv, MirrorInv PROVE RefreshMirrors
  <2>1. SUFFICES ASSUME NEW c \in Command, cmd[c].ended = "done", cmd[c].sole PROVE Mirrored
    BY DEF RefreshMirrors
  <2>2. CmdRuns(cmd[c]) /\ CmdCovers(cmd[c]) BY <1>1 DEF MirrorInv
  <2>3. cmd[c].at = 0 BY <2>1, <2>2 DEF CmdRuns
  <2>4. \A i \in DOMAIN files : Covered(files[i])
    BY <2>1, <2>2, <2>3 DEF CmdCovers, Refreshes, Passed
  <2>5. \A t \in Type : Covered(t) BY <2>4, FilesSorted
  <2>6. \A r \in Resource : TypeOf[r] \in Type BY ViewsAssumption
  <2> QED BY <2>5, <2>6 DEF Covered, Mirrored
<1> QED BY <1>1, ViewsInvHolds, MirrorInvHolds, PTL

\* Every table, job and command stays of its type, and no command runs a file
\* that is not there.
THEOREM TypeCorrect == Spec => []TypeOK
<1>1. ASSUME ViewsInv, RestoreInv, MirrorInv PROVE TypeOK
  <2>1. Len(files) \in Nat BY FilesSorted
  <2>2. ASSUME NEW c \in Command
        PROVE  cmd[c] \in [of : Which, at : -1 .. Len(files), job : DOMAIN jobs \cup {0},
                           read : Snapshot \cup {NULL}, sole : BOOLEAN, ended : Ended]
    <3>1. cmd[c] \in Record /\ cmd[c].job \in DOMAIN jobs \cup {0} /\ cmd[c].at <= Len(files)
      BY <1>1 DEF ViewsInv, ViewsTyped, CmdsTyped, CmdTyped, MirrorInv, CmdRuns
    <3>2. cmd[c].at \in -1 .. Len(files) BY <2>1, <3>1 DEF Record
    <3> QED BY <3>1, <3>2 DEF Record
  <2>3. cmd \in [Command -> Record] BY <1>1 DEF ViewsInv, ViewsTyped, CmdsTyped
  <2> DEFINE Records == [of : Which, at : -1 .. Len(files), job : DOMAIN jobs \cup {0},
                         read : Snapshot \cup {NULL}, sole : BOOLEAN, ended : Ended]
  <2>4. cmd \in [Command -> Records]
    <3>1. \A c \in Command : cmd[c] \in Records BY <2>2
    <3> HIDE DEF Records
    <3> QED BY <2>3, <3>1
  <2>5. cmd \in [Command -> [of : Which, at : -1 .. Len(files), job : DOMAIN jobs \cup {0}, sole : BOOLEAN,
                             read : Snapshot \cup {NULL}, ended : Ended]]
    BY <2>4
  <2> QED BY <1>1, <2>5 DEF ViewsInv, ViewsTyped, TypeOK, RestoreInv, Shows, Docs, Tabled, Which, Ended
<1> QED BY <1>1, ViewsInvHolds, RestoreInvHolds, MirrorInvHolds, PTL
---------------------------------------------------------------------------------
(***************************************************************************)
(* A command can refresh what it mapped itself.                            *)
(***************************************************************************)
\* The relations are between resources that exist, and those of a command that
\* maps and stands alone have one target for a column.
RelationsLive(rs, rl) == \A x \in rl : rs[x.from] # NULL /\ rs[x.to] # NULL
CmdFits(d) ==
  /\ d.at # 0 => d.of \in {"import", "remap", "reset", "reinstall"}
  /\ d.sole /\ d.at > 0 /\ d.of \in {"import", "remap", "reset"} => OneTarget(rel)
  /\ d.sole /\ d.ended = "raised" => d.of \in {"reinstall", "remove"}
FitInv == RelationsLive(res, rel) /\ \A c \in Command : CmdFits(cmd[c])

\* What a column finds is one of its targets, and it finds something when there
\* is exactly one.
LEMMA TargetFound ==
  ASSUME NEW rl \in SUBSET Relations, NEW r, NEW c, Target(rl, r, c) # NULL
  PROVE  \E x \in rl : /\ x.rel = c.rel /\ x.from = r
                       /\ x.to = Target(rl, r, c) /\ TypeOf[x.to] = c.to
<1>1. Targets(rl, r, c) # {} BY DEF Target
<1>2. Target(rl, r, c) \in Targets(rl, r, c)
  <2>1. (CHOOSE t \in Targets(rl, r, c) : TRUE) \in Targets(rl, r, c) BY <1>1
  <2> QED BY <1>1, <2>1 DEF Target
<1> QED BY <1>2 DEF Targets

\* A file of a command that stands alone does not raise, where the files before
\* it covered their types: everything its rows refer to is there.
LEMMA CoveredFits ==
  ASSUME ViewsTyped, RelationsLive(res, rel), OneTarget(rel), NEW k \in DOMAIN files,
         \A i \in DOMAIN files : i < k => Covered(files[i])
  PROVE  ~Fails(view, res, rel, files[k], res)
<1> DEFINE t == files[k]
           u == Upsert(view, res, rel, t)
<1>1. rel \in SUBSET Relations /\ res \in Docs BY DEF ViewsTyped
<1>2. t \in Type /\ k \in Nat BY FilesSorted
<1>3. ASSUME NEW s \in Type, Number[s] <= Number[t], NEW r \in Resource, TypeOf[r] = s, res[r] # NULL
      PROVE  u[r] # NULL
  <2>1. Row(res, rel, r) # NULL BY <1>1, <1>3, RowTyped
  <2>2. CASE s = t BY <1>3, <2>1, <2>2 DEF Upsert
  <2>3. CASE s # t
    <3>1. PICK i \in DOMAIN files : files[i] = s BY <1>3, FilesSorted
    <3>2. Number[s] \in Nat /\ Number[t] \in Nat BY <1>2, FilesAssumption
    <3>3. ~(k < i) /\ i # k /\ i \in Nat
      <4>1. k < i => Number[t] < Number[s] BY <3>1, FilesSorted
      <4>2. i # k BY <2>3, <3>1
      <4> QED BY <1>3, <3>1, <3>2, <4>1, <4>2, FilesSorted
    <3>4. Covered(s) BY <1>2, <3>1, <3>3
    <3>5. view[r] = Row(res, rel, r) BY <1>3, <3>4 DEF Covered
    <3> QED BY <1>3, <2>1, <3>5 DEF Upsert
  <2> QED BY <2>2, <2>3
<1>4. \A x \in rel : x.from \in Resource /\ x.to \in Resource BY <1>1 DEF Relations
<1>5. ASSUME NEW r \in Resource, NEW c \in ColumnsOf(t), TypeOf[r] = t, Target(rel, r, c) # NULL
      PROVE  u[Target(rel, r, c)] # NULL
  <2>1. PICK x \in rel : x.to = Target(rel, r, c) /\ TypeOf[x.to] = c.to
    BY <1>1, <1>5, TargetFound
  <2>2. res[x.to] # NULL BY DEF RelationsLive
  <2>3. c.to \in Type /\ Number[c.to] <= Number[t] BY FilesAssumption DEF ColumnsOf
  <2> QED BY <1>3, <1>4, <2>1, <2>2, <2>3
<1>6. ASSUME NEW r \in Resource, NEW c \in ColumnsOf(t), TypeOf[r] = t, ~c.counted
      PROVE  ~(Cardinality(Targets(rel, r, c)) > 1)
  <2>1. \A a \in Targets(rel, r, c) : \A b \in Targets(rel, r, c) : a = b
    <3>1. SUFFICES ASSUME NEW a \in Targets(rel, r, c), NEW b \in Targets(rel, r, c) PROVE a = b
      OBVIOUS
    <3>2. PICK x \in rel : x.to = a /\ x.rel = c.rel /\ x.from = r /\ TypeOf[x.to] = c.to BY DEF Targets
    <3>3. PICK y \in rel : y.to = b /\ y.rel = c.rel /\ y.from = r /\ TypeOf[y.to] = c.to BY DEF Targets
    <3>4. c \in Column /\ c.of = t BY DEF ColumnsOf
    <3> QED BY <1>6, <3>2, <3>3, <3>4 DEF OneTarget
  <2>2. CASE Targets(rel, r, c) = {} BY <2>2, FS_EmptySet
  <2>3. CASE Targets(rel, r, c) # {}
    <3>1. PICK a : Targets(rel, r, c) = {a} BY <2>1, <2>3
    <3> QED BY <3>1, FS_Singleton
  <2> QED BY <2>2, <2>3
<1>7. ASSUME NEW x \in NewPairs(rel, t), NEW r \in {x.from, x.to} PROVE u[r] # NULL
  <2>1. PICK j \in JoinTable : j.of = t /\ TypeOf[x.from] = j.of /\ TypeOf[x.to] = j.to
    BY DEF NewPairs
  <2>2. x \in rel /\ res[x.from] # NULL /\ res[x.to] # NULL BY DEF NewPairs, RelationsLive
  <2>3. j.to \in Type /\ Number[j.to] <= Number[t] BY <2>1, FilesAssumption
  <2>4. Number[t] <= Number[t] BY <1>2, FilesAssumption
  <2>5. u[x.from] # NULL BY <1>2, <1>3, <1>4, <2>1, <2>2, <2>4
  <2>6. u[x.to] # NULL BY <1>3, <1>4, <2>1, <2>2, <2>3
  <2> QED BY <2>5, <2>6
<1> HIDE DEF t
<1>8. ~Fails(view, res, rel, t, res) BY <1>5, <1>6, <1>7 DEF Fails
<1> QED BY <1>8 DEF t

\* The relations that a mapping leaves are between what it leaves, and are of those
\* that the job fetched.
LEMMA MappingFits ==
  ASSUME OneTargetFetched, NEW job \in Job, NEW m \in Mappings(job)
  PROVE  RelationsLive(m.res, m.rel) /\ OneTarget(m.rel)
<1>1. PICK a \in AnyAnswer : \E last \in Lasts(Applied(job, a)) : m = Mapping(job, a, last)
  BY MappingOf
<1>2. PICK last \in Lasts(Applied(job, a)) : m = Mapping(job, a, last) BY <1>1
<1>3. m.rel = Live(m.res, job.world.rel) BY <1>2 DEF Mapping
<1>4. RelationsLive(m.res, m.rel) /\ m.rel \subseteq job.world.rel BY <1>3 DEF Live, RelationsLive
<1>5. OneTarget(job.world.rel) BY DEF OneTargetFetched, Job
<1> QED BY <1>4, <1>5 DEF OneTarget

\* A command that maps with its first file fits.
LEMMA FirstFileFits ==
  ASSUME ViewsInv, FitInv, NEW rs, NEW rl, NEW c \in Command,
         NEW of \in {"import", "remap", "reset"},
         WithFirstFile(c, of, rs, rl), RelationsLive(rs, rl), OneTarget(rl)
  PROVE  FitInv'
<1> DEFINE alone == Alone(c, rs, rl)
           starts == [Idle EXCEPT !.of = of, !.sole = alone]
           cs == [Others(c) EXCEPT ![c] = starts]
<1>1. res' = rs /\ rel' = rl /\ cmd' = Forward(c, 1, cs) BY DEF WithFirstFile
<1>2. \A e \in Command : cmd[e] \in Record BY DEF ViewsInv, ViewsTyped, CmdsTyped, CmdTyped
<1>3. alone \in BOOLEAN BY DEF Alone
<1> HIDE DEF alone
<1>4. starts \in Record /\ starts.ended = "never" /\ starts.of = of
  <2>0. of \in Which BY DEF Which
  <2>1. CmdTyped(starts, jobs) BY <1>3, <2>0, StartsTyped
  <2> QED BY <2>1 DEF CmdTyped, Idle
<1>5. DOMAIN cs = Command /\ cs[c] = starts /\ \A e \in Command : e # c => cs[e] = Others(c)[e]
  BY DEF Others
<1> HIDE DEF starts, cs
<1>6. /\ \A e \in Command : e # c => cmd'[e] = Others(c)[e]
      /\ cmd'[c].ended # "raised" /\ cmd'[c].of = of
  <2>1. cs[c] \in Record /\ c \in DOMAIN cs /\ 1 \in Nat BY <1>4, <1>5
  <2> QED BY <1>1, <1>4, <1>5, <2>1, ForwardCmd
<1>7. ASSUME NEW e \in Command PROVE CmdFits(cmd[e])'
  <2>1. CASE e = c BY <1>1, <1>6, <2>1 DEF CmdFits
  <2>2. CASE e # c
    <3>1. cmd'[e] = [cmd[e] EXCEPT !.sole = FALSE] BY <1>6, <2>2 DEF Others
    <3>2. ~cmd'[e].sole /\ cmd'[e].at = cmd[e].at /\ cmd'[e].of = cmd[e].of
      BY <1>2, <3>1 DEF Record
    <3> QED BY <3>2 DEF FitInv, CmdFits
  <2> QED BY <2>1, <2>2
<1> QED BY <1>1, <1>7 DEF FitInv

\* A command that changes alone, and the tables do not.
LEMMA OneFits ==
  ASSUME FitInv, DOMAIN cmd = Command, UNCHANGED <<res, rel>>, NEW c \in Command, NEW d,
         cmd' = [cmd EXCEPT ![c] = d], CmdFits(d)
  PROVE  FitInv'
BY DEF FitInv, CmdFits

\* Every step keeps the commands fit to refresh.
LEMMA FitStep == OneTargetFetched /\ ViewsInv /\ MirrorInv /\ FitInv /\ [Next]_vars => FitInv'
<1> SUFFICES ASSUME OneTargetFetched, ViewsInv, MirrorInv, FitInv, [Next]_vars PROVE FitInv'
  OBVIOUS
<1>0. /\ ViewsTyped /\ DOMAIN cmd = Command
      /\ \A c \in Command : /\ cmd[c] \in Record /\ CmdTyped(cmd[c], jobs)
                            /\ CmdRuns(cmd[c]) /\ CmdCovers(cmd[c]) /\ CmdFits(cmd[c])
  BY DEF ViewsInv, ViewsTyped, CmdsTyped, CmdTyped, MirrorInv, FitInv
<1>1. Len(files) \in Nat \ {0} /\ DOMAIN files = 1 .. Len(files) BY FilesSorted
<1>2. CASE UNCHANGED vars BY <1>2 DEF vars, tables, FitInv, CmdFits
<1>3. ASSUME NEW c \in Command, NEW w \in World, Fetch(c, w) PROVE FitInv'
  <2> DEFINE d == [Idle EXCEPT !.of = "import", !.at = -1, !.job = Len(jobs')]
  <2>1. cmd' = [cmd EXCEPT ![c] = d] /\ UNCHANGED <<res, rel>> BY <1>3 DEF Fetch, tables
  <2>2. d.at = -1 /\ d.ended = "never" /\ d.of = "import" BY DEF Idle
  <2> HIDE DEF d
  <2>3. CmdFits(d) BY <2>2 DEF CmdFits
  <2> QED BY <1>0, <2>1, <2>3, OneFits
<1>4. ASSUME NEW c \in Command, NEW e \in Command, e # c, cmd'[e] = Others(c)[e]
      PROVE  CmdFits(cmd[e])'
  <2>1. cmd'[e] = [cmd[e] EXCEPT !.sole = FALSE] BY <1>4 DEF Others
  <2>2. ~cmd'[e].sole /\ cmd'[e].at = cmd[e].at /\ cmd'[e].of = cmd[e].of
    BY <1>0, <2>1 DEF Record
  <2> QED BY <1>0, <2>2 DEF CmdFits
<1>5. ASSUME NEW c \in Command, Map(c) PROVE FitInv'
  <2>1. cmd[c].job \in DOMAIN jobs BY <1>0, <1>5 DEF Map, CmdTyped
  <2>2. PICK m \in Mappings(jobs[cmd[c].job]) : res' = m.res /\ rel' = m.rel BY <1>5 DEF Map, Tables
  <2>3. RelationsLive(res', rel') /\ OneTarget(rel') BY <1>0, <2>1, <2>2, JobTyped, MappingFits
  <2> DEFINE d == [Others(c)[c] EXCEPT !.at = 1, !.job = 0, !.sole = Alone(c, res', rel')]
  <2>4. cmd' = [Others(c) EXCEPT ![c] = d] BY <1>5 DEF Map, Others
  <2>5. d.ended = "never" /\ d.of \in {"import", "remap", "reset", "reinstall"}
    <3>1. cmd[c].ended = "never" /\ cmd[c].of \in {"import", "remap", "reset", "reinstall"}
      BY <1>0, <1>5 DEF Map, CmdRuns, CmdFits
    <3> QED BY <1>0, <3>1 DEF Others, Record
  <2> HIDE DEF d
  <2>6. cmd'[c] = d /\ \A e \in Command : e # c => cmd'[e] = Others(c)[e] BY <2>4 DEF Others
  <2>7. CmdFits(cmd[c])' BY <2>3, <2>5, <2>6 DEF CmdFits
  <2> QED BY <1>4, <2>3, <2>6, <2>7 DEF FitInv
<1>16. Failed.at = 0 /\ Failed.ended = "failed" BY DEF Failed, Idle
<1>17. ASSUME NEW c \in Command, cmd' = [Others(c) EXCEPT ![c] = Failed], RelationsLive(res', rel')
      PROVE  FitInv'
  <2>1. cmd'[c] = Failed /\ \A e \in Command : e # c => cmd'[e] = Others(c)[e] BY <1>17 DEF Others
  <2>2. CmdFits(cmd[c])' BY <1>16, <2>1 DEF CmdFits
  <2> QED BY <1>4, <1>17, <2>1, <2>2 DEF FitInv
<1>6. ASSUME NEW c \in Command, MapRaises(c) PROVE FitInv'
  <2>1. cmd[c].job \in DOMAIN jobs BY <1>0, <1>6 DEF MapRaises, CmdTyped
  <2>2. PICK m \in Mappings(jobs[cmd[c].job]) : res' = m.res /\ rel' = Live(m.res, rel) \cup m.rel
    BY <1>6 DEF MapRaises, Tables
  <2>3. RelationsLive(m.res, m.rel) BY <1>0, <2>1, JobTyped, MappingFits
  <2>4. RelationsLive(res', rel') BY <2>2, <2>3 DEF RelationsLive, Live
  <2>5. cmd' = [Others(c) EXCEPT ![c] = Failed] BY <1>6 DEF MapRaises
  <2> QED BY <1>17, <2>4, <2>5
<1>18. ASSUME NEW c \in Command, AwsRaises(c) PROVE FitInv'
  <2> DEFINE job == jobs[cmd[c].job]
             New(r) == [doc |-> job.world.doc[r], part |-> IF res[r] = NULL THEN NULL ELSE res[r].part]
  <2>1. job.world.doc \in Documents
    <3>1. job \in Job BY <1>0, <1>18 DEF AwsRaises, CmdTyped, ViewsTyped
    <3> QED BY <3>1, ViewsAssumption DEF Job
  <2>2. /\ res' = [r \in Resource |->
                    IF job.mapped \/ job.world.doc[r] = NULL THEN res[r] ELSE New(r)]
        /\ rel' = rel /\ cmd' = [Others(c) EXCEPT ![c] = Failed]
    BY <1>18 DEF AwsRaises, Tables
  <2>3. res \in Docs /\ rel \in SUBSET Relations BY <1>0 DEF ViewsTyped
  <2> HIDE DEF job
  <2>4. ASSUME NEW r \in Resource, job.world.doc[r] # NULL PROVE New(r) # NULL
    <3>1. New(r) \in Content BY <2>1, <2>3, <2>4 DEF Documents, Docs, Content
    <3> QED BY <3>1, ViewsAssumption
  <2> HIDE DEF New
  <2>5. \A r \in Resource : res[r] # NULL => res'[r] # NULL BY <2>2, <2>4
  <2>6. \A x \in rel : x.from \in Resource /\ x.to \in Resource BY <2>3 DEF Relations
  <2>7. RelationsLive(res', rel') BY <2>2, <2>5, <2>6 DEF FitInv, RelationsLive
  <2> QED BY <1>17, <2>2, <2>7
<1>7. ASSUME NEW c \in Command, ReadFile(c) PROVE FitInv'
  <2> DEFINE d == [cmd[c] EXCEPT !.read = Now]
  <2>1. cmd' = [cmd EXCEPT ![c] = d] /\ UNCHANGED <<res, rel>> BY <1>7 DEF ReadFile, tables, Now
  <2>2. d.at = cmd[c].at /\ d.sole = cmd[c].sole /\ d.ended = cmd[c].ended /\ d.of = cmd[c].of
    BY <1>0 DEF Record
  <2> HIDE DEF d
  <2>3. CmdFits(d) BY <1>0, <2>2 DEF CmdFits
  <2> QED BY <1>0, <2>1, <2>3, OneFits
<1>8. ASSUME NEW c \in Command, WriteFile(c) PROVE FitInv'
  <2> DEFINE wrote == [cmd[c] EXCEPT !.read = NULL]
             cs == [cmd EXCEPT ![c] = wrote]
             d == cmd'[c]
  <2>1. cmd' = Forward(c, cmd[c].at, cs) /\ UNCHANGED <<res, rel>> BY <1>8 DEF WriteFile, tables
  <2>2. cmd[c].at \in Nat \ {0} /\ cmd[c].ended = "never"
    BY <1>0, <1>8 DEF WriteFile, CmdRuns, Record
  <2>3. wrote \in Record /\ wrote.sole = cmd[c].sole /\ wrote.of = cmd[c].of /\ wrote.ended = "never"
    BY <1>0, <2>2 DEF Record
  <2>4. DOMAIN cs = Command /\ cs[c] = wrote /\ \A e \in Command : e # c => cs[e] = cmd[e]
    BY <1>0
  <2> HIDE DEF cs, wrote
  <2>5. /\ \A e \in Command : e # c => cmd'[e] = cmd[e]
        /\ d.sole = cmd[c].sole /\ d.of = cmd[c].of /\ d.ended \in {"never", "done"}
    <3>1. cs[c] \in Record /\ c \in DOMAIN cs BY <2>3, <2>4
    <3> QED BY <2>1, <2>2, <2>3, <2>4, <3>1, ForwardCmd
  <2>6. CmdFits(cmd[c])' BY <1>0, <2>1, <2>2, <2>5 DEF CmdFits
  <2>7. ASSUME NEW e \in Command, e # c PROVE CmdFits(cmd[e])'
    BY <1>0, <2>1, <2>5, <2>7 DEF CmdFits
  <2> QED BY <2>1, <2>6, <2>7 DEF FitInv
<1>9. ASSUME NEW c \in Command, RefreshRaises(c) PROVE FitInv'
  <2> DEFINE d == [cmd[c] EXCEPT !.at = 0, !.read = NULL, !.ended = "raised"]
  <2>1. cmd' = [cmd EXCEPT ![c] = d] /\ UNCHANGED <<res, rel>>
    BY <1>0, <1>9 DEF RefreshRaises, tables
  <2>2. d.at = 0 /\ d.sole = cmd[c].sole /\ d.of = cmd[c].of BY <1>0 DEF Record
  <2> HIDE DEF d
  <2>3. ASSUME cmd[c].sole PROVE cmd[c].of \notin {"import", "remap", "reset"}
    <3>1. SUFFICES ASSUME OneTarget(rel) PROVE FALSE
      BY <1>0, <1>9, <2>3 DEF RefreshRaises, CmdRuns, CmdFits
    <3>2. cmd[c].at \in DOMAIN files /\ cmd[c].at > 0 /\ cmd[c].read # NULL
      BY <1>0, <1>1, <1>9 DEF RefreshRaises, CmdRuns, Record
    <3>3. /\ cmd[c].read = Now
          /\ \A i \in DOMAIN files : i < cmd[c].at => Covered(files[i])
      BY <1>0, <2>3, <3>2 DEF CmdCovers, Refreshes, Passed
    <3>4. Fails(view, res, rel, files[cmd[c].at], res) BY <1>9, <3>3 DEF RefreshRaises, Now
    <3>5. PICK k \in DOMAIN files : k = cmd[c].at BY <3>2
    <3>6. ~Fails(view, res, rel, files[k], res)
      BY <1>0, <3>1, <3>3, <3>5, CoveredFits DEF FitInv
    <3> QED BY <3>4, <3>5, <3>6
  <2>4. ASSUME cmd[c].sole PROVE cmd[c].of \in {"reinstall", "remove"}
    <3>1. cmd[c].at # 0 BY <1>0, <1>9 DEF RefreshRaises, CmdRuns, Record
    <3> QED BY <1>0, <2>3, <2>4, <3>1 DEF CmdFits
  <2>5. CmdFits(d) BY <2>2, <2>4 DEF CmdFits
  <2> QED BY <1>0, <2>1, <2>5, OneFits
<1>10. ASSUME NEW c \in Command, NEW j \in DOMAIN jobs, Remap(c, j) PROVE FitInv'
  <2>1. "remap" \in {"import", "remap", "reset"} OBVIOUS
  <2>2. PICK m \in Mappings(jobs[j]) : WithFirstFile(c, "remap", m.res, m.rel) BY <1>10 DEF Remap
  <2>3. RelationsLive(m.res, m.rel) /\ OneTarget(m.rel) BY <1>0, JobTyped, MappingFits
  <2> QED BY <2>1, <2>2, <2>3, FirstFileFits
<1>11. ASSUME NEW c \in Command, Reset(c) PROVE FitInv'
  <2>1. "reset" \in {"import", "remap", "reset"} OBVIOUS
  <2> DEFINE none == [r \in Resource |-> NULL]
  <2>2. RelationsLive(none, {}) /\ OneTarget({}) BY DEF RelationsLive, OneTarget
  <2>3. WithFirstFile(c, "reset", none, {}) BY <1>11 DEF Reset
  <2> HIDE DEF none
  <2> QED BY <2>1, <2>2, <2>3, FirstFileFits
<1>12. ASSUME NEW c \in Command, Reinstall(c) PROVE FitInv'
  <2> DEFINE d == [Idle EXCEPT !.of = "reinstall", !.at = 1, !.sole = Alone(c, res, rel)]
  <2>1. cmd' = [cmd EXCEPT ![c] = d] /\ UNCHANGED <<res, rel>> BY <1>12 DEF Reinstall, tables
  <2>2. d.of = "reinstall" BY DEF Idle
  <2> HIDE DEF d
  <2>3. CmdFits(d) BY <2>2 DEF CmdFits
  <2> QED BY <1>0, <2>1, <2>3, OneFits
<1>13. ASSUME NEW c \in Command, Remove(c) PROVE FitInv'
  <2> DEFINE d == [Idle EXCEPT !.of = "remove", !.ended = "raised"]
  <2>1. cmd' = [cmd EXCEPT ![c] = d] /\ UNCHANGED <<res, rel>> BY <1>13 DEF Remove, tables
  <2>2. d.of = "remove" /\ d.at = 0 BY DEF Idle
  <2> HIDE DEF d
  <2>3. CmdFits(d) BY <2>2 DEF CmdFits
  <2> QED BY <1>0, <2>1, <2>3, OneFits
<1>14. ASSUME NEW c \in Command, Kill(c) \/ SessionRaises(c) PROVE FitInv'
  <2>1. cmd' = [cmd EXCEPT ![c] = Failed] /\ UNCHANGED <<res, rel>>
    BY <1>14 DEF Kill, SessionRaises, tables
  <2>2. CmdFits(Failed) BY <1>16 DEF CmdFits
  <2> QED BY <1>0, <2>1, <2>2, OneFits
<1>15. ASSUME NEW c \in Command, NEW w \in World, Debug(c, w) PROVE FitInv'
  <2>1. "import" \in {"import", "remap", "reset"} OBVIOUS
  <2>2. PICK m \in Mappings(Fetched(w)) : WithFirstFile(c, "import", m.res, m.rel) BY <1>15 DEF Debug
  <2>3. RelationsLive(m.res, m.rel) /\ OneTarget(m.rel) BY FetchedTyped, MappingFits
  <2> QED BY <2>1, <2>2, <2>3, FirstFileFits
<1> QED
  BY <1>2, <1>3, <1>5, <1>6, <1>7, <1>8, <1>9, <1>10, <1>11, <1>12, <1>13, <1>14, <1>15, <1>18 DEF Next

\* Where what is fetched has one target for a column, a command that mapped and
\* was not disturbed refreshes without an exception, whatever failed before
\* (bootstrap_db.refresh_views after account aws import, remap, debug reset).
THEOREM RefreshesWhatItMappedHolds ==
  ASSUME OneTargetFetched
  PROVE  Spec => []RefreshesWhatItMapped
<1>1. Init => FitInv BY DEF Init, FitInv, RelationsLive, CmdFits, Idle
<1>2. FitInv => RefreshesWhatItMapped BY DEF FitInv, CmdFits, RefreshesWhatItMapped
<1>3. ViewsInv /\ MirrorInv /\ FitInv /\ [Next]_vars => FitInv' BY FitStep
<1> QED BY <1>1, <1>2, <1>3, ViewsInvHolds, MirrorInvHolds, PTL DEF Spec
=================================================================================
