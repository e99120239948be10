----------------------------- MODULE IamImportProps ------------------------------
(***************************************************************************)
(* What the rows of the iam fetch owe to AWS, and that it ends.            *)
(***************************************************************************)
EXTENDS IamImport

\* The rows of a resource, with what was found of each facet so far.
RowsOf(e) == [FacetsOf(e) -> (SUBSET Item) \cup {NULL}]
Row == UNION {[of : {e}, row : {<<>>} \cup RowsOf(e)] : e \in Entity}

Worker == [st : {"queued", "running", "committed", "raised"}, listed : BOOLEAN, todo : SUBSET Entity,
           of : Entity \cup {NULL}, at : Nat, row : {<<>>} \cup UNION {RowsOf(e) : e \in Entity},
           names : (SUBSET Names(Item)) \cup {NULL}, got : SUBSET Item, retried : BOOLEAN,
           out : SUBSET Row, tries : 0 .. 2, polls : -1 .. 19]

\* A resource in work is one of the function's, with the next of its calls.
InWork(k, w) ==
  IF w.of = NULL THEN w.at = 0 /\ w.row = <<>>
  ELSE KindOf[w.of] = k /\ w.at \in 1 .. Len(Calls[k]) + 1 /\ w.row \in RowsOf(w.of)

\* The pool runs what it has processes for, a report is asked for three times and
\* polled for twenty at most, and rows have the facets of their functions.
TypeOK ==
  /\ \A e \in Entity : aws[e] \in Facets[e] \cup {NULL}
  /\ \A e \in Entity : held[e] \in [FacetsOf(e) -> SUBSET Listing]
  /\ drifts \in 0 .. MaxDrifts
  /\ report \in [is : {"none", "running", "ready"}, users : SUBSET Entity]
  /\ refused \in Refusals /\ job \in {"fetching", "mapping", "failed"}
  /\ DOMAIN worker \in Selections
  /\ \A k \in DOMAIN worker : worker[k] \in Worker /\ InWork(k, worker[k])
  /\ Cardinality({k \in DOMAIN worker : worker[k].st = "running"}) <= Slots

Committed == {k \in DOMAIN worker : worker[k].st = "committed"}

\* A facet that the credentials may not read and whose function does not look
\* into the record: the row then says that there is nothing.
Unseen(e, f) ==
  \E c \in CallsOf(e) : /\ c.facet = f /\ c.how # "index"
                        /\ {Op(KindOf[e], f, "list"), Op(KindOf[e], f, "get")} \cap refused # {}

\* What AWS held at one moment, or the missing answer for what it did not.
OfOneMoment(e, c, v) ==
  \/ v \in held[e][c.facet]
  \/ v = NULL /\ c.how = "optional" /\ {} \in held[e][c.facet]

\* What is got name by name: the names of one moment, and under each the one item
\* that AWS held at this moment or another.
Pieced(h, v) == v \in Listing /\ v \subseteq UNION h /\ \E u \in h : Names(v) = Names(u)

Honest(e, row) ==
  \A c \in CallsOf(e) : \/ OfOneMoment(e, c, row[c.facet])
                        \/ c.how = "each" /\ Pieced(held[e][c.facet], row[c.facet])
                        \/ Unseen(e, c.facet)

\* iam.py:214 ("Missing inline policy") and the lookups around it: a facet of a row
\* that is committed is one that AWS held at one moment of the fetch, and the
\* policies and versions that are got one by one are those of one moment's names,
\* none left out, none twice and each a document that AWS held; unless the resource
\* is gone, or the credentials may not read the facet.
RowsHonest ==
  \A k \in Committed \ {"CredentialReport"} : \A r \in worker[k].out :
    aws[r.of] # NULL => Honest(r.of, r.row)

\* README.md:14, "This takes a snapshot of your current deployment's configuration,
\* settings, and policies": whatever a committed row says of a facet, AWS held it
\* so at one moment.
RowsOfOneMoment ==
  \A k \in Committed \ {"CredentialReport"} : \A r \in worker[k].out :
    aws[r.of] # NULL =>
      \A c \in CallsOf(r.of) : OfOneMoment(r.of, c, r.row[c.facet]) \/ Unseen(r.of, c.facet)

\* What did not change while the fetch ran.
Steady(e) == aws[e] # NULL /\ \A f \in FacetsOf(e) : Cardinality(held[e][f]) = 1

\* Missing is not empty: what the mapping does not find it deletes.  A fetch that
\* goes on to the mapping has a row for every resource that it listed and that did
\* not change, with every facet that the credentials may read; throttling, broken
\* pools and changes of its neighbours or not.
NothingLost ==
  job = "mapping" =>
    \A k \in DOMAIN worker, e \in Entity :
      /\ Steady(e) /\ KindOf[e] = k /\ Op(k, "", "get") \notin refused =>
           \E r \in worker[k].out :
             /\ r.of = e
             /\ \A c \in CallsOf(e) : ~Unseen(e, c.facet) => r.row[c.facet] = aws[e][c.facet]
      /\ k = "CredentialReport" /\ e \in Users => \E r \in worker[k].out : r.of = e

\* aws/importer.py:97: the command waits for every worker, so each must end: the
\* report loops too, whatever AWS answers.  They do not when the report may be
\* generated but not read, and they wait for a report that somebody else asked for
\* as long as AWS works at it.
FetchEnds ==
  /\ Op("CredentialReport", "report", "get") \notin refused
  /\ report.is = "running" => <>(report.is = "ready")
  => <>(job # "fetching")
=================================================================================
