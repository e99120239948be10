---------------------------- MODULE IamImport_proofs -----------------------------
(***************************************************************************)
(* The rows of the iam fetch are honest, a fetch that goes on to the       *)
(* mapping has lost nothing, and the pool and the loops keep their bounds, *)
(* for any resources, items and user attributes, any gates and refusals,   *)
(* any number of processes and changes.                                    *)
(***************************************************************************)
EXTENDS IamImportProps, FiniteSetTheorems, TLAPS

Fields == DOMAIN Queued

\* What a facet may hold, see Honest.
ValueHonest(e, c, x) ==
  \/ OfOneMoment(e, c, x)
  \/ c.how = "each" /\ Pieced(held[e][c.facet], x)
  \/ Unseen(e, c.facet)

\* The names that are left with those of what was got are those of one moment, and
\* what was got is one item that AWS held for each.
Piecing(h, names, got) ==
  /\ got \in Listing /\ got \subseteq UNION h /\ names \cap Names(got) = {}
  /\ \E u \in h : Names(u) = names \cup Names(got)

\* The row in the making is honest up to the next call, and so is what is got one
\* by one.
RowOK(k, w) ==
  w.of # NULL =>
    /\ w.of \in Entity /\ KindOf[w.of] = k /\ w.at \in Nat \ {0}
    /\ DOMAIN w.row = FacetsOf(w.of)
    /\ aws[w.of] # NULL =>
         \A i \in DOMAIN Calls[k] : i < w.at => ValueHonest(w.of, Calls[k][i], w.row[Calls[k][i].facet])

NamesOK(k, w) ==
  w.names # NULL =>
    /\ w.of # NULL /\ w.at \in DOMAIN Calls[k] /\ Calls[k][w.at].how = "each"
    /\ aws[w.of] # NULL => \/ Piecing(held[w.of][Calls[k][w.at].facet], w.names, w.got)
                           \/ Unseen(w.of, Calls[k][w.at].facet)

OutOK(k, w) ==
  k # "CredentialReport" =>
    \A r \in w.out : /\ r.of \in Entity /\ KindOf[r.of] = k
                     /\ aws[r.of] # NULL => Honest(r.of, r.row)

WorkerOK(k, w) ==
  /\ DOMAIN w = Fields
  /\ w.todo \subseteq {e \in Entity : KindOf[e] = k}
  /\ RowOK(k, w) /\ NamesOK(k, w) /\ OutOK(k, w)

\* What AWS holds is among what it held, one item under a name.
CloudOK ==
  /\ DOMAIN aws = Entity /\ DOMAIN held = Entity
  /\ \A e \in Entity : DOMAIN held[e] = FacetsOf(e)
  /\ \A e \in Entity : \A f \in FacetsOf(e) : held[e][f] \subseteq Listing
  /\ \A e \in Entity : aws[e] # NULL =>
       DOMAIN aws[e] = FacetsOf(e) /\ \A f \in FacetsOf(e) : aws[e][f] \in held[e][f]

\* The inductive invariant.
IamInv == CloudOK /\ \A k \in DOMAIN worker : WorkerOK(k, worker[k])
---------------------------------------------------------------------------------
\* The calls of a function are a sequence, lists and gets, and a get is never
\* looked into like a listing.
LEMMA CallsAre ==
  ASSUME NEW k \in Kind
  PROVE  /\ Len(Calls[k]) \in Nat /\ DOMAIN Calls[k] = 1 .. Len(Calls[k])
         /\ \A i \in DOMAIN Calls[k] : Calls[k][i].how = "index" => Calls[k][i].which = "list"
<1> DEFINE attrs == [i \in DOMAIN UserAttrs |-> Index(UserAttrs[i])]
<1>1. k \in {"user", "group", "policy", "role", "instance_profile", "PasswordPolicy"} BY DEF Kind, Calls
<1>2. CASE k = "user"
  <2>1. Calls[k] = attrs \o <<PolicyList, Call("LoginProfile", "get", "optional")>> BY <1>2 DEF Calls
  <2>2. attrs \in Seq({Index(UserAttrs[i]) : i \in DOMAIN UserAttrs}) BY IamAssumption
  <2> QED BY <2>1, <2>2 DEF Index, PolicyList, Call
<1>3. CASE k = "group" BY <1>3 DEF Calls, Index, PolicyList, Call
<1>4. CASE k = "policy" BY <1>4 DEF Calls, Index, Call
<1>5. CASE k = "role" BY <1>5 DEF Calls, PolicyList, Call
<1>6. CASE k \in {"instance_profile", "PasswordPolicy"} BY <1>6 DEF Calls
<1> QED BY <1>1, <1>2, <1>3, <1>4, <1>5, <1>6

\* The calls of a resource are those of its function.
LEMMA CallsOfKind ==
  ASSUME NEW e \in Entity
  PROVE  /\ KindOf[e] \in Kind
         /\ \A i \in DOMAIN Calls[KindOf[e]] : /\ Calls[KindOf[e]][i] \in CallsOf(e)
                                               /\ Calls[KindOf[e]][i].facet \in FacetsOf(e)
         /\ \A c \in CallsOf(e) : \E i \in DOMAIN Calls[KindOf[e]] : c = Calls[KindOf[e]][i]
BY IamAssumption DEF CallsOf, FacetsOf

\* A worker that has not begun, or has raised, is in order.
LEMMA IdleOK ==
  ASSUME NEW k
  PROVE  WorkerOK(k, Queued) /\ WorkerOK(k, Raised)
BY DEF WorkerOK, RowOK, NamesOK, OutOK, Queued, Raised, Fields

\* Workers that are in order before AWS changes anything are in order after it.
LEMMA WorkersStay ==
  ASSUME CloudOK, UNCHANGED <<aws, held, refused>>,
         \A k \in DOMAIN worker' : WorkerOK(k, worker'[k])
  PROVE  IamInv'
<1>1. CloudOK' BY DEF CloudOK
<1>2. \A e, f : Unseen(e, f)' <=> Unseen(e, f) BY DEF Unseen
<1>3. \A e, c, x : ValueHonest(e, c, x)' <=> ValueHonest(e, c, x) BY <1>2 DEF ValueHonest, OfOneMoment
<1>4. \A e, row : Honest(e, row)' <=> Honest(e, row) BY <1>2 DEF Honest, OfOneMoment
<1>5. ASSUME NEW k \in DOMAIN worker' PROVE WorkerOK(k, worker[k])'
  <2>1. WorkerOK(k, worker'[k]) OBVIOUS
  <2>2. RowOK(k, worker[k])' BY <1>3, <2>1 DEF WorkerOK, RowOK
  <2>3. NamesOK(k, worker[k])' BY <1>2, <2>1 DEF WorkerOK, NamesOK
  <2>4. OutOK(k, worker[k])' BY <1>4, <2>1 DEF WorkerOK, OutOK
  <2> QED BY <2>1, <2>2, <2>3, <2>4 DEF WorkerOK
<1> QED BY <1>1, <1>5 DEF IamInv

\* A worker changes alone.
LEMMA WorkerKeeps ==
  ASSUME IamInv, NEW k \in DOMAIN worker, NEW w, WorkerOK(k, w),
         UNCHANGED <<aws, held, refused>>, worker' = [worker EXCEPT ![k] = w]
  PROVE  IamInv'
<1>1. \A j \in DOMAIN worker' : WorkerOK(j, worker'[j]) BY DEF IamInv
<1> QED BY <1>1, WorkersStay DEF IamInv

\* Most steps are that of one worker.
LEMMA BecomesKeeps ==
  ASSUME IamInv, NEW k \in DOMAIN worker, NEW w, WorkerOK(k, w), Becomes(k, w)
  PROVE  IamInv'
BY WorkerKeeps DEF Becomes, cloud

\* What the invariant does not look at may change.
LEMMA SameOK ==
  ASSUME NEW k, NEW w, WorkerOK(k, w), NEW n, DOMAIN n = Fields,
         n.todo = w.todo, n.of = w.of, n.at = w.at, n.row = w.row,
         n.names = w.names, n.got = w.got, n.out = w.out
  PROVE  WorkerOK(k, n)
BY DEF WorkerOK, RowOK, NamesOK, OutOK

\* A worker that has a resource is one of its function.
LEMMA InKind ==
  ASSUME IamInv, NEW k \in DOMAIN worker, worker[k].of # NULL
  PROVE  k \in Kind
BY CallsOfKind DEF IamInv, WorkerOK, RowOK
---------------------------------------------------------------------------------
\* An answer for a resource that is there is what AWS holds, or a refusal that
\* the function takes for nothing, or it ends the function.
LEMMA AnswerHonest ==
  ASSUME CloudOK, NEW k, NEW e \in Entity, aws[e] # NULL, worker[k].of = e, NEW c \in CallsOf(e),
         KindOf[e] = k
  PROVE  /\ Answer(k, c).is = "result" => Answer(k, c).value \in held[e][c.facet]
         /\ Answer(k, c).is = "none" =>
              /\ Answer(k, c).value = {}
              /\ Unseen(e, c.facet) \/ (c.how = "optional" /\ {} \in held[e][c.facet])
         /\ Answer(k, c).is = "record" =>
              Answer(k, c).value = {} /\ (Unseen(e, c.facet) \/ c.how = "index")
         /\ Answer(k, c).is \in {"result", "none", "record"}
<1>1. c.facet \in FacetsOf(e) /\ aws[e][c.facet] \in held[e][c.facet] BY DEF CloudOK, FacetsOf
<1>2. c.how = "index" => c.which = "list" BY CallsOfKind, CallsAre
<1>3. ASSUME c.how # "index", NEW which \in {"list", "get"}, Op(k, c.facet, which) \in refused
      PROVE  Unseen(e, c.facet)
  BY <1>3 DEF Unseen
<1>4. CASE c.which = "list"
  <2>1. Answer(k, c) = IF Op(k, c.facet, "list") \in refused THEN ErrorRecord ELSE Result(aws[e][c.facet])
    BY <1>4 DEF Answer, list, Holds
  <2> QED BY <1>1, <1>3, <2>1 DEF ErrorRecord, Result
<1>5. CASE c.which # "list"
  <2>1. Answer(k, c) = IF Op(k, c.facet, "get") \in refused \/ (c.how = "optional" /\ aws[e][c.facet] = {})
                       THEN None ELSE Result(aws[e][c.facet])
    BY <1>5 DEF Answer, get, Holds
  <2>2. CASE Op(k, c.facet, "get") \in refused
    <3>1. c.how # "index" BY <1>2, <1>5
    <3>2. Unseen(e, c.facet) BY <1>3, <2>2, <3>1
    <3>3. Answer(k, c) = None BY <2>1, <2>2
    <3> QED BY <3>2, <3>3 DEF None
  <2>3. CASE ~(Op(k, c.facet, "get") \in refused)
    <3>1. CASE c.how = "optional" /\ aws[e][c.facet] = {}
      <4>1. Answer(k, c) = None BY <2>1, <3>1
      <4> QED BY <1>1, <3>1, <4>1 DEF None
    <3>2. CASE ~(c.how = "optional" /\ aws[e][c.facet] = {})
      <4>1. Answer(k, c) = Result(aws[e][c.facet]) BY <2>1, <2>3, <3>2
      <4> QED BY <1>1, <4>1 DEF Result
    <3> QED BY <3>1, <3>2
  <2> QED BY <2>2, <2>3
<1> QED BY <1>4, <1>5

\* A facet that is stored leaves the others as they were.
LEMMA StoredOK ==
  ASSUME NEW k \in Kind, NEW w, WorkerOK(k, w), w.of # NULL, w.at \in DOMAIN Calls[k], NEW v,
         aws[w.of] # NULL => ValueHonest(w.of, Calls[k][w.at], v)
  PROVE  WorkerOK(k, Stored(w, Calls[k][w.at], v))
<1> DEFINE c == Calls[k][w.at]
           s == Stored(w, c, v)
           row == [w.row EXCEPT ![c.facet] = v]
<1>1. /\ s.of = w.of /\ s.at = w.at + 1 /\ s.row = row /\ s.names = NULL
      /\ s.todo = w.todo /\ s.out = w.out /\ DOMAIN s = Fields
  <2> HIDE DEF c
  <2> QED BY DEF WorkerOK, Stored, Fields, Queued
<1>2. w.of \in Entity /\ KindOf[w.of] = k /\ DOMAIN w.row = FacetsOf(w.of) BY DEF WorkerOK, RowOK
<1>3. ASSUME aws[w.of] # NULL, NEW i \in DOMAIN Calls[k], i < w.at + 1
      PROVE  ValueHonest(w.of, Calls[k][i], row[Calls[k][i].facet])
  <2>1. Calls[k][i].facet \in DOMAIN w.row BY <1>2, CallsOfKind
  <2>2. CASE i = w.at BY <1>3, <2>1, <2>2
  <2>3. CASE i < w.at
    <3>1. Calls[k][i].facet # c.facet BY <2>3, CallsAre, IamAssumption
    <3>2. row[Calls[k][i].facet] = w.row[Calls[k][i].facet] BY <2>1, <3>1
    <3> QED BY <1>3, <2>3, <3>2 DEF WorkerOK, RowOK
  <2> QED BY <1>3, <2>2, <2>3, CallsAre
<1> HIDE DEF s, row
<1>4. RowOK(k, s)
  <2>1. DOMAIN row = DOMAIN w.row BY DEF row
  <2>2. w.at + 1 \in Nat \ {0} BY CallsAre
  <2> QED BY <1>1, <1>2, <1>3, <2>1, <2>2 DEF RowOK
<1>5. NamesOK(k, s) BY <1>1 DEF NamesOK
<1>6. OutOK(k, s) BY <1>1 DEF OutOK, WorkerOK
<1>7. WorkerOK(k, s) BY <1>1, <1>4, <1>5, <1>6 DEF WorkerOK
<1> QED BY <1>7 DEF s
\* The next call of a row keeps the worker in order, whatever is answered.
LEMMA MakeCallOK ==
  ASSUME IamInv, NEW k \in DOMAIN worker, MakeCall(k)
  PROVE  IamInv'
<1>0. k \in Kind BY InKind DEF MakeCall, Calling
<1> DEFINE w == worker[k]
           c == Calls[k][w.at]
           answer == Answer(k, c)
           e == w.of
<1>1. WorkerOK(k, w) /\ CloudOK BY DEF IamInv
<1>2. e # NULL /\ w.at \in DOMAIN Calls[k] /\ e \in Entity /\ KindOf[e] = k
  <2>1. e # NULL /\ w.at <= Len(Calls[k]) BY DEF MakeCall, Calling
  <2> QED BY <1>0, <1>1, <2>1, CallsAre DEF WorkerOK, RowOK
<1>3. c \in CallsOf(e) BY <1>2, CallsOfKind
<1>4. ASSUME aws[e] # NULL
      PROVE  /\ answer.is = "result" => answer.value \in held[e][c.facet]
             /\ answer.is = "none" =>
                  /\ answer.value = {}
                  /\ Unseen(e, c.facet) \/ (c.how = "optional" /\ {} \in held[e][c.facet])
             /\ answer.is = "record" =>
                  answer.value = {} /\ (Unseen(e, c.facet) \/ c.how = "index")
             /\ answer.is \in {"result", "none", "record"}
  BY <1>1, <1>2, <1>3, <1>4, AnswerHonest
<1>5. answer.is \in {"result", "none", "record"}
  BY DEF Answer, list, get, ErrorRecord, None, Result
<1> HIDE DEF answer
<1>6. Becomes(k,
        CASE answer.is = "record" /\ c.how = "index" -> Raised
          [] answer.is = "none" /\ c.how = "whole" -> Raised
          [] c.how = "each" -> [w EXCEPT !.names = Names(answer.value), !.got = {}, !.retried = FALSE]
          [] answer.is = "result" /\ c.how # "each" -> Stored(w, c, answer.value)
          [] OTHER -> Stored(w, c, NULL))
  BY DEF MakeCall, answer
<1>7. CASE \/ answer.is = "record" /\ c.how = "index"
           \/ answer.is = "none" /\ c.how = "whole"
  <2>1. Becomes(k, Raised) BY <1>6, <1>7
  <2> QED BY <2>1, IdleOK, BecomesKeeps
<1>8. CASE c.how = "each"
  <2> DEFINE names == Names(answer.value)
             n == [w EXCEPT !.names = names, !.got = {}, !.retried = FALSE]
  <2>1. Becomes(k, n) BY <1>6, <1>8
  <2> HIDE DEF names
  <2>2. /\ DOMAIN n = Fields /\ n.of = w.of /\ n.at = w.at /\ n.row = w.row /\ n.todo = w.todo
        /\ n.out = w.out /\ n.names = names /\ n.got = {}
    BY <1>1 DEF WorkerOK, Fields, Queued
  <2> HIDE DEF n
  <2>3. RowOK(k, n) BY <1>1, <2>2 DEF WorkerOK, RowOK
  <2>4. NamesOK(k, n)
    <3>1. aws[e] # NULL /\ ~Unseen(e, c.facet) => answer.value \in held[e][c.facet]
      BY <1>4, <1>8
    <3>2. {} \in Listing /\ Names({}) = {} BY DEF Listing, Names
    <3>3. aws[e] # NULL /\ ~Unseen(e, c.facet) => Piecing(held[e][c.facet], names, {})
      BY <3>1, <3>2 DEF Piecing, names
    <3> QED BY <1>2, <1>8, <2>2, <3>3 DEF NamesOK
  <2>5. OutOK(k, n) BY <1>1, <2>2 DEF WorkerOK, OutOK
  <2>6. WorkerOK(k, n) BY <1>1, <2>2, <2>3, <2>4, <2>5 DEF WorkerOK
  <2> QED BY <2>1, <2>6, BecomesKeeps
<1>9. CASE answer.is = "result" /\ c.how # "each"
  <2>1. Becomes(k, Stored(w, c, answer.value)) BY <1>6, <1>9
  <2>2. aws[e] # NULL => ValueHonest(e, c, answer.value) BY <1>4, <1>9 DEF ValueHonest, OfOneMoment
  <2>3. WorkerOK(k, Stored(w, c, answer.value)) BY <1>0, <1>1, <1>2, <2>2, StoredOK
  <2> QED BY <2>1, <2>3, BecomesKeeps
<1>10. CASE /\ answer.is # "result" /\ c.how # "each"
            /\ ~(answer.is = "record" /\ c.how = "index") /\ ~(answer.is = "none" /\ c.how = "whole")
  <2>1. Becomes(k, Stored(w, c, NULL)) BY <1>6, <1>10
  <2>2. aws[e] # NULL => ValueHonest(e, c, NULL) BY <1>4, <1>10 DEF ValueHonest, OfOneMoment
  <2>3. WorkerOK(k, Stored(w, c, NULL)) BY <1>0, <1>1, <1>2, <2>2, StoredOK
  <2> QED BY <2>1, <2>3, BecomesKeeps
<1> HIDE DEF w, c, e
<1> QED BY <1>7, <1>8, <1>9, <1>10

\* So do the names that are got one by one.
LEMMA GetOneOK ==
  ASSUME IamInv, NEW k \in DOMAIN worker, GetOne(k)
  PROVE  IamInv'
<1> DEFINE w == worker[k]
           c == Calls[k][w.at]
<1>1. WorkerOK(k, w) BY DEF IamInv
<1>2. PICK n \in w.names :
        LET found == {x \in Holds(w.of, c.facet) : NameOf[x] = n}
            answer == get(Op(k, c.facet, "get"), found # {}, found)
        IN Becomes(k, IF answer.is = "none" THEN Raised
                      ELSE [w EXCEPT !.names = @ \ {n}, !.got = @ \cup answer.value])
  BY DEF GetOne
<1> DEFINE found == {x \in Holds(w.of, c.facet) : NameOf[x] = n}
           answer == get(Op(k, c.facet, "get"), found # {}, found)
           next == [w EXCEPT !.names = @ \ {n}, !.got = @ \cup answer.value]
<1>3. CASE answer.is = "none"
  <2>1. Becomes(k, Raised) BY <1>2, <1>3
  <2> QED BY <2>1, IdleOK, BecomesKeeps
<1>4. CASE answer.is # "none"
  <2>1. answer.value = found /\ found # {}
    <3> HIDE DEF found
    <3> QED BY <1>4 DEF get, None, Result
  <2>2. Becomes(k, next) BY <1>2, <1>4
  <2> HIDE DEF answer
  <2>3. /\ DOMAIN next = Fields /\ next.of = w.of /\ next.at = w.at /\ next.row = w.row
        /\ next.todo = w.todo /\ next.out = w.out
        /\ next.names = w.names \ {n} /\ next.got = w.got \cup answer.value
    BY <1>1 DEF WorkerOK, Fields, Queued
  <2> HIDE DEF next
  <2>5. /\ w.names # NULL /\ w.of # NULL /\ w.of \in Entity /\ KindOf[w.of] = k
        /\ w.at \in DOMAIN Calls[k] /\ c.how = "each"
    BY <1>1 DEF GetOne, Getting, WorkerOK, RowOK, NamesOK
  <2>4. ASSUME aws[w.of] # NULL, Piecing(held[w.of][c.facet], w.names, w.got)
        PROVE  Piecing(held[w.of][c.facet], next.names, next.got)
    <3>1. c.facet \in FacetsOf(w.of) BY <2>5, CallsOfKind
    <3>2. Holds(w.of, c.facet) \in held[w.of][c.facet] /\ Holds(w.of, c.facet) \in Listing
      BY <2>4, <2>5, <3>1 DEF Holds, IamInv, CloudOK
    <3> HIDE DEF c
    <3>3. PICK x \in Holds(w.of, c.facet) : found = {x} /\ NameOf[x] = n
      BY <2>1, <3>2 DEF Listing
    <3>4. next.names = w.names \ {n} /\ next.got = w.got \cup {x} BY <2>1, <2>3, <3>3
    <3>5. n \notin Names(w.got) BY <1>2, <2>4 DEF Piecing
    <3>6. next.got \in Listing BY <2>4, <3>2, <3>3, <3>4, <3>5 DEF Piecing, Listing, Names
    <3>7. Names(next.got) = Names(w.got) \cup {n} BY <3>3, <3>4 DEF Names
    <3>8. next.got \subseteq UNION held[w.of][c.facet] BY <2>4, <3>2, <3>3, <3>4 DEF Piecing
    <3> QED BY <1>2, <2>4, <3>4, <3>5, <3>6, <3>7, <3>8 DEF Piecing
  <2>6. RowOK(k, next) BY <1>1, <2>3 DEF WorkerOK, RowOK
  <2>7. NamesOK(k, next) BY <1>1, <2>3, <2>4, <2>5 DEF WorkerOK, NamesOK
  <2>8. OutOK(k, next) BY <1>1, <2>3 DEF WorkerOK, OutOK
  <2>9. WorkerOK(k, next) BY <1>1, <2>3, <2>6, <2>7, <2>8 DEF WorkerOK
  <2> QED BY <2>2, <2>9, BecomesKeeps
<1> QED BY <1>3, <1>4

\* When all are got they are the facet.
LEMMA GotAllOK ==
  ASSUME IamInv, NEW k \in DOMAIN worker, GotAll(k)
  PROVE  IamInv'
<1> DEFINE w == worker[k]
<1>1. WorkerOK(k, w) BY DEF IamInv
<1>2. w.names # NULL /\ w.names = {} /\ Becomes(k, Stored(w, Calls[k][w.at], w.got))
  BY DEF GotAll, Getting
<1>3. w.of # NULL /\ w.at \in DOMAIN Calls[k] BY <1>1, <1>2 DEF WorkerOK, NamesOK
<1>4. aws[w.of] # NULL => ValueHonest(w.of, Calls[k][w.at], w.got)
  <2>1. w.names \cup Names(w.got) = Names(w.got) BY <1>2
  <2> QED BY <1>1, <1>2, <2>1 DEF WorkerOK, NamesOK, ValueHonest, Piecing, Pieced
<1>5. WorkerOK(k, Stored(w, Calls[k][w.at], w.got)) BY <1>1, <1>3, <1>4, InKind, StoredOK
<1> QED BY <1>2, <1>5, BecomesKeeps

\* A change of AWS keeps the invariant: it adds what AWS now holds to what it held.
LEMMA DriftKeeps == ASSUME IamInv, Drift PROVE IamInv'
<1>1. PICK e \in Entity : /\ aws[e] # NULL
        /\ \/ aws' = [aws EXCEPT ![e] = NULL] /\ held' = held
           \/ \E f \in FacetsOf(e), v \in Listing :
                /\ aws' = [aws EXCEPT ![e][f] = v]
                /\ held' = [held EXCEPT ![e][f] = @ \cup {v}]
  BY DEF Drift
<1>2. worker' = worker /\ refused' = refused BY DEF Drift
<1>3. CloudOK BY DEF IamInv
<1>4. /\ CloudOK'
      /\ \A d \in Entity : aws'[d] # NULL => aws[d] # NULL
      /\ \A d \in Entity : \A f \in FacetsOf(d) : held[d][f] \subseteq held'[d][f]
  <2>1. CASE aws' = [aws EXCEPT ![e] = NULL] /\ held' = held
    BY <1>3, <2>1 DEF CloudOK
  <2>2. ASSUME NEW f \in FacetsOf(e), NEW v \in Listing,
               aws' = [aws EXCEPT ![e][f] = v], held' = [held EXCEPT ![e][f] = @ \cup {v}]
        PROVE  /\ CloudOK'
               /\ \A d \in Entity : aws'[d] # NULL => aws[d] # NULL
               /\ \A d \in Entity : \A g \in FacetsOf(d) : held[d][g] \subseteq held'[d][g]
    <3>1. \A d \in Entity \ {e} : aws'[d] = aws[d] /\ held'[d] = held[d] BY <2>2, <1>3 DEF CloudOK
    <3>2. aws'[e] = [aws[e] EXCEPT ![f] = v] /\ held'[e] = [held[e] EXCEPT ![f] = held[e][f] \cup {v}]
      BY <2>2, <1>3 DEF CloudOK
    <3>3. DOMAIN aws[e] = FacetsOf(e) /\ DOMAIN held[e] = FacetsOf(e) BY <1>1, <1>3 DEF CloudOK
    <3>4. \A g \in FacetsOf(e) : held[e][g] \subseteq held'[e][g] /\ aws'[e][g] \in held'[e][g]
      BY <1>1, <1>3, <2>2, <3>2, <3>3 DEF CloudOK
    <3>5. DOMAIN aws' = Entity /\ DOMAIN held' = Entity BY <2>2, <1>3 DEF CloudOK
    <3>6. DOMAIN aws'[e] = FacetsOf(e) /\ DOMAIN held'[e] = FacetsOf(e) BY <3>2, <3>3
    <3>7. \A g \in FacetsOf(e) : held'[e][g] \subseteq Listing
      BY <1>3, <2>2, <3>2, <3>3 DEF CloudOK
    <3>8. CloudOK' BY <1>3, <3>1, <3>4, <3>5, <3>6, <3>7 DEF CloudOK
    <3> QED BY <1>1, <3>1, <3>4, <3>8
  <2> QED BY <1>1, <2>1, <2>2
<1>5. ASSUME NEW d \in Entity, aws'[d] # NULL, NEW c, c.facet \in FacetsOf(d), NEW x, ValueHonest(d, c, x)
      PROVE  ValueHonest(d, c, x)'
  BY <1>2, <1>4, <1>5 DEF ValueHonest, OfOneMoment, Pieced, Unseen
<1>6. ASSUME NEW k \in DOMAIN worker PROVE WorkerOK(k, worker[k])'
  <2> DEFINE w == worker[k]
  <2>1. WorkerOK(k, w) /\ worker'[k] = w BY <1>2 DEF IamInv
  <2>2. RowOK(k, w)'
    BY <1>2, <1>4, <1>5, <2>1, CallsOfKind DEF WorkerOK, RowOK
  <2>3. NamesOK(k, w)'
    <3> SUFFICES ASSUME w.names # NULL, w.of # NULL, aws'[w.of] # NULL
                 PROVE  \/ Piecing(held'[w.of][Calls[k][w.at].facet], w.names, w.got)
                        \/ Unseen(w.of, Calls[k][w.at].facet)'
      BY <1>2, <2>1 DEF WorkerOK, NamesOK
    <3>1. w.of \in Entity /\ KindOf[w.of] = k /\ w.at \in DOMAIN Calls[k]
      BY <2>1 DEF WorkerOK, RowOK, NamesOK
    <3>2. Calls[k][w.at].facet \in FacetsOf(w.of) BY <3>1, CallsOfKind
    <3> QED BY <1>2, <1>4, <2>1, <3>1, <3>2 DEF WorkerOK, NamesOK, Piecing, Unseen
  <2>4. OutOK(k, w)'
    <3> SUFFICES ASSUME k # "CredentialReport", NEW r \in w.out, aws'[r.of] # NULL
                 PROVE  Honest(r.of, r.row)'
      BY <1>2, <2>1 DEF WorkerOK, OutOK
    <3>1. r.of \in Entity /\ Honest(r.of, r.row)
      BY <1>4, <2>1 DEF WorkerOK, OutOK
    <3>2. \A c \in CallsOf(r.of) : c.facet \in FacetsOf(r.of) BY DEF FacetsOf
    <3> QED BY <1>5, <3>1, <3>2 DEF Honest, ValueHonest
  <2> QED BY <1>2, <2>1, <2>2, <2>3, <2>4 DEF WorkerOK
<1> QED BY <1>2, <1>4, <1>6 DEF IamInv
---------------------------------------------------------------------------------
\* What a function lists are resources of its kind.
LEMMA ListAllOK ==
  ASSUME IamInv, NEW k \in DOMAIN worker, ListAll(k)
  PROVE  IamInv'
<1> DEFINE w == worker[k]
           present == {e \in Entity : KindOf[e] = k /\ aws[e] # NULL}
           answer == IF k = "PasswordPolicy"
                     THEN get(Op(k, "", "get"), present # {}, present)
                     ELSE list(Op(k, "", "list"), TRUE, present)
           n == [w EXCEPT !.listed = TRUE, !.todo = answer.value, !.retried = FALSE]
<1>1. WorkerOK(k, w) BY DEF IamInv
<1>2. answer.value \subseteq {e \in Entity : KindOf[e] = k}
  BY DEF get, list, None, ErrorRecord, Result
<1>3. Becomes(k, IF answer.is = "record" THEN Raised ELSE n) BY DEF ListAll
<1> HIDE DEF answer
<1>4. /\ DOMAIN n = Fields /\ n.todo = answer.value /\ n.of = w.of /\ n.at = w.at /\ n.row = w.row
      /\ n.names = w.names /\ n.got = w.got /\ n.out = w.out
  BY <1>1 DEF WorkerOK, Fields, Queued
<1> HIDE DEF n
<1>5. WorkerOK(k, n) BY <1>1, <1>2, <1>4 DEF WorkerOK, RowOK, NamesOK, OutOK
<1> QED BY <1>3, <1>5, IdleOK, BecomesKeeps

\* A row begins without a facet, and no call is made yet.
LEMMA NextRowOK ==
  ASSUME IamInv, NEW k \in DOMAIN worker, NextRow(k)
  PROVE  IamInv'
<1> DEFINE w == worker[k]
<1>1. WorkerOK(k, w) /\ w.of = NULL BY DEF IamInv, NextRow
<1>2. PICK e \in w.todo :
        Becomes(k, [w EXCEPT !.todo = @ \ {e}, !.of = e, !.at = 1, !.row = [f \in FacetsOf(e) |-> NULL]])
  BY DEF NextRow
<1> DEFINE row == [f \in FacetsOf(e) |-> NULL]
           n == [w EXCEPT !.todo = @ \ {e}, !.of = e, !.at = 1, !.row = row]
<1>3. /\ DOMAIN n = Fields /\ n.todo = w.todo \ {e} /\ n.of = e /\ n.at = 1 /\ n.row = row
      /\ n.names = w.names /\ n.got = w.got /\ n.out = w.out
  <2> HIDE DEF row
  <2> QED BY <1>1 DEF WorkerOK, Fields, Queued
<1>4. DOMAIN row = FacetsOf(e) OBVIOUS
<1> HIDE DEF n, row
<1>5. e \in Entity /\ KindOf[e] = k BY <1>1 DEF WorkerOK
<1>6. k \in Kind BY <1>5, CallsOfKind
<1>7. RowOK(k, n) BY <1>3, <1>4, <1>5, <1>6, CallsAre DEF RowOK
<1>8. NamesOK(k, n) BY <1>1, <1>3 DEF WorkerOK, NamesOK
<1>9. OutOK(k, n) BY <1>1, <1>3 DEF WorkerOK, OutOK
<1>10. WorkerOK(k, n) BY <1>1, <1>3, <1>7, <1>8, <1>9 DEF WorkerOK
<1>11. Becomes(k, n) BY <1>2 DEF n, row
<1> QED BY <1>10, <1>11, BecomesKeeps

\* A row is written when its last call is made, and so it is honest.
LEMMA WriteRowOK ==
  ASSUME IamInv, NEW k \in DOMAIN worker, WriteRow(k)
  PROVE  IamInv'
<1> DEFINE w == worker[k]
           written == [of |-> w.of, row |-> w.row]
           n == [w EXCEPT !.out = @ \cup {written}, !.of = NULL, !.at = 0, !.row = <<>>]
<1>1. WorkerOK(k, w) /\ w.of # NULL /\ w.at > Len(Calls[k]) /\ Becomes(k, n)
  BY DEF IamInv, WriteRow
<1>2. w.names = NULL
  <2>1. ~(w.at \in DOMAIN Calls[k]) BY <1>1, InKind, CallsAre DEF WorkerOK, RowOK
  <2> QED BY <1>1, <2>1 DEF WorkerOK, NamesOK
<1>3. /\ DOMAIN n = Fields /\ n.todo = w.todo /\ n.of = NULL
      /\ n.names = w.names /\ n.out = w.out \cup {written}
  <2> HIDE DEF written
  <2> QED BY <1>1 DEF WorkerOK, Fields, Queued
<1> HIDE DEF n
<1>4. w.of \in Entity /\ KindOf[w.of] = k /\ k \in Kind BY <1>1, InKind DEF WorkerOK, RowOK
<1>5. aws[w.of] # NULL => Honest(w.of, w.row)
  <2> SUFFICES ASSUME aws[w.of] # NULL, NEW c \in CallsOf(w.of)
               PROVE  ValueHonest(w.of, c, w.row[c.facet])
    BY DEF Honest, ValueHonest, OfOneMoment
  <2>1. PICK i \in DOMAIN Calls[k] : c = Calls[k][i] BY <1>4, CallsOfKind
  <2>2. i < w.at BY <1>1, <1>4, CallsAre DEF WorkerOK, RowOK
  <2> QED BY <1>1, <2>1, <2>2 DEF WorkerOK, RowOK
<1>6. OutOK(k, n) BY <1>1, <1>3, <1>4, <1>5 DEF WorkerOK, OutOK
<1>7. WorkerOK(k, n) BY <1>1, <1>2, <1>3, <1>6 DEF WorkerOK, RowOK, NamesOK
<1> QED BY <1>1, <1>7, BecomesKeeps

\* The steps of the credential report, whose rows have no facets.
LEMMA ReportKeeps ==
  ASSUME IamInv, Generate \/ GenerateFails \/ Poll
  PROVE  IamInv'
<1> DEFINE k == "CredentialReport"
           w == worker[k]
<1>1. k \in DOMAIN worker /\ WorkerOK(k, w)
  BY DEF Generate, GenerateFails, Poll, Generating, Polling, Reporting, Running, IamInv
<1>2. CASE Generate
  <2> DEFINE n == [w EXCEPT !.polls = 0]
             next == IF get(Op(k, "report", "generate"), TRUE, {}).is = "none" THEN Raised
                     ELSE IF report.is = "running" THEN w ELSE n
  <2>1. WorkerOK(k, n)
    <3>1. /\ DOMAIN n = Fields /\ n.todo = w.todo /\ n.of = w.of /\ n.at = w.at /\ n.row = w.row
          /\ n.names = w.names /\ n.got = w.got /\ n.out = w.out
      BY <1>1 DEF WorkerOK, Fields, Queued
    <3> HIDE DEF n
    <3> QED BY <1>1, <3>1, SameOK
  <2>2. worker' = [worker EXCEPT ![k] = next] /\ UNCHANGED <<aws, held, refused>>
    BY <1>2 DEF Generate, cloud
  <2>3. WorkerOK(k, next) BY <1>1, <2>1, IdleOK
  <2> HIDE DEF next
  <2> QED BY <1>1, <2>2, <2>3, WorkerKeeps
<1>3. CASE GenerateFails
  <2> DEFINE n == [w EXCEPT !.tries = @ + 1]
             next == IF w.tries + 1 >= 3 THEN Raised ELSE n
  <2>1. WorkerOK(k, n)
    <3>1. /\ DOMAIN n = Fields /\ n.todo = w.todo /\ n.of = w.of /\ n.at = w.at /\ n.row = w.row
          /\ n.names = w.names /\ n.got = w.got /\ n.out = w.out
      BY <1>1 DEF WorkerOK, Fields, Queued
    <3> HIDE DEF n
    <3> QED BY <1>1, <3>1, SameOK
  <2>2. Becomes(k, next) BY <1>3 DEF GenerateFails
  <2>3. WorkerOK(k, next) BY <1>1, <2>1, IdleOK
  <2> HIDE DEF next
  <2> QED BY <1>1, <2>2, <2>3, BecomesKeeps
<1>4. CASE Poll
  <2> DEFINE m == [w EXCEPT !.polls = @ + 1]
             n == [w EXCEPT !.listed = TRUE, !.out = {[of |-> e, row |-> <<>>] : e \in report.users}]
             answer == get(Op(k, "report", "get"), TRUE, report.users)
             next == CASE answer.is = "none" -> w
                       [] answer.is = "result" /\ report.is = "running" ->
                            IF w.polls + 1 = 20 THEN Raised ELSE m
                       [] OTHER -> n
  <2>1. WorkerOK(k, m)
    <3>1. /\ DOMAIN m = Fields /\ m.todo = w.todo /\ m.of = w.of /\ m.at = w.at /\ m.row = w.row
          /\ m.names = w.names /\ m.got = w.got /\ m.out = w.out
      BY <1>1 DEF WorkerOK, Fields, Queued
    <3> HIDE DEF m
    <3> QED BY <1>1, <3>1, SameOK
  <2>2. WorkerOK(k, n)
    <3>1. /\ DOMAIN n = Fields /\ n.todo = w.todo /\ n.of = w.of /\ n.at = w.at /\ n.row = w.row
          /\ n.names = w.names /\ n.got = w.got
      BY <1>1 DEF WorkerOK, Fields, Queued
    <3> HIDE DEF n
    <3> QED BY <1>1, <3>1 DEF WorkerOK, RowOK, NamesOK, OutOK
  <2>3. Becomes(k, next) BY <1>4 DEF Poll
  <2> HIDE DEF m, n, answer
  <2>4. WorkerOK(k, next) BY <1>1, <2>1, <2>2, IdleOK
  <2> HIDE DEF next
  <2> QED BY <1>1, <2>3, <2>4, BecomesKeeps
<1> QED BY <1>2, <1>3, <1>4

\* Every step keeps the invariant.
LEMMA IamStep == IamInv /\ [Next]_vars => IamInv'
<1> SUFFICES ASSUME IamInv, [Next]_vars PROVE IamInv'
  OBVIOUS
<1>1. CASE UNCHANGED vars
  BY <1>1, WorkersStay DEF vars, IamInv
<1>2. ASSUME NEW k \in Function, Start(k) PROVE IamInv'
  <2> DEFINE w == worker[k]
             n == [w EXCEPT !.st = "running"]
  <2>1. k \in DOMAIN worker /\ WorkerOK(k, w) /\ Becomes(k, n) BY <1>2 DEF Start, IamInv
  <2>2. /\ DOMAIN n = Fields /\ n.todo = w.todo /\ n.of = w.of /\ n.at = w.at /\ n.row = w.row
        /\ n.names = w.names /\ n.got = w.got /\ n.out = w.out
    BY <2>1 DEF WorkerOK, Fields, Queued
  <2> HIDE DEF n
  <2>3. WorkerOK(k, n) BY <2>1, <2>2, SameOK
  <2> QED BY <2>1, <2>3, BecomesKeeps
<1>3. ASSUME NEW k \in Function, ListAll(k) PROVE IamInv'
  BY <1>3, ListAllOK DEF ListAll, Running
<1>4. ASSUME NEW k \in Function, NextRow(k) PROVE IamInv'
  BY <1>4, NextRowOK DEF NextRow, Running
<1>5. ASSUME NEW k \in Function, MakeCall(k) PROVE IamInv'
  BY <1>5, MakeCallOK DEF MakeCall, Calling, Running
<1>6. ASSUME NEW k \in Function, GetOne(k) PROVE IamInv'
  BY <1>6, GetOneOK DEF GetOne, Getting, Running
<1>7. ASSUME NEW k \in Function, GotAll(k) PROVE IamInv'
  BY <1>7, GotAllOK DEF GotAll, Getting, Running
<1>8. ASSUME NEW k \in Function, WriteRow(k) PROVE IamInv'
  BY <1>8, WriteRowOK DEF WriteRow, Running
<1>9. ASSUME NEW k \in Function, Commit(k) PROVE IamInv'
  <2> DEFINE w == worker[k]
             n == [w EXCEPT !.st = "committed"]
  <2>1. k \in DOMAIN worker /\ WorkerOK(k, w) /\ Becomes(k, n) BY <1>9 DEF Commit, Running, IamInv
  <2>2. /\ DOMAIN n = Fields /\ n.todo = w.todo /\ n.of = w.of /\ n.at = w.at /\ n.row = w.row
        /\ n.names = w.names /\ n.got = w.got /\ n.out = w.out
    BY <2>1 DEF WorkerOK, Fields, Queued
  <2> HIDE DEF n
  <2>3. WorkerOK(k, n) BY <2>1, <2>2, SameOK
  <2> QED BY <2>1, <2>3, BecomesKeeps
<1>10. ASSUME NEW k \in Function, Throttled(k) PROVE IamInv'
  <2> DEFINE w == worker[k]
             n == [w EXCEPT !.retried = TRUE]
  <2>1. /\ k \in DOMAIN worker /\ WorkerOK(k, w)
        /\ Becomes(k, IF w.retried THEN Raised ELSE n)
    BY <1>10 DEF Throttled, Running, IamInv
  <2>2. /\ DOMAIN n = Fields /\ n.todo = w.todo /\ n.of = w.of /\ n.at = w.at /\ n.row = w.row
        /\ n.names = w.names /\ n.got = w.got /\ n.out = w.out
    BY <2>1 DEF WorkerOK, Fields, Queued
  <2> HIDE DEF n
  <2>3. WorkerOK(k, n) BY <2>1, <2>2, SameOK
  <2> QED BY <2>1, <2>3, IdleOK, BecomesKeeps
<1>11. ASSUME NEW k \in Function, Raises(k) PROVE IamInv'
  BY <1>11, IdleOK, BecomesKeeps DEF Raises, Running
<1>12. CASE Generate \/ GenerateFails \/ Poll BY <1>12, ReportKeeps
<1>13. CASE FinishReport \/ EndFetch
  BY <1>13, WorkersStay DEF FinishReport, EndFetch, cloud, IamInv
<1>14. CASE Drift BY <1>14, DriftKeeps
<1>15. CASE PoolBreaks
  <2>1. UNCHANGED <<aws, held, refused>> BY <1>15 DEF PoolBreaks, cloud
  <2>2. DOMAIN worker' = DOMAIN worker
        /\ \A k \in DOMAIN worker : worker'[k] = Raised \/ worker'[k] = worker[k]
    BY <1>15 DEF PoolBreaks
  <2>3. \A k \in DOMAIN worker : WorkerOK(k, worker'[k]) BY <2>2, IdleOK DEF IamInv
  <2> QED BY <2>1, <2>2, <2>3, WorkersStay DEF IamInv
<1> QED
  BY <1>1, <1>2, <1>3, <1>4, <1>5, <1>6, <1>7, <1>8, <1>9, <1>10, <1>11, <1>12, <1>13, <1>14, <1>15
  DEF Next, Step

\* The fetch begins in order.
LEMMA IamStarts == Init => IamInv
<1> SUFFICES ASSUME Init PROVE IamInv
  OBVIOUS
<1>1. CloudOK BY IamAssumption DEF Init, CloudOK
<1>2. PICK selected \in Selections : worker = [k \in selected |-> Queued] BY DEF Init
<1>3. \A k \in DOMAIN worker : WorkerOK(k, worker[k]) BY <1>2, IdleOK
<1> QED BY <1>1, <1>3 DEF IamInv

\* Whatever AWS changes, rewrites, throttles and refuses, in whatever order the calls
\* of any number of resources are answered, a facet of a committed row is one that AWS
\* held at one moment of the fetch; one that is got name by name has the names of one
\* moment, and under each an item that AWS held (the import functions of aws/iam.py).
THEOREM RowsHonestHolds == Spec => []RowsHonest
<1>1. IamInv => RowsHonest BY DEF IamInv, WorkerOK, OutOK, RowsHonest, Committed
<1> QED BY <1>1, IamStarts, IamStep, PTL DEF Spec
---------------------------------------------------------------------------------
(***************************************************************************)
(* Nothing is lost.                                                        *)
(***************************************************************************)
\* A function that has listed its resources has each that is still there, to do,
\* at work or written; the report has each user.
KeptOK(k, w) ==
  /\ w.st = "committed" => w.listed /\ w.of = NULL /\ w.todo = {}
  /\ w.listed /\ k # "CredentialReport" =>
       \A e \in Entity : aws[e] # NULL /\ KindOf[e] = k =>
         /\ Op(k, "", "get") \notin refused => e \in w.todo \/ e = w.of \/ \E r \in w.out : r.of = e
  /\ w.listed /\ k = "CredentialReport" => \A e \in Users : \E r \in w.out : r.of = e

\* The first of what AWS held is what it held first.
HeldOK ==
  \A e \in Entity : \A f \in FacetsOf(e) : IsFiniteSet(held[e][f]) /\ Initially \in held[e][f]

\* The inductive invariant, next to IamInv.
KeptInv ==
  /\ HeldOK /\ Users \subseteq report.users
  /\ \A k \in DOMAIN worker : KeptOK(k, worker[k])
  /\ job = "mapping" => \A k \in DOMAIN worker : worker[k].st = "committed"
---------------------------------------------------------------------------------
\* A worker that has not begun, or has raised, owes nothing.
LEMMA IdleKept == ASSUME NEW k PROVE KeptOK(k, Queued) /\ KeptOK(k, Raised)
BY DEF KeptOK, Queued, Raised

\* Workers that owe nothing before AWS changes anything owe nothing after it.
LEMMA KeptStays ==
  ASSUME KeptInv, UNCHANGED <<aws, held, refused>>, Users \subseteq report'.users,
         \A k \in DOMAIN worker' : KeptOK(k, worker'[k]),
         job' = "mapping" => \A k \in DOMAIN worker' : worker'[k].st = "committed"
  PROVE  KeptInv'
<1>1. HeldOK' BY DEF KeptInv, HeldOK
<1>2. Users' = Users BY DEF Users
<1>3. \A k \in DOMAIN worker' : KeptOK(k, worker[k])' BY <1>2 DEF KeptOK
<1> QED BY <1>1, <1>2, <1>3 DEF KeptInv

\* A worker that is not done changes alone.
LEMMA WorkerKept ==
  ASSUME KeptInv, NEW k \in DOMAIN worker, worker[k].st # "committed", NEW w, KeptOK(k, w),
         UNCHANGED <<aws, held, refused, job>>, Users \subseteq report'.users,
         worker' = [worker EXCEPT ![k] = w]
  PROVE  KeptInv'
<1>1. \A j \in DOMAIN worker' : KeptOK(j, worker'[j]) BY DEF KeptInv
<1>2. job # "mapping" BY DEF KeptInv
<1> QED BY <1>1, <1>2, KeptStays

\* Most steps are that of one worker.
LEMMA BecomesKept ==
  ASSUME KeptInv, NEW k \in DOMAIN worker, worker[k].st # "committed", NEW w, KeptOK(k, w), Becomes(k, w)
  PROVE  KeptInv'
BY WorkerKept DEF Becomes, cloud, KeptInv

\* What a worker has seen changes with its listing and its rows alone.
LEMMA SameKept ==
  ASSUME NEW k, NEW w, KeptOK(k, w), NEW n, n.st # "committed",
         n.listed = w.listed, n.todo = w.todo, n.of = w.of, n.out = w.out
  PROVE  KeptOK(k, n)
BY DEF KeptOK

\* A facet that is stored, a call that is made and a name that is got.
LEMMA CallsKept ==
  ASSUME KeptInv, IamInv, NEW k \in DOMAIN worker, MakeCall(k) \/ GetOne(k) \/ GotAll(k)
  PROVE  KeptInv'
<1> DEFINE w == worker[k]
           c == Calls[k][w.at]
<1>1. KeptOK(k, w) /\ DOMAIN w = Fields /\ w.st = "running"
  BY DEF KeptInv, IamInv, WorkerOK, MakeCall, Calling, GetOne, GotAll, Getting, Running
<1>2. ASSUME NEW v PROVE KeptOK(k, Stored(w, c, v))
  <2> HIDE DEF c
  <2> DEFINE n == Stored(w, c, v)
  <2>1. n.st = w.st /\ n.listed = w.listed /\ n.todo = w.todo /\ n.of = w.of /\ n.out = w.out
    BY <1>1 DEF Stored, Fields, Queued
  <2> HIDE DEF n
  <2>2. KeptOK(k, n) BY <1>1, <2>1, SameKept
  <2> QED BY <2>2 DEF n
<1>3. ASSUME NEW x, NEW y PROVE KeptOK(k, [w EXCEPT !.names = x, !.got = y, !.retried = FALSE])
  <2> DEFINE n == [w EXCEPT !.names = x, !.got = y, !.retried = FALSE]
  <2>1. n.st = w.st /\ n.listed = w.listed /\ n.todo = w.todo /\ n.of = w.of /\ n.out = w.out
    BY <1>1 DEF Fields, Queued
  <2> HIDE DEF n
  <2>2. KeptOK(k, n) BY <1>1, <2>1, SameKept
  <2> QED BY <2>2 DEF n
<1>4. ASSUME NEW x, NEW y PROVE KeptOK(k, [w EXCEPT !.names = x, !.got = y])
  <2> DEFINE n == [w EXCEPT !.names = x, !.got = y]
  <2>1. n.st = w.st /\ n.listed = w.listed /\ n.todo = w.todo /\ n.of = w.of /\ n.out = w.out
    BY <1>1 DEF Fields, Queued
  <2> HIDE DEF n
  <2>2. KeptOK(k, n) BY <1>1, <2>1, SameKept
  <2> QED BY <2>2 DEF n
<1>5. CASE MakeCall(k)
  <2> DEFINE answer == Answer(k, c)
  <2>1. PICK n : /\ Becomes(k, n)
                 /\ \/ n = Raised
                    \/ n = [w EXCEPT !.names = Names(answer.value), !.got = {}, !.retried = FALSE]
                    \/ n = Stored(w, c, answer.value)
                    \/ n = Stored(w, c, NULL)
    <3> HIDE DEF answer
    <3>1. Becomes(k,
            CASE answer.is = "record" /\ c.how = "index" -> Raised
              [] answer.is = "none" /\ c.how = "whole" -> Raised
              [] c.how = "each" -> [w EXCEPT !.names = Names(answer.value), !.got = {}, !.retried = FALSE]
              [] answer.is = "result" /\ c.how # "each" -> Stored(w, c, answer.value)
              [] OTHER -> Stored(w, c, NULL))
      BY <1>5 DEF MakeCall, answer
    <3>2. answer.is \in {"result", "none", "record"}
      BY DEF answer, Answer, list, get, ErrorRecord, None, Result
    <3>3. CASE \/ answer.is = "record" /\ c.how = "index"
               \/ answer.is = "none" /\ c.how = "whole"
      BY <3>1, <3>3
    <3>4. CASE c.how = "each" BY <3>1, <3>4
    <3>5. CASE answer.is = "result" /\ c.how # "each" BY <3>1, <3>5
    <3>6. CASE /\ answer.is # "result" /\ c.how # "each"
               /\ ~(answer.is = "record" /\ c.how = "index") /\ ~(answer.is = "none" /\ c.how = "whole")
      BY <3>1, <3>6
    <3> QED BY <3>3, <3>4, <3>5, <3>6
  <2> DEFINE m == [w EXCEPT !.names = Names(answer.value), !.got = {}, !.retried = FALSE]
  <2>2. KeptOK(k, m) BY <1>3
  <2> HIDE DEF w, c, answer, m
  <2>3. n = Raised => KeptOK(k, n) BY IdleKept
  <2>4. n = m => KeptOK(k, n) BY <2>2
  <2>5. n = Stored(w, c, answer.value) => KeptOK(k, n) BY <1>2
  <2>6. n = Stored(w, c, NULL) => KeptOK(k, n) BY <1>2
  <2>7. KeptOK(k, n) BY <2>1, <2>3, <2>4, <2>5, <2>6 DEF m
  <2> QED BY <1>1, <2>1, <2>7, BecomesKept DEF w
<1>6. CASE GetOne(k)
  <2>1. PICK m \in w.names :
          LET found == {x \in Holds(w.of, c.facet) : NameOf[x] = m}
              answer == get(Op(k, c.facet, "get"), found # {}, found)
          IN Becomes(k, IF answer.is = "none" THEN Raised
                        ELSE [w EXCEPT !.names = @ \ {m}, !.got = @ \cup answer.value])
    BY <1>6 DEF GetOne
  <2> DEFINE found == {x \in Holds(w.of, c.facet) : NameOf[x] = m}
             answer == get(Op(k, c.facet, "get"), found # {}, found)
             n == IF answer.is = "none" THEN Raised
                  ELSE [w EXCEPT !.names = @ \ {m}, !.got = @ \cup answer.value]
  <2>2. Becomes(k, n) BY <2>1
  <2>3. KeptOK(k, n) BY <1>4, IdleKept
  <2> HIDE DEF n
  <2> QED BY <1>1, <2>2, <2>3, BecomesKept
<1>7. CASE GotAll(k)
  <2>1. Becomes(k, Stored(w, c, w.got)) BY <1>7 DEF GotAll
  <2>2. KeptOK(k, Stored(w, c, w.got)) BY <1>2
  <2> QED BY <1>1, <2>1, <2>2, BecomesKept
<1> QED BY <1>5, <1>6, <1>7

\* A listing has every resource that is there, unless it is refused: then the
\* function raises, except for the password policy.
LEMMA ListAllKept ==
  ASSUME KeptInv, IamInv, NEW k \in DOMAIN worker, ListAll(k)
  PROVE  KeptInv'
<1> DEFINE w == worker[k]
           present == {e \in Entity : KindOf[e] = k /\ aws[e] # NULL}
           answer == IF k = "PasswordPolicy"
                     THEN get(Op(k, "", "get"), present # {}, present)
                     ELSE list(Op(k, "", "list"), TRUE, present)
           n == [w EXCEPT !.listed = TRUE, !.todo = answer.value, !.retried = FALSE]
<1>1. /\ KeptOK(k, w) /\ DOMAIN w = Fields /\ w.st = "running" /\ k # "CredentialReport"
      /\ Becomes(k, IF answer.is = "record" THEN Raised ELSE n)
  BY DEF KeptInv, IamInv, WorkerOK, ListAll, Running
<1>2. answer.is = "record" \/ answer.value = present \/ Op(k, "", "get") \in refused
  <2> HIDE DEF present
  <2> QED BY DEF get, list, None, ErrorRecord, Result
<1> HIDE DEF answer
<1>3. n.st = w.st /\ n.todo = answer.value BY <1>1 DEF Fields, Queued
<1> HIDE DEF n
<1>4. answer.is # "record" => KeptOK(k, n) BY <1>1, <1>2, <1>3 DEF KeptOK
<1> QED BY <1>1, <1>4, IdleKept, BecomesKept

\* A resource leaves the list for its row.
LEMMA NextRowKept ==
  ASSUME KeptInv, IamInv, NEW k \in DOMAIN worker, NextRow(k)
  PROVE  KeptInv'
<1> DEFINE w == worker[k]
<1>1. KeptOK(k, w) /\ DOMAIN w = Fields /\ w.st = "running" /\ w.of = NULL
  BY DEF KeptInv, IamInv, WorkerOK, NextRow, Running
<1>2. PICK e \in w.todo :
        Becomes(k, [w EXCEPT !.todo = @ \ {e}, !.of = e, !.at = 1, !.row = [f \in FacetsOf(e) |-> NULL]])
  BY DEF NextRow
<1> DEFINE row == [f \in FacetsOf(e) |-> NULL]
           n == [w EXCEPT !.todo = @ \ {e}, !.of = e, !.at = 1, !.row = row]
<1>3. n.st = w.st /\ n.listed = w.listed /\ n.todo = w.todo \ {e} /\ n.of = e /\ n.out = w.out
  <2> HIDE DEF row
  <2> QED BY <1>1 DEF Fields, Queued
<1> HIDE DEF n, row
<1>4. e \in Entity /\ KindOf[e] = k BY DEF IamInv, WorkerOK
<1>5. k # "CredentialReport" BY <1>4, CallsOfKind DEF Kind, Calls
<1>6. KeptOK(k, n) BY <1>1, <1>3, <1>5, IamAssumption DEF KeptOK
<1>7. Becomes(k, n) BY <1>2 DEF n, row
<1> QED BY <1>1, <1>6, <1>7, BecomesKept

\* And the row for the rows that are written.
LEMMA WriteRowKept ==
  ASSUME KeptInv, IamInv, NEW k \in DOMAIN worker, WriteRow(k)
  PROVE  KeptInv'
<1> DEFINE w == worker[k]
           written == [of |-> w.of, row |-> w.row]
           n == [w EXCEPT !.out = @ \cup {written}, !.of = NULL, !.at = 0, !.row = <<>>]
<1>1. /\ KeptOK(k, w) /\ DOMAIN w = Fields /\ w.st = "running" /\ w.of # NULL
      /\ Becomes(k, n)
  BY DEF KeptInv, IamInv, WorkerOK, WriteRow, Running
<1>2. written.of = w.of OBVIOUS
<1>3. n.st = w.st /\ n.listed = w.listed /\ n.todo = w.todo /\ n.of = NULL /\ n.out = w.out \cup {written}
  <2> HIDE DEF written
  <2> QED BY <1>1 DEF Fields, Queued
<1> HIDE DEF n, written
<1>4. k # "CredentialReport" BY <1>1, InKind DEF Kind, Calls
<1>5. KeptOK(k, n) BY <1>1, <1>2, <1>3, <1>4 DEF KeptOK
<1> QED BY <1>1, <1>5, BecomesKept

\* The report has every user that is still there.
LEMMA ReportKept ==
  ASSUME KeptInv, IamInv, Generate \/ GenerateFails \/ Poll
  PROVE  KeptInv'
<1> DEFINE k == "CredentialReport"
           w == worker[k]
<1>1. k \in DOMAIN worker /\ KeptOK(k, w) /\ DOMAIN w = Fields /\ w.st = "running"
  BY DEF Generate, GenerateFails, Poll, Generating, Polling, Reporting, Running,
         KeptInv, IamInv, WorkerOK
<1>2. CASE Generate
  <2> DEFINE n == [w EXCEPT !.polls = 0]
             next == IF get(Op(k, "report", "generate"), TRUE, {}).is = "none" THEN Raised
                     ELSE IF report.is = "running" THEN w ELSE n
  <2>1. KeptOK(k, n)
    <3>1. n.st = w.st /\ n.listed = w.listed /\ n.todo = w.todo /\ n.of = w.of /\ n.out = w.out
      BY <1>1 DEF Fields, Queued
    <3> HIDE DEF n
    <3> QED BY <1>1, <3>1, SameKept
  <2>2. worker' = [worker EXCEPT ![k] = next] /\ UNCHANGED <<aws, held, refused, job>>
    BY <1>2 DEF Generate, cloud
  <2>3. Users \subseteq report'.users
    <3>1. report' = report \/ report' = [report EXCEPT !.is = "running"] BY <1>2 DEF Generate
    <3>2. [report EXCEPT !.is = "running"].users = report.users OBVIOUS
    <3> QED BY <3>1, <3>2 DEF KeptInv
  <2>4. KeptOK(k, next) BY <1>1, <2>1, IdleKept
  <2> HIDE DEF next
  <2> QED BY <1>1, <2>2, <2>3, <2>4, WorkerKept
<1>3. CASE GenerateFails
  <2> DEFINE n == [w EXCEPT !.tries = @ + 1]
             next == IF w.tries + 1 >= 3 THEN Raised ELSE n
  <2>1. KeptOK(k, n)
    <3>1. n.st = w.st /\ n.listed = w.listed /\ n.todo = w.todo /\ n.of = w.of /\ n.out = w.out
      BY <1>1 DEF Fields, Queued
    <3> HIDE DEF n
    <3> QED BY <1>1, <3>1, SameKept
  <2>2. Becomes(k, next) BY <1>3 DEF GenerateFails
  <2>3. KeptOK(k, next) BY <1>1, <2>1, IdleKept
  <2> HIDE DEF next
  <2> QED BY <1>1, <2>2, <2>3, BecomesKept
<1>4. CASE Poll
  <2> DEFINE m == [w EXCEPT !.polls = @ + 1]
             rows == {[of |-> e, row |-> <<>>] : e \in report.users}
             n == [w EXCEPT !.listed = TRUE, !.out = rows]
             answer == get(Op(k, "report", "get"), TRUE, report.users)
             next == CASE answer.is = "none" -> w
                       [] answer.is = "result" /\ report.is = "running" ->
                            IF w.polls + 1 = 20 THEN Raised ELSE m
                       [] OTHER -> n
  <2>1. KeptOK(k, m)
    <3>1. m.st = w.st /\ m.listed = w.listed /\ m.todo = w.todo /\ m.of = w.of /\ m.out = w.out
      BY <1>1 DEF Fields, Queued
    <3> HIDE DEF m
    <3> QED BY <1>1, <3>1, SameKept
  <2>2. KeptOK(k, n)
    <3>1. n.st = w.st /\ n.out = rows
      <4> HIDE DEF rows
      <4> QED BY <1>1 DEF Fields, Queued
    <3>2. ASSUME NEW e \in report.users PROVE \E r \in rows : r.of = e
      <4>1. [of |-> e, row |-> <<>>] \in rows /\ [of |-> e, row |-> <<>>].of = e OBVIOUS
      <4> QED BY <4>1
    <3> HIDE DEF n, rows
    <3>3. \A e \in Users : \E r \in n.out : r.of = e BY <3>1, <3>2 DEF KeptInv
    <3> QED BY <1>1, <3>1, <3>3 DEF KeptOK
  <2>3. Becomes(k, next) BY <1>4 DEF Poll
  <2> HIDE DEF m, n, answer
  <2>4. KeptOK(k, next) BY <1>1, <2>1, <2>2, IdleKept
  <2> HIDE DEF next
  <2> QED BY <1>1, <2>3, <2>4, BecomesKept
<1> QED BY <1>2, <1>3, <1>4

\* AWS only deletes, and adds to what it held.
LEMMA DriftKept ==
  ASSUME KeptInv, IamInv, Drift
  PROVE  KeptInv'
<1>1. PICK e \in Entity : /\ aws[e] # NULL
        /\ \/ aws' = [aws EXCEPT ![e] = NULL] /\ held' = held
           \/ \E f \in FacetsOf(e), v \in Listing :
                /\ aws' = [aws EXCEPT ![e][f] = v]
                /\ held' = [held EXCEPT ![e][f] = @ \cup {v}]
  BY DEF Drift
<1>2. UNCHANGED <<worker, refused, report, job>> BY DEF Drift
<1>3. \A d \in Entity : aws'[d] # NULL => aws[d] # NULL
  BY <1>1 DEF IamInv, CloudOK
<1>4. HeldOK'
  <2>1. CASE held' = held BY <2>1 DEF KeptInv, HeldOK
  <2>2. ASSUME NEW f \in FacetsOf(e), NEW v \in Listing, held' = [held EXCEPT ![e][f] = @ \cup {v}]
        PROVE  HeldOK'
    <3>1. \A d \in Entity : \A g \in FacetsOf(d) :
            held'[d][g] = held[d][g] \/ held'[d][g] = held[d][g] \cup {v}
      BY <2>2 DEF IamInv, CloudOK
    <3>2. \A d \in Entity : \A g \in FacetsOf(d) : IsFiniteSet(held[d][g] \cup {v})
      BY FS_AddElement DEF KeptInv, HeldOK
    <3> QED BY <3>1, <3>2 DEF KeptInv, HeldOK
  <2> QED BY <1>1, <2>1, <2>2
<1>5. Users' \subseteq Users BY <1>3 DEF Users
<1>6. \A k \in DOMAIN worker : KeptOK(k, worker[k])' BY <1>2, <1>3, <1>5 DEF KeptInv, KeptOK
<1> QED BY <1>2, <1>4, <1>5, <1>6 DEF KeptInv
---------------------------------------------------------------------------------
\* Every step keeps the invariant.
LEMMA KeptStep == KeptInv /\ IamInv /\ [Next]_vars => KeptInv'
<1> SUFFICES ASSUME KeptInv, IamInv, [Next]_vars PROVE KeptInv'
  OBVIOUS
<1>1. CASE UNCHANGED vars
  BY <1>1, KeptStays DEF vars, KeptInv
<1>2. ASSUME NEW k \in Function, Start(k) PROVE KeptInv'
  <2> DEFINE w == worker[k]
             n == [w EXCEPT !.st = "running"]
  <2>1. k \in DOMAIN worker /\ KeptOK(k, w) /\ DOMAIN w = Fields /\ w.st = "queued" /\ Becomes(k, n)
    BY <1>2 DEF Start, IamInv, WorkerOK, KeptInv
  <2>2. n.st = "running" /\ n.listed = w.listed /\ n.todo = w.todo /\ n.of = w.of /\ n.out = w.out
    BY <2>1 DEF Fields, Queued
  <2> HIDE DEF n
  <2>3. KeptOK(k, n) BY <2>1, <2>2, SameKept
  <2> QED BY <2>1, <2>3, BecomesKept
<1>3. ASSUME NEW k \in Function, ListAll(k) PROVE KeptInv'
  BY <1>3, ListAllKept DEF ListAll, Running
<1>4. ASSUME NEW k \in Function, NextRow(k) PROVE KeptInv'
  BY <1>4, NextRowKept DEF NextRow, Running
<1>5. ASSUME NEW k \in Function, MakeCall(k) \/ GetOne(k) \/ GotAll(k) PROVE KeptInv'
  BY <1>5, CallsKept DEF MakeCall, Calling, GetOne, GotAll, Getting, Running
<1>6. ASSUME NEW k \in Function, WriteRow(k) PROVE KeptInv'
  BY <1>6, WriteRowKept DEF WriteRow, Running
<1>7. ASSUME NEW k \in Function, Commit(k) PROVE KeptInv'
  <2> DEFINE w == worker[k]
             n == [w EXCEPT !.st = "committed"]
  <2>1. /\ k \in DOMAIN worker /\ KeptOK(k, w) /\ DOMAIN w = Fields /\ w.st = "running"
        /\ w.listed /\ w.of = NULL /\ w.todo = {} /\ Becomes(k, n)
    BY <1>7 DEF Commit, Running, IamInv, WorkerOK, KeptInv
  <2>2. n.listed = w.listed /\ n.todo = w.todo /\ n.of = w.of /\ n.out = w.out
    BY <2>1 DEF Fields, Queued
  <2> HIDE DEF n
  <2>3. KeptOK(k, n) BY <2>1, <2>2 DEF KeptOK
  <2> QED BY <2>1, <2>3, BecomesKept
<1>8. ASSUME NEW k \in Function, Throttled(k) PROVE KeptInv'
  <2> DEFINE w == worker[k]
             n == [w EXCEPT !.retried = TRUE]
  <2>1. /\ k \in DOMAIN worker /\ KeptOK(k, w) /\ DOMAIN w = Fields /\ w.st = "running"
        /\ Becomes(k, IF w.retried THEN Raised ELSE n)
    BY <1>8 DEF Throttled, Running, IamInv, WorkerOK, KeptInv
  <2>2. n.st = w.st /\ n.listed = w.listed /\ n.todo = w.todo /\ n.of = w.of /\ n.out = w.out
    BY <2>1 DEF Fields, Queued
  <2> HIDE DEF n
  <2>3. KeptOK(k, n) BY <2>1, <2>2, SameKept
  <2> QED BY <2>1, <2>3, IdleKept, BecomesKept
<1>9. ASSUME NEW k \in Function, Raises(k) PROVE KeptInv'
  BY <1>9, IdleKept, BecomesKept DEF Raises, Running
<1>10. CASE Generate \/ GenerateFails \/ Poll BY <1>10, ReportKept
<1>11. CASE FinishReport
  <2>1. report'.users = Users /\ UNCHANGED <<aws, held, refused, worker, job>>
    BY <1>11 DEF FinishReport, cloud
  <2> QED BY <2>1, KeptStays DEF KeptInv
<1>12. CASE EndFetch
  BY <1>12, KeptStays DEF EndFetch, cloud, KeptInv
<1>13. CASE Drift BY <1>13, DriftKept
<1>14. CASE PoolBreaks
  <2>1. UNCHANGED <<aws, held, refused, report, job>> BY <1>14 DEF PoolBreaks, cloud
  <2>2. /\ job # "mapping" /\ DOMAIN worker' = DOMAIN worker
        /\ \A k \in DOMAIN worker : worker'[k] = Raised \/ worker'[k] = worker[k]
    BY <1>14 DEF PoolBreaks, KeptInv
  <2>3. \A k \in DOMAIN worker : KeptOK(k, worker'[k]) BY <2>2, IdleKept DEF KeptInv
  <2> QED BY <2>1, <2>2, <2>3, KeptStays DEF KeptInv
<1> QED
  BY <1>1, <1>2, <1>3, <1>4, <1>5, <1>6, <1>7, <1>8, <1>9, <1>10, <1>11, <1>12, <1>13, <1>14
  DEF Next, Step

\* Of a facet that AWS held one value of, the pieces are that value.
LEMMA PiecedOfOne == ASSUME NEW v, Pieced({Initially}, v) PROVE v = Initially
<1>1. v \subseteq Initially /\ Names(v) = Names(Initially) BY DEF Pieced
<1>2. ASSUME NEW x \in Initially PROVE x \in v
  <2>1. NameOf[x] \in Names(v) BY <1>1, <1>2 DEF Names
  <2>2. PICK y \in v : NameOf[y] = NameOf[x] BY <2>1 DEF Names
  <2>3. Initially \in Listing BY IamAssumption
  <2>4. y = x BY <1>1, <2>2, <2>3 DEF Listing
  <2> QED BY <2>2, <2>4
<1> QED BY <1>1, <1>2

\* The invariants say that nothing is lost: a facet that AWS held one value of is
\* honest only if it is that value.
LEMMA KeptIsAll == KeptInv /\ IamInv => NothingLost
<1> SUFFICES ASSUME KeptInv, IamInv, job = "mapping", NEW k \in DOMAIN worker, NEW e \in Entity
             PROVE  /\ Steady(e) /\ KindOf[e] = k /\ Op(k, "", "get") \notin refused =>
                         \E r \in worker[k].out :
                           /\ r.of = e
                           /\ \A c \in CallsOf(e) : ~Unseen(e, c.facet) => r.row[c.facet] = aws[e][c.facet]
                    /\ k = "CredentialReport" /\ e \in Users => \E r \in worker[k].out : r.of = e
  BY DEF NothingLost
<1> DEFINE w == worker[k]
<1>1. w.st = "committed" /\ w.listed /\ w.of = NULL /\ w.todo = {} /\ KeptOK(k, w)
  BY DEF KeptInv, KeptOK
<1>2. ASSUME Steady(e), KindOf[e] = k, Op(k, "", "get") \notin refused
      PROVE  \E r \in w.out : /\ r.of = e
                              /\ \A c \in CallsOf(e) : ~Unseen(e, c.facet) => r.row[c.facet] = aws[e][c.facet]
  <2>1. k # "CredentialReport" BY <1>2, CallsOfKind DEF Kind, Calls
  <2>2. aws[e] # NULL BY <1>2 DEF Steady
  <2>3. PICK r \in w.out : r.of = e BY <1>1, <1>2, <2>1, <2>2, IamAssumption DEF KeptOK
  <2>4. Honest(e, r.row) BY <2>1, <2>2, <2>3 DEF IamInv, WorkerOK, OutOK
  <2>5. ASSUME NEW c \in CallsOf(e), ~Unseen(e, c.facet)
        PROVE  r.row[c.facet] = aws[e][c.facet]
    <3>1. c.facet \in FacetsOf(e) BY DEF FacetsOf
    <3>2. /\ IsFiniteSet(held[e][c.facet]) /\ Cardinality(held[e][c.facet]) = 1
          /\ Initially \in held[e][c.facet]
      BY <1>2, <3>1 DEF Steady, KeptInv, HeldOK
    <3>3. held[e][c.facet] = {Initially} BY <3>2, FS_Singleton
    <3>4. aws[e][c.facet] = Initially BY <2>2, <3>1, <3>3 DEF IamInv, CloudOK
    <3>5. Initially # {} BY IamAssumption
    <3>6. \/ OfOneMoment(e, c, r.row[c.facet])
          \/ Pieced({Initially}, r.row[c.facet])
      BY <2>4, <2>5, <3>3 DEF Honest
    <3> QED BY <3>3, <3>4, <3>5, <3>6, PiecedOfOne DEF OfOneMoment
  <2> QED BY <2>3, <2>5
<1>3. ASSUME k = "CredentialReport", e \in Users PROVE \E r \in w.out : r.of = e
  BY <1>1, <1>3 DEF KeptOK
<1> QED BY <1>2, <1>3

\* However AWS throttles, refuses, fails and changes, and the pool breaks: a fetch
\* that is mapped has every resource that was there all the time with every facet
\* that the credentials may read, and every user's line of the report
\* (collect_exceptions, ClientProxy.list and the import functions of aws/iam.py).
THEOREM NothingLostHolds == Spec => []NothingLost
<1>1. Init => KeptInv
  <2> SUFFICES ASSUME Init PROVE KeptInv
    OBVIOUS
  <2>1. HeldOK
    <3>1. \A e \in Entity : \A f \in FacetsOf(e) : held[e][f] = {Initially} BY DEF Init
    <3> QED BY <3>1, FS_Singleton DEF HeldOK
  <2>2. Users \subseteq report.users BY DEF Init, Users
  <2>3. PICK selected \in Selections : worker = [k \in selected |-> Queued] BY DEF Init
  <2>4. \A k \in DOMAIN worker : KeptOK(k, worker[k]) BY <2>3, IdleKept
  <2>5. job = "fetching" BY DEF Init
  <2> QED BY <2>1, <2>2, <2>4, <2>5 DEF KeptInv
<1> QED BY <1>1, IamStarts, IamStep, KeptStep, KeptIsAll, PTL DEF Spec
---------------------------------------------------------------------------------
(***************************************************************************)
(* Types and bounds.                                                       *)
(***************************************************************************)
Typed(k, w) == w \in Worker /\ InWork(k, w)
Active == {k \in DOMAIN worker : worker[k].st = "running"}

\* There are finitely many functions, so finitely many run.
LEMMA ActiveFinite ==
  ASSUME DOMAIN worker \in Selections
  PROVE  IsFiniteSet(Active) /\ Cardinality(Active) \in Nat
<1>1. DOMAIN SVC = 1 .. 7 BY DEF SVC
<1>2. IsFiniteSet(Function)
  <2> DEFINE f == [i \in 1 .. 7 |-> SVC[i]]
  <2>1. f \in Surjection(1 .. 7, Function) BY <1>1 DEF Function, Surjection
  <2>2. IsFiniteSet(1 .. 7)
    <3>1. \A a, b \in Int : IsFiniteSet(a .. b) BY FS_Interval
    <3>2. 1 \in Int /\ 7 \in Int OBVIOUS
    <3> QED BY <3>1, <3>2, Zenon
  <2> HIDE DEF f
  <2> QED BY <2>1, <2>2, FS_Surjection
<1>3. Active \subseteq Function BY IamAssumption DEF Active
<1>4. IsFiniteSet(Active) BY <1>2, <1>3, FS_Subset
<1> QED BY <1>4, FS_CardinalityType

LEMMA IdleTyped ==
  ASSUME NEW k
  PROVE  Typed(k, Queued) /\ Typed(k, Raised)
<1>1. {} \in SUBSET Item /\ {} \in SUBSET Entity /\ {} \in SUBSET Row OBVIOUS
<1>2. Queued \in Worker BY <1>1 DEF Queued, Worker
<1>3. /\ Raised \in Worker /\ Raised.of = NULL /\ Raised.at = 0 /\ Raised.row = <<>>
  BY <1>2 DEF Queued, Raised, Worker
<1>4. Queued.of = NULL /\ Queued.at = 0 /\ Queued.row = <<>> BY DEF Queued
<1> QED BY <1>2, <1>3, <1>4 DEF Typed, InWork

\* What a step of the workers must show.
LEMMA TypeStays ==
  ASSUME TypeOK, UNCHANGED <<aws, held, drifts, refused>>,
         report' \in [is : {"none", "running", "ready"}, users : SUBSET Entity],
         job' \in {"fetching", "mapping", "failed"}, DOMAIN worker' = DOMAIN worker,
         \A k \in DOMAIN worker : Typed(k, worker'[k]), Cardinality(Active') <= Slots
  PROVE  TypeOK'
<1>1. \A e : RowsOf(e)' = RowsOf(e) OBVIOUS
<1> QED BY DEF TypeOK, Typed, Active

\* No step of a worker but its start makes it run.
LEMMA BecomesTyped ==
  ASSUME TypeOK, NEW k \in DOMAIN worker, NEW w, Typed(k, w), Becomes(k, w),
         w.st = "running" => worker[k].st = "running"
  PROVE  TypeOK'
<1>1. worker' = [worker EXCEPT ![k] = w] BY DEF Becomes
<1>2. Active' \subseteq Active BY <1>1 DEF Active
<1>3. Cardinality(Active') <= Slots
  <2>1. IsFiniteSet(Active) /\ Cardinality(Active) <= Slots BY ActiveFinite DEF TypeOK, Active
  <2>2. Cardinality(Active') <= Cardinality(Active) /\ IsFiniteSet(Active') BY <1>2, <2>1, FS_Subset
  <2> QED BY <2>1, <2>2, ActiveFinite, FS_CardinalityType, IamAssumption DEF TypeOK
<1> QED BY <1>1, <1>3, TypeStays DEF TypeOK, Becomes, cloud, Typed

\* A facet that is stored moves on to the next call of the resource.
LEMMA StoredTyped ==
  ASSUME NEW k, NEW w, Typed(k, w), w.of # NULL, w.at \in DOMAIN Calls[k],
         NEW v \in (SUBSET Item) \cup {NULL}
  PROVE  /\ Typed(k, Stored(w, Calls[k][w.at], v))
         /\ Stored(w, Calls[k][w.at], v).st = w.st
<1> DEFINE c == Calls[k][w.at]
           row == [w.row EXCEPT ![c.facet] = v]
           n == [w EXCEPT !.at = @ + 1, !.row = row, !.names = NULL, !.got = {}, !.retried = FALSE]
<1>1. w.of \in Entity /\ KindOf[w.of] = k /\ w.row \in RowsOf(w.of) /\ w.at \in Nat
  BY DEF Typed, Worker, InWork
<1>2. c.facet \in FacetsOf(w.of) /\ k \in Kind BY <1>1, CallsOfKind
<1>3. row \in RowsOf(w.of) BY <1>1, <1>2 DEF RowsOf
<1>4. w.at + 1 \in 1 .. Len(Calls[k]) + 1 BY <1>1, <1>2, CallsAre
<1>5. Stored(w, c, v) = n BY DEF Stored
<1> HIDE DEF row, c
<1>6. /\ n \in Worker /\ n.of = w.of /\ n.at = w.at + 1 /\ n.row = row /\ n.st = w.st
  <2>1. /\ {} \in SUBSET Item /\ NULL \in (SUBSET Item) \cup {NULL} /\ w.at + 1 \in Nat
        /\ row \in {<<>>} \cup UNION {RowsOf(e) : e \in Entity}
    BY <1>1, <1>3
  <2>2. w \in Worker BY DEF Typed
  <2> QED BY <2>1, <2>2 DEF Worker
<1> HIDE DEF n
<1>7. Typed(k, n) BY <1>1, <1>3, <1>4, <1>6 DEF Typed, InWork
<1> QED BY <1>5, <1>6, <1>7 DEF c

LEMMA MakeCallTyped ==
  ASSUME TypeOK, NEW k \in DOMAIN worker, MakeCall(k)
  PROVE  TypeOK'
<1> DEFINE w == worker[k]
           c == Calls[k][w.at]
           answer == Answer(k, c)
           names == Names(answer.value)
           n == [w EXCEPT !.names = names, !.got = {}, !.retried = FALSE]
<1>1. /\ Typed(k, w) /\ w.st = "running" /\ w.of # NULL /\ w.at <= Len(Calls[k])
      /\ Becomes(k, CASE answer.is = "record" /\ c.how = "index" -> Raised
                      [] answer.is = "none" /\ c.how = "whole" -> Raised
                      [] c.how = "each" -> n
                      [] answer.is = "result" /\ c.how # "each" -> Stored(w, c, answer.value)
                      [] OTHER -> Stored(w, c, NULL))
  BY DEF MakeCall, Calling, Running, TypeOK, Typed
<1>2. w.of \in Entity /\ KindOf[w.of] = k /\ w.at \in Nat \ {0} /\ k \in Kind
  BY <1>1, CallsOfKind DEF Typed, Worker, InWork
<1>3. w.at \in DOMAIN Calls[k] /\ c.facet \in FacetsOf(w.of)
  <2>1. w.at \in DOMAIN Calls[k] BY <1>1, <1>2, CallsAre
  <2> QED BY <1>2, <2>1, CallsOfKind
<1>4. answer.value \in SUBSET Item
  <2> DEFINE v == Holds(w.of, c.facet)
  <2>1. v \in SUBSET Item BY <1>2, <1>3 DEF TypeOK, Facets, Holds, Listing
  <2>2. answer.value \in {{}, v} BY DEF Answer, list, get, None, ErrorRecord, Result
  <2> QED BY <2>1, <2>2
<1> HIDE DEF answer
<1>5. n \in Worker /\ n.of = w.of /\ n.at = w.at /\ n.row = w.row /\ n.st = w.st
  <2>1. {} \in SUBSET Item OBVIOUS
  <2>2. names \in SUBSET Names(Item) BY <1>4 DEF Names
  <2> HIDE DEF names
  <2> QED BY <1>1, <2>1, <2>2 DEF Typed, Worker
<1> HIDE DEF n, names
<1>6. Typed(k, n) BY <1>1, <1>5 DEF Typed, InWork
<1>7. \A v \in (SUBSET Item) \cup {NULL} : Typed(k, Stored(w, c, v))
  BY <1>1, <1>3, StoredTyped
<1> QED BY <1>1, <1>4, <1>6, <1>7, IdleTyped, BecomesTyped

LEMMA GetOneTyped ==
  ASSUME TypeOK, IamInv, NEW k \in DOMAIN worker, GetOne(k)
  PROVE  TypeOK'
<1> DEFINE w == worker[k]
           c == Calls[k][w.at]
<1>1. PICK m \in w.names :
        LET found == {x \in Holds(w.of, c.facet) : NameOf[x] = m}
            answer == get(Op(k, c.facet, "get"), found # {}, found)
        IN Becomes(k, IF answer.is = "none" THEN Raised
                      ELSE [w EXCEPT !.names = @ \ {m}, !.got = @ \cup answer.value])
  BY DEF GetOne
<1> DEFINE found == {x \in Holds(w.of, c.facet) : NameOf[x] = m}
           answer == get(Op(k, c.facet, "get"), found # {}, found)
           n == [w EXCEPT !.names = @ \ {m}, !.got = @ \cup answer.value]
<1>2. Typed(k, w) /\ w.st = "running" /\ w.names # NULL
  BY DEF GetOne, Getting, Running, TypeOK, Typed
<1>3. w.names \in SUBSET Names(Item) /\ w.got \in SUBSET Item BY <1>2 DEF Typed, Worker
<1>4. answer.value \in SUBSET Item
  <2>1. w.of \in Entity /\ KindOf[w.of] = k /\ w.at \in DOMAIN Calls[k]
    BY DEF GetOne, Getting, IamInv, WorkerOK, RowOK, NamesOK
  <2>2. c.facet \in FacetsOf(w.of) BY <2>1, CallsOfKind
  <2>3. Holds(w.of, c.facet) \in SUBSET Item BY <2>1, <2>2 DEF TypeOK, Facets, Holds, Listing
  <2>4. found \in SUBSET Item BY <2>3
  <2> HIDE DEF found
  <2> QED BY <2>4 DEF get, None, Result
<1>5. Becomes(k, IF answer.is = "none" THEN Raised ELSE n) BY <1>1
<1> HIDE DEF answer
<1>6. n \in Worker /\ n.of = w.of /\ n.at = w.at /\ n.row = w.row /\ n.st = w.st
  <2>1. w.names \ {m} \in SUBSET Names(Item) /\ w.got \cup answer.value \in SUBSET Item BY <1>3, <1>4
  <2> QED BY <1>2, <2>1 DEF Typed, Worker
<1> HIDE DEF n
<1>7. Typed(k, n) BY <1>2, <1>6 DEF Typed, InWork
<1> QED BY <1>2, <1>5, <1>7, IdleTyped, BecomesTyped

\* Names are left to get only for a resource in work, so GotAll has one.
LEMMA GotAllTyped ==
  ASSUME TypeOK, IamInv, NEW k \in DOMAIN worker, GotAll(k)
  PROVE  TypeOK'
<1> DEFINE w == worker[k]
<1>1. /\ Typed(k, w) /\ w.st = "running" /\ w.names # NULL
      /\ Becomes(k, Stored(w, Calls[k][w.at], w.got))
  BY DEF GotAll, Getting, Running, TypeOK, Typed
<1>2. w.of # NULL /\ w.at \in DOMAIN Calls[k] BY <1>1 DEF IamInv, WorkerOK, NamesOK
<1>3. w.got \in SUBSET Item BY <1>1 DEF Typed, Worker
<1> QED BY <1>1, <1>2, <1>3, StoredTyped, BecomesTyped

LEMMA ListAllTyped ==
  ASSUME TypeOK, NEW k \in DOMAIN worker, ListAll(k)
  PROVE  TypeOK'
<1> DEFINE w == worker[k]
           present == {e \in Entity : KindOf[e] = k /\ aws[e] # NULL}
           answer == IF k = "PasswordPolicy"
                     THEN get(Op(k, "", "get"), present # {}, present)
                     ELSE list(Op(k, "", "list"), TRUE, present)
           n == [w EXCEPT !.listed = TRUE, !.todo = answer.value, !.retried = FALSE]
<1>1. Typed(k, w) /\ w.st = "running" BY DEF ListAll, Running, TypeOK, Typed
<1>2. answer.value \in SUBSET Entity BY DEF get, list, None, ErrorRecord, Result
<1>3. Becomes(k, IF answer.is = "record" THEN Raised ELSE n) BY DEF ListAll
<1> HIDE DEF answer
<1>4. n \in Worker /\ n.of = w.of /\ n.at = w.at /\ n.row = w.row /\ n.st = w.st
  BY <1>1, <1>2 DEF Typed, Worker
<1> HIDE DEF n
<1>5. Typed(k, n) BY <1>1, <1>4 DEF Typed, InWork
<1> QED BY <1>1, <1>3, <1>5, IdleTyped, BecomesTyped

LEMMA NextRowTyped ==
  ASSUME TypeOK, IamInv, NEW k \in DOMAIN worker, NextRow(k)
  PROVE  TypeOK'
<1> DEFINE w == worker[k]
<1>1. Typed(k, w) /\ w.st = "running" /\ w.of = NULL BY DEF NextRow, Running, TypeOK, Typed
<1>2. PICK e \in w.todo :
        Becomes(k, [w EXCEPT !.todo = @ \ {e}, !.of = e, !.at = 1, !.row = [f \in FacetsOf(e) |-> NULL]])
  BY DEF NextRow
<1> DEFINE row == [f \in FacetsOf(e) |-> NULL]
           n == [w EXCEPT !.todo = @ \ {e}, !.of = e, !.at = 1, !.row = row]
<1>3. e \in Entity /\ KindOf[e] = k /\ e # NULL BY <1>1, IamAssumption DEF IamInv, WorkerOK
<1>4. row \in RowsOf(e) BY DEF RowsOf
<1>5. 1 \in 1 .. Len(Calls[k]) + 1 BY <1>3, CallsOfKind, CallsAre
<1>6. Becomes(k, n) BY <1>2
<1> HIDE DEF row
<1>7. n \in Worker /\ n.of = e /\ n.at = 1 /\ n.row = row /\ n.st = w.st
  <2>1. row \in {<<>>} \cup UNION {RowsOf(x) : x \in Entity} /\ w.todo \ {e} \in SUBSET Entity
    BY <1>1, <1>3, <1>4 DEF Typed, Worker
  <2> QED BY <1>1, <1>3, <2>1 DEF Typed, Worker
<1> HIDE DEF n
<1>8. Typed(k, n) BY <1>3, <1>4, <1>5, <1>7 DEF Typed, InWork
<1> QED BY <1>1, <1>6, <1>7, <1>8, BecomesTyped

LEMMA WriteRowTyped ==
  ASSUME TypeOK, NEW k \in DOMAIN worker, WriteRow(k)
  PROVE  TypeOK'
<1> DEFINE w == worker[k]
           written == [of |-> w.of, row |-> w.row]
           n == [w EXCEPT !.out = @ \cup {written}, !.of = NULL, !.at = 0, !.row = <<>>]
<1>1. Typed(k, w) /\ w.st = "running" /\ w.of # NULL /\ Becomes(k, n)
  BY DEF WriteRow, Running, TypeOK, Typed
<1>2. written \in Row
  <2>1. w.of \in Entity /\ w.row \in {<<>>} \cup RowsOf(w.of) BY <1>1 DEF Typed, Worker, InWork
  <2>2. written \in [of : {w.of}, row : {<<>>} \cup RowsOf(w.of)] BY <2>1
  <2> HIDE DEF written
  <2> QED BY <2>1, <2>2 DEF Row
<1> HIDE DEF written
<1>3. n \in Worker /\ n.of = NULL /\ n.at = 0 /\ n.row = <<>> /\ n.st = w.st
  <2>1. w.out \cup {written} \in SUBSET Row BY <1>1, <1>2 DEF Typed, Worker
  <2> QED BY <1>1, <2>1 DEF Typed, Worker
<1> HIDE DEF n
<1>4. Typed(k, n) BY <1>3 DEF Typed, InWork
<1> QED BY <1>1, <1>3, <1>4, BecomesTyped

LEMMA ReportTyped ==
  ASSUME TypeOK, Generate \/ GenerateFails \/ Poll
  PROVE  TypeOK'
<1> DEFINE k == "CredentialReport"
           w == worker[k]
<1>1. k \in DOMAIN worker /\ Typed(k, w) /\ w.st = "running"
  BY DEF Generate, GenerateFails, Poll, Generating, Polling, Reporting, Running, TypeOK, Typed
<1>2. w \in Worker BY <1>1 DEF Typed
<1>3. CASE Generate
  <2> DEFINE n == [w EXCEPT !.polls = 0]
             next == IF get(Op(k, "report", "generate"), TRUE, {}).is = "none" THEN Raised
                     ELSE IF report.is = "running" THEN w ELSE n
  <2>1. n \in Worker /\ n.of = w.of /\ n.at = w.at /\ n.row = w.row /\ n.st = w.st
    BY <1>2 DEF Worker
  <2>2. Typed(k, n) BY <1>1, <2>1 DEF Typed, InWork
  <2>3. worker' = [worker EXCEPT ![k] = next] /\ UNCHANGED <<aws, held, drifts, refused, job>>
    BY <1>3 DEF Generate, cloud
  <2>4. report' \in [is : {"none", "running", "ready"}, users : SUBSET Entity]
    BY <1>3 DEF Generate, TypeOK
  <2> HIDE DEF n
  <2>5. Typed(k, next) BY <1>1, <2>2, IdleTyped
  <2> HIDE DEF next
  <2>6. Cardinality(Active') <= Slots
    <3>1. Active' \subseteq Active BY <1>1, <2>3 DEF Active
    <3>2. IsFiniteSet(Active) /\ Cardinality(Active) <= Slots BY ActiveFinite DEF TypeOK, Active
    <3>3. Cardinality(Active') <= Cardinality(Active) /\ IsFiniteSet(Active')
      BY <3>1, <3>2, FS_Subset
    <3> QED BY <3>2, <3>3, ActiveFinite, FS_CardinalityType, IamAssumption DEF TypeOK
  <2> QED BY <1>1, <2>3, <2>4, <2>5, <2>6, TypeStays DEF TypeOK, Typed
<1>4. CASE GenerateFails
  <2> DEFINE n == [w EXCEPT !.tries = @ + 1]
  <2>1. Becomes(k, IF w.tries + 1 >= 3 THEN Raised ELSE n) BY <1>4 DEF GenerateFails
  <2>2. ASSUME ~(w.tries + 1 >= 3) PROVE Typed(k, n) /\ n.st = w.st
    <3>0. w.tries \in 0 .. 2 BY <1>2 DEF Worker
    <3>1. w.tries + 1 \in 0 .. 2 BY <2>2, <3>0
    <3>2. n \in Worker /\ n.of = w.of /\ n.at = w.at /\ n.row = w.row /\ n.st = w.st
      BY <1>2, <3>1 DEF Worker
    <3> QED BY <1>1, <3>2 DEF Typed, InWork
  <2> HIDE DEF n
  <2> QED BY <1>1, <2>1, <2>2, IdleTyped, BecomesTyped
<1>5. CASE Poll
  <2> DEFINE m == [w EXCEPT !.polls = @ + 1]
             n == [w EXCEPT !.listed = TRUE, !.out = {[of |-> e, row |-> <<>>] : e \in report.users}]
             answer == get(Op(k, "report", "get"), TRUE, report.users)
             next == CASE answer.is = "none" -> w
                       [] answer.is = "result" /\ report.is = "running" ->
                            IF w.polls + 1 = 20 THEN Raised ELSE m
                       [] OTHER -> n
  <2>1. ASSUME w.polls + 1 # 20 PROVE Typed(k, m) /\ m.st = w.st
    <3>0. w.polls \in -1 .. 19 BY <1>2 DEF Worker
    <3>1. w.polls + 1 \in -1 .. 19 BY <2>1, <3>0
    <3>2. m \in Worker /\ m.of = w.of /\ m.at = w.at /\ m.row = w.row /\ m.st = w.st
      BY <1>2, <3>1 DEF Worker
    <3> QED BY <1>1, <3>2 DEF Typed, InWork
  <2>2. Typed(k, n) /\ n.st = w.st
    <3> DEFINE out == {[of |-> e, row |-> <<>>] : e \in report.users}
    <3>1. \A e \in Entity : [of |-> e, row |-> <<>>] \in Row BY DEF Row
    <3>2. out \in SUBSET Row BY <3>1 DEF TypeOK
    <3> HIDE DEF out
    <3>3. [w EXCEPT !.listed = TRUE, !.out = out] \in Worker BY <1>2, <3>2 DEF Worker
    <3>4. n = [w EXCEPT !.listed = TRUE, !.out = out] BY DEF out
    <3>5. n \in Worker /\ n.of = w.of /\ n.at = w.at /\ n.row = w.row /\ n.st = w.st
      BY <1>2, <3>3, <3>4 DEF Worker
    <3> QED BY <1>1, <3>5 DEF Typed, InWork
  <2>3. Becomes(k, next) BY <1>5 DEF Poll
  <2> HIDE DEF m, n, answer
  <2>4. Typed(k, next) /\ (next.st = "running" => w.st = "running")
    BY <1>1, <2>1, <2>2, IdleTyped
  <2> HIDE DEF next
  <2> QED BY <1>1, <2>3, <2>4, BecomesTyped
<1> QED BY <1>3, <1>4, <1>5

\* A function starts in a free process.
LEMMA StartTyped ==
  ASSUME TypeOK, NEW k \in DOMAIN worker, Start(k)
  PROVE  TypeOK'
<1> DEFINE w == worker[k]
           n == [w EXCEPT !.st = "running"]
<1>1. Typed(k, w) /\ Becomes(k, n) /\ Cardinality(Active) < Slots
  BY DEF Start, TypeOK, Typed, Active
<1>2. Typed(k, n)
  <2>1. n \in Worker /\ n.of = w.of /\ n.at = w.at /\ n.row = w.row
    BY <1>1 DEF Typed, Worker
  <2> QED BY <1>1, <2>1 DEF Typed, InWork
<1> HIDE DEF n
<1>3. worker' = [worker EXCEPT ![k] = n] BY <1>1 DEF Becomes
<1>4. Cardinality(Active') <= Slots
  <2>1. Active' \subseteq Active \cup {k} BY <1>3 DEF Active
  <2>2. IsFiniteSet(Active) /\ Cardinality(Active) \in Nat BY ActiveFinite DEF TypeOK
  <2>3. /\ IsFiniteSet(Active \cup {k}) /\ Cardinality(Active \cup {k}) <= Cardinality(Active) + 1
    <3>1. /\ IsFiniteSet(Active \cup {k})
          /\ \/ Cardinality(Active \cup {k}) = Cardinality(Active)
             \/ Cardinality(Active \cup {k}) = Cardinality(Active) + 1
      BY <2>2, FS_AddElement, Zenon
    <3> QED BY <2>2, <3>1
  <2>4. IsFiniteSet(Active') /\ Cardinality(Active') <= Cardinality(Active \cup {k})
    BY <2>1, <2>3, FS_Subset
  <2>5. Cardinality(Active') \in Nat /\ Cardinality(Active \cup {k}) \in Nat
    BY <2>3, <2>4, FS_CardinalityType
  <2> QED BY <1>1, <2>2, <2>3, <2>4, <2>5, IamAssumption
<1> QED BY <1>1, <1>2, <1>3, <1>4, TypeStays DEF TypeOK, Becomes, cloud, Typed

LEMMA DriftTyped ==
  ASSUME TypeOK, IamInv, Drift
  PROVE  TypeOK'
<1>1. drifts' \in 0 .. MaxDrifts BY IamAssumption DEF Drift, TypeOK
<1>2. PICK e \in Entity :
        /\ aws[e] # NULL
        /\ \/ aws' = [aws EXCEPT ![e] = NULL] /\ held' = held
           \/ \E f \in FacetsOf(e), v \in Listing :
                /\ aws' = [aws EXCEPT ![e][f] = v]
                /\ held' = [held EXCEPT ![e][f] = @ \cup {v}]
  BY DEF Drift
<1>3. DOMAIN aws = Entity /\ DOMAIN held = Entity BY DEF IamInv, CloudOK
<1>4. /\ \A x \in Entity : aws'[x] \in Facets[x] \cup {NULL}
      /\ \A x \in Entity : held'[x] \in [FacetsOf(x) -> SUBSET Listing]
  <2>1. CASE aws' = [aws EXCEPT ![e] = NULL] /\ held' = held BY <1>3, <2>1 DEF TypeOK
  <2>2. ASSUME NEW f \in FacetsOf(e), NEW v \in Listing,
               aws' = [aws EXCEPT ![e][f] = v], held' = [held EXCEPT ![e][f] = @ \cup {v}]
        PROVE  <1>4!1 /\ <1>4!2
    <3>1. aws[e] \in [FacetsOf(e) -> Listing] /\ Facets[e] = [FacetsOf(e) -> Listing]
      BY <1>2 DEF TypeOK, Facets
    <3>2. aws'[e] = [aws[e] EXCEPT ![f] = v] /\ held'[e] = [held[e] EXCEPT ![f] = @ \cup {v}]
      BY <1>3, <2>2
    <3>3. aws'[e] \in Facets[e] BY <3>1, <3>2
    <3>4. held'[e] \in [FacetsOf(e) -> SUBSET Listing] BY <3>2 DEF TypeOK
    <3>5. \A x \in Entity \ {e} : aws'[x] = aws[x] /\ held'[x] = held[x] BY <1>3, <2>2
    <3> QED BY <3>3, <3>4, <3>5 DEF TypeOK
  <2> QED BY <1>2, <2>1, <2>2
<1>5. UNCHANGED <<report, refused, worker, job>> BY DEF Drift
<1> QED BY <1>1, <1>4, <1>5 DEF TypeOK

LEMMA PoolTyped ==
  ASSUME TypeOK, PoolBreaks
  PROVE  TypeOK'
<1>1. /\ UNCHANGED <<aws, held, drifts, refused, report, job>> /\ DOMAIN worker' = DOMAIN worker
      /\ \A k \in DOMAIN worker : worker'[k] = Raised \/ worker'[k] = worker[k]
  BY DEF PoolBreaks, cloud
<1>2. \A k \in DOMAIN worker : Typed(k, worker'[k]) BY <1>1, IdleTyped DEF TypeOK, Typed
<1>3. Raised.st = "raised" BY DEF Raised, Queued
<1>4. Active' \subseteq Active BY <1>1, <1>3 DEF Active
<1>5. Cardinality(Active') <= Slots
  <2>1. IsFiniteSet(Active) /\ Cardinality(Active) <= Slots BY ActiveFinite DEF TypeOK, Active
  <2>2. Cardinality(Active') <= Cardinality(Active) /\ IsFiniteSet(Active') BY <1>4, <2>1, FS_Subset
  <2> QED BY <2>1, <2>2, ActiveFinite, FS_CardinalityType, IamAssumption DEF TypeOK
<1> QED BY <1>1, <1>2, <1>5, TypeStays DEF TypeOK

LEMMA TypeStep == TypeOK /\ IamInv /\ [Next]_vars => TypeOK'
<1> SUFFICES ASSUME TypeOK, IamInv, [Next]_vars PROVE TypeOK'
  OBVIOUS
<1>1. CASE UNCHANGED vars BY <1>1 DEF vars, TypeOK, InWork
<1>2. ASSUME NEW k \in Function, Start(k) PROVE TypeOK'
  BY <1>2, StartTyped DEF Start
<1>3. ASSUME NEW k \in Function, ListAll(k) PROVE TypeOK'
  BY <1>3, ListAllTyped DEF ListAll, Running
<1>4. ASSUME NEW k \in Function, NextRow(k) PROVE TypeOK'
  BY <1>4, NextRowTyped DEF NextRow, Running
<1>5. ASSUME NEW k \in Function, MakeCall(k) PROVE TypeOK'
  BY <1>5, MakeCallTyped DEF MakeCall, Calling, Running
<1>6. ASSUME NEW k \in Function, GetOne(k) PROVE TypeOK'
  BY <1>6, GetOneTyped DEF GetOne, Getting, Running
<1>7. ASSUME NEW k \in Function, GotAll(k) PROVE TypeOK'
  BY <1>7, GotAllTyped DEF GotAll, Getting, Running
<1>8. ASSUME NEW k \in Function, WriteRow(k) PROVE TypeOK'
  BY <1>8, WriteRowTyped DEF WriteRow, Running
<1>9. ASSUME NEW k \in Function, Commit(k) PROVE TypeOK'
  <2> DEFINE w == worker[k]
             n == [w EXCEPT !.st = "committed"]
  <2>1. k \in DOMAIN worker /\ Typed(k, w) /\ Becomes(k, n)
    BY <1>9 DEF Commit, Running, TypeOK, Typed
  <2>2. n \in Worker /\ n.of = w.of /\ n.at = w.at /\ n.row = w.row /\ n.st = "committed"
    BY <2>1 DEF Typed, Worker
  <2> HIDE DEF n
  <2>3. Typed(k, n) BY <2>1, <2>2 DEF Typed, InWork
  <2> QED BY <2>1, <2>2, <2>3, BecomesTyped
<1>10. ASSUME NEW k \in Function, Throttled(k) PROVE TypeOK'
  <2> DEFINE w == worker[k]
             n == [w EXCEPT !.retried = TRUE]
  <2>1. k \in DOMAIN worker /\ Typed(k, w) /\ w.st = "running"
        /\ Becomes(k, IF w.retried THEN Raised ELSE n)
    BY <1>10 DEF Throttled, Running, TypeOK, Typed
  <2>2. n \in Worker /\ n.of = w.of /\ n.at = w.at /\ n.row = w.row
    BY <2>1 DEF Typed, Worker
  <2> HIDE DEF n
  <2>3. Typed(k, n) BY <2>1, <2>2 DEF Typed, InWork
  <2> QED BY <2>1, <2>3, IdleTyped, BecomesTyped
<1>11. ASSUME NEW k \in Function, Raises(k) PROVE TypeOK'
  BY <1>11, IdleTyped, BecomesTyped DEF Raises, Running
<1>12. CASE Generate \/ GenerateFails \/ Poll BY <1>12, ReportTyped
<1>13. CASE FinishReport
  BY <1>13 DEF FinishReport, cloud, Users, TypeOK, InWork
<1>14. CASE EndFetch
  BY <1>14 DEF EndFetch, cloud, TypeOK, InWork
<1>15. CASE Drift BY <1>15, DriftTyped
<1>16. CASE PoolBreaks BY <1>16, PoolTyped
<1> QED
  BY <1>1, <1>2, <1>3, <1>4, <1>5, <1>6, <1>7, <1>8, <1>9, <1>10, <1>11, <1>12, <1>13, <1>14, <1>15,
     <1>16
  DEF Next, Step

\* The variables keep their types, the pool never runs more functions than it has
\* processes, and neither loop of the credential report passes its count, for any
\* resources, user attributes, gates, refusals and number of processes.
THEOREM TypeCorrect == Spec => []TypeOK
<1>1. ASSUME Init PROVE TypeOK
  <2>1. PICK selected \in Selections : worker = [k \in selected |-> Queued] BY <1>1 DEF Init
  <2>2. DOMAIN worker \in Selections /\ \A k \in DOMAIN worker : worker[k] \in Worker /\ InWork(k, worker[k])
    BY <2>1, IdleTyped DEF Typed
  <2>3. {k \in DOMAIN worker : worker[k].st = "running"} = {} BY <2>1 DEF Queued
  <2>4. Cardinality({k \in DOMAIN worker : worker[k].st = "running"}) <= Slots
    <3>1. Cardinality({}) = 0 BY FS_EmptySet
    <3>2. Slots \in Nat \ {0} BY IamAssumption
    <3> QED BY <2>3, <3>1, <3>2
  <2>5. \A e \in Entity : aws[e] \in Facets[e] BY <1>1, IamAssumption DEF Init, Facets
  <2>6. \A e \in Entity : held[e] \in [FacetsOf(e) -> SUBSET Listing]
    BY <1>1, IamAssumption DEF Init
  <2>7. /\ drifts \in 0 .. MaxDrifts /\ refused \in Refusals /\ job = "fetching"
        /\ report \in [is : {"none", "running", "ready"}, users : SUBSET Entity]
    BY <1>1, IamAssumption DEF Init
  <2> QED BY <2>2, <2>4, <2>5, <2>6, <2>7 DEF TypeOK
<1> QED BY <1>1, IamStarts, IamStep, TypeStep, PTL DEF Spec
==================================================================================
