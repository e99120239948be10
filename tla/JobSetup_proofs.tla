----------------------------- MODULE JobSetup_proofs -----------------------------
(***************************************************************************)
(* How a job comes to be, for any accounts, any organization whose units   *)
(* are a tree, and any number of commands.                                 *)
(***************************************************************************)
EXTENDS JobSetup, FiniteSetTheorems, SequenceTheorems, TLAPS

---------------------------------------------------------------------------------
(***************************************************************************)
(* Sequences and ids.                                                      *)
(***************************************************************************)
\* SetToSeq lists a finite set, each element once.
LEMMA SetListed ==
  ASSUME NEW S, IsFiniteSet(S)
  PROVE  /\ SetToSeq(S) \in Seq(S) /\ DOMAIN SetToSeq(S) = 1 .. Len(SetToSeq(S))
         /\ \A i, j \in DOMAIN SetToSeq(S) : SetToSeq(S)[i] = SetToSeq(S)[j] => i = j
         /\ \A x \in S : \E i \in DOMAIN SetToSeq(S) : SetToSeq(S)[i] = x
<1> DEFINE n == Cardinality(S)
<1>1. n \in Nat /\ ExistsBijection(1 .. n, S) BY FS_CardinalityType
<1>2. PICK f : f \in Bijection(1 .. n, S) BY <1>1 DEF ExistsBijection
<1>3. f \in [1 .. n -> S] /\ IsInjective(f) BY <1>2 DEF Bijection, Injection
<1>4. SetToSeq(S) \in [1 .. n -> S] /\ IsInjective(SetToSeq(S)) BY <1>3 DEF SetToSeq
<1>5. SetToSeq(S) \in Injection(1 .. n, S) BY <1>4 DEF Injection
<1>6. Cardinality(1 .. n) = n BY <1>1, FS_Interval
<1>7. SetToSeq(S) \in Surjection(1 .. n, S) BY <1>5, <1>6, FS_Injection
<1>8. SetToSeq(S) \in Seq(S) /\ DOMAIN SetToSeq(S) = 1 .. n /\ Len(SetToSeq(S)) = n
  <2> HIDE DEF n
  <2> QED BY <1>1, <1>4
<1> QED BY <1>4, <1>7, <1>8 DEF IsInjective, Surjection

\* build_graph puts the units it found in front of what is left to read.
LEMMA QueueStep ==
  ASSUME NEW T, NEW td \in Seq(T), td # <<>>,
         \A i, j \in DOMAIN td : td[i] = td[j] => i = j,
         NEW N \in SUBSET T, IsFiniteSet(N), N \cap ToSet(td) = {}
  PROVE  LET n == SetToSeq(N) \o Tail(td)
         IN /\ n \in Seq(T)
            /\ \A i, j \in DOMAIN n : n[i] = n[j] => i = j
            /\ ToSet(n) = N \cup (ToSet(td) \ {Head(td)})
            /\ Head(td) \in ToSet(td)
<1> DEFINE s == SetToSeq(N)
           t == Tail(td)
           n == s \o t
<1>1. /\ s \in Seq(N) /\ DOMAIN s = 1 .. Len(s)
      /\ \A i, j \in DOMAIN s : s[i] = s[j] => i = j
      /\ \A x \in N : \E i \in DOMAIN s : s[i] = x
  BY SetListed
<1>2. s \in Seq(T) /\ Len(s) \in Nat
  <2> HIDE DEF s
  <2> QED BY <1>1, SeqMonotonic
<1>3. /\ t \in Seq(T) /\ Len(t) = Len(td) - 1 /\ Len(td) \in Nat \ {0}
      /\ \A i \in 1 .. Len(t) : t[i] = td[i + 1]
      /\ DOMAIN td = 1 .. Len(td) /\ DOMAIN t = 1 .. Len(t)
      /\ Head(td) = td[1]
  BY HeadTailProperties, EmptySeq, LenProperties
<1> HIDE DEF s, t
<1>4. /\ n \in Seq(T) /\ Len(n) = Len(s) + Len(t) /\ DOMAIN n = 1 .. Len(s) + Len(t)
      /\ \A i \in 1 .. Len(s) + Len(t) : n[i] = IF i <= Len(s) THEN s[i] ELSE t[i - Len(s)]
  <2>1. /\ n \in Seq(T) /\ Len(n) = Len(s) + Len(t)
        /\ \A i \in 1 .. Len(s) + Len(t) : n[i] = IF i <= Len(s) THEN s[i] ELSE t[i - Len(s)]
    <3>1. s \in Seq(T) /\ t \in Seq(T) BY <1>2, <1>3
    <3>2. /\ s \o t \in Seq(T) /\ Len(s \o t) = Len(s) + Len(t)
          /\ \A i \in 1 .. Len(s) + Len(t) : (s \o t)[i] = IF i <= Len(s) THEN s[i] ELSE t[i - Len(s)]
      BY <3>1, ConcatProperties, Zenon
    <3> QED BY <3>2, Zenon
  <2> HIDE DEF n
  <2>2. DOMAIN n = 1 .. Len(n) BY <2>1, LenProperties
  <2> QED BY <2>1, <2>2
<1> HIDE DEF n
<1>5. \A i \in DOMAIN n : \/ i \in DOMAIN s /\ n[i] = s[i] /\ n[i] \in N
                          \/ /\ i - Len(s) \in DOMAIN t /\ i - Len(s) + 1 \in DOMAIN td
                             /\ i - Len(s) + 1 # 1
                             /\ n[i] = td[i - Len(s) + 1] /\ n[i] \in ToSet(td)
  <2>1. TAKE i \in DOMAIN n
  <2>2. i \in Nat /\ i >= 1 /\ i <= Len(s) + Len(t) /\ Len(t) \in Nat BY <1>2, <1>3, <1>4
  <2>3. CASE i <= Len(s)
    <3>1. i \in DOMAIN s BY <1>1, <1>2, <2>2, <2>3
    <3>2. n[i] = s[i] BY <1>4, <2>3
    <3>3. s[i] \in N BY <1>1, <3>1, ElementOfSeq
    <3> QED BY <3>1, <3>2, <3>3
  <2>4. CASE ~(i <= Len(s))
    <3>1. i - Len(s) \in DOMAIN t /\ i - Len(s) + 1 \in DOMAIN td /\ i - Len(s) + 1 # 1
      BY <1>2, <1>3, <2>2, <2>4
    <3>2. n[i] = t[i - Len(s)] BY <1>4, <2>4
    <3>3. n[i] = td[i - Len(s) + 1] BY <1>3, <3>1, <3>2
    <3>4. n[i] \in ToSet(td) BY <3>1, <3>3 DEF ToSet
    <3> QED BY <3>1, <3>3, <3>4
  <2> QED BY <2>3, <2>4
<1>6. ASSUME NEW i \in DOMAIN n, NEW j \in DOMAIN n, n[i] = n[j] PROVE i = j
  <2>1. i \in Nat /\ j \in Nat BY <1>4
  <2>2. CASE i \in DOMAIN s /\ n[i] = s[i] /\ n[i] \in N
    <3>1. n[j] \notin ToSet(td) BY <1>6, <2>2
    <3>2. j \in DOMAIN s /\ n[j] = s[j] BY <1>5, <3>1
    <3> QED BY <1>1, <1>6, <2>2, <3>2
  <2>3. CASE i - Len(s) + 1 \in DOMAIN td /\ n[i] = td[i - Len(s) + 1] /\ n[i] \in ToSet(td)
    <3>1. n[j] \notin N BY <1>6, <2>3
    <3>2. j - Len(s) + 1 \in DOMAIN td /\ n[j] = td[j - Len(s) + 1] BY <1>5, <3>1
    <3>3. i - Len(s) + 1 = j - Len(s) + 1 BY <1>6, <2>3, <3>2
    <3> QED BY <1>2, <2>1, <3>3
  <2> QED BY <1>5, <2>2, <2>3
<1>7. ToSet(n) = N \cup (ToSet(td) \ {Head(td)})
  <2>1. ASSUME NEW i \in DOMAIN n PROVE n[i] \in N \cup (ToSet(td) \ {Head(td)})
    <3>1. CASE n[i] \in N BY <3>1
    <3>2. CASE /\ i - Len(s) + 1 \in DOMAIN td /\ i - Len(s) + 1 # 1
               /\ n[i] = td[i - Len(s) + 1] /\ n[i] \in ToSet(td)
      <4>1. 1 \in DOMAIN td BY <1>3
      <4>2. n[i] # Head(td) BY <1>3, <3>2, <4>1
      <4> QED BY <3>2, <4>2
    <3> QED BY <1>5, <3>1, <3>2
  <2>2. ASSUME NEW x \in N PROVE \E i \in DOMAIN n : n[i] = x
    <3>1. PICK i \in DOMAIN s : s[i] = x BY <1>1
    <3>2. i \in DOMAIN n /\ i <= Len(s) BY <1>1, <1>2, <1>3, <1>4, <3>1
    <3> QED BY <1>4, <3>1, <3>2
  <2>3. ASSUME NEW x \in ToSet(td), x # Head(td) PROVE \E i \in DOMAIN n : n[i] = x
    <3>1. PICK k \in DOMAIN td : td[k] = x BY DEF ToSet
    <3>2. k # 1 /\ k \in Nat BY <1>3, <2>3, <3>1
    <3>3. k - 1 \in 1 .. Len(t) BY <1>3, <3>1, <3>2
    <3>4. t[k - 1] = x BY <1>3, <3>1, <3>3
    <3> DEFINE i == k - 1 + Len(s)
    <3>5. i \in 1 .. Len(s) + Len(t) /\ ~(i <= Len(s)) /\ i - Len(s) = k - 1
      BY <1>2, <1>3, <3>3
    <3>6. i \in DOMAIN n /\ n[i] = x BY <1>4, <3>4, <3>5
    <3> QED BY <3>6
  <2> QED BY <2>1, <2>2, <2>3 DEF ToSet
<1>8. Head(td) \in ToSet(td) BY <1>3 DEF ToSet
<1> QED BY <1>4, <1>6, <1>7, <1>8 DEF n, s, t

\* A sequence value that no open or committed provider has.
LEMMA NextIdFresh ==
  ASSUME IsFiniteSet(InUse)
  PROVE  NextId \in Nat /\ NextId \notin InUse
<1> DEFINE n == Cardinality(InUse)
<1>1. n \in Nat BY FS_CardinalityType
<1>2. IsFiniteSet(0 .. n) /\ Cardinality(0 .. n) = n + 1
  <2> HIDE DEF n
  <2> QED BY <1>1, FS_Interval
<1>3. \E k \in 0 .. n : k \notin InUse
  <2>1. SUFFICES ASSUME 0 .. n \in SUBSET InUse PROVE FALSE
    OBVIOUS
  <2>2. Cardinality(0 .. n) <= n
    <3> HIDE DEF InUse
    <3> QED BY <2>1, FS_Subset
  <2> QED BY <1>1, <1>2, <2>2
<1> QED BY <1>1, <1>3 DEF NextId
---------------------------------------------------------------------------------
(***************************************************************************)
(* The paths of the organization: every unit has one, from the root.       *)
(***************************************************************************)
IsPath(p) == /\ p \in Seq(Unit) /\ p # <<>> /\ p[1] = Root
             /\ \A i \in 2 .. Len(p) : p[i] # Root /\ ParentUnit[p[i]] = p[i - 1]

\* A path without its last unit is the path of the unit above.
LEMMA PathAbove ==
  ASSUME NEW p, IsPath(p), Len(p) > 1
  PROVE  /\ IsPath(Front(p)) /\ Len(Front(p)) = Len(p) - 1
         /\ \A i \in 1 .. Len(p) - 1 : Front(p)[i] = p[i]
         /\ Last(p) \in Unit \ {Root} /\ Last(Front(p)) = ParentUnit[Last(p)]
         /\ Last(p) \in Children(Last(Front(p)))
         /\ p = Append(Front(p), Last(p))
<1>1. p \in Seq(Unit) /\ Len(p) \in Nat /\ \A i \in 1 .. Len(p) : p[i] \in Unit
  BY LenProperties, ElementOfSeq DEF IsPath
<1> DEFINE f == Front(p)
<1>2. /\ f \in Seq(Unit) /\ Len(f) = Len(p) - 1
      /\ \A i \in 1 .. Len(p) - 1 : f[i] = p[i]
  <2>1. \A i \in 1 .. Len(p) - 1 : p[i] \in Unit BY <1>1
  <2>2. Len(p) - 1 \in Int /\ 1 <= Len(p) - 1 BY <1>1
  <2>3. /\ SubSeq(p, 1, Len(p) - 1) \in Seq(Unit)
        /\ Len(SubSeq(p, 1, Len(p) - 1)) = Len(p) - 1 - 1 + 1
        /\ \A i \in 1 .. Len(p) - 1 - 1 + 1 : SubSeq(p, 1, Len(p) - 1)[i] = p[1 + i - 1]
    BY <2>1, <2>2, SubSeqProperties
  <2> QED BY <1>1, <2>2, <2>3 DEF Front
<1>3. Last(p) \in Unit \ {Root} /\ ParentUnit[Last(p)] = p[Len(p) - 1]
  BY <1>1 DEF IsPath, Last
<1> HIDE DEF f
<1>4. IsPath(f) /\ Last(f) = p[Len(p) - 1]
  <2>1. f # <<>> BY <1>1, <1>2
  <2>2. f[1] = Root BY <1>1, <1>2 DEF IsPath
  <2>3. ASSUME NEW i \in 2 .. Len(f) PROVE f[i] # Root /\ ParentUnit[f[i]] = f[i - 1]
    <3>1. i \in 2 .. Len(p) /\ i \in 1 .. Len(p) - 1 /\ i - 1 \in 1 .. Len(p) - 1 BY <1>1, <1>2
    <3> QED BY <1>2, <3>1 DEF IsPath
  <2> QED BY <1>1, <1>2, <2>1, <2>2, <2>3 DEF IsPath, Last
<1>5. p = Append(f, Last(p))
  <2>1. /\ Append(f, Last(p)) \in Seq(Unit) /\ Len(Append(f, Last(p))) = Len(p)
        /\ \A i \in 1 .. Len(p) : Append(f, Last(p))[i] = IF i < Len(p) THEN f[i] ELSE Last(p)
    BY <1>1, <1>2, <1>3
  <2>2. \A i \in 1 .. Len(p) : Append(f, Last(p))[i] = p[i] BY <1>1, <1>2, <2>1 DEF Last
  <2> QED BY <1>1, <2>1, <2>2, SeqEqual
<1> QED BY <1>2, <1>3, <1>4, <1>5 DEF f, Children

\* A path and a unit of its last unit are a path.
LEMMA PathBelow ==
  ASSUME NEW p, IsPath(p), NEW u \in Children(Last(p))
  PROVE  /\ IsPath(Append(p, u)) /\ Len(Append(p, u)) = Len(p) + 1 /\ Len(p) \in Nat \ {0}
         /\ Last(Append(p, u)) = u /\ Front(Append(p, u)) = p
<1> DEFINE q == Append(p, u)
<1>1. p \in Seq(Unit) /\ Len(p) \in Nat \ {0} /\ u \in Unit \ {Root} /\ ParentUnit[u] = Last(p)
  BY LenProperties, EmptySeq DEF IsPath, Children
<1>2. /\ q \in Seq(Unit) /\ Len(q) = Len(p) + 1
      /\ \A i \in 1 .. Len(p) + 1 : q[i] = IF i <= Len(p) THEN p[i] ELSE u
  BY <1>1
<1> HIDE DEF q
<1>3. IsPath(q)
  <2>1. q # <<>> /\ q[1] = Root BY <1>1, <1>2 DEF IsPath
  <2>2. ASSUME NEW i \in 2 .. Len(q) PROVE q[i] # Root /\ ParentUnit[q[i]] = q[i - 1]
    <3>1. CASE i <= Len(p)
      <4>1. i \in 2 .. Len(p) /\ q[i] = p[i] /\ q[i - 1] = p[i - 1] BY <1>1, <1>2, <3>1
      <4> QED BY <4>1 DEF IsPath
    <3>2. CASE ~(i <= Len(p))
      <4>1. i = Len(p) + 1 /\ i - 1 = Len(p) BY <1>1, <1>2, <3>2
      <4> QED BY <1>1, <1>2, <4>1 DEF Last
    <3> QED BY <3>1, <3>2
  <2> QED BY <1>2, <2>1, <2>2 DEF IsPath
<1>4. Last(q) = u BY <1>1, <1>2 DEF Last
<1>5. Front(q) = p
  <2>1. Len(q) > 1 BY <1>1, <1>2
  <2>2. IsPath(Front(q)) /\ Len(Front(q)) = Len(p) /\ \A i \in 1 .. Len(p) : Front(q)[i] = p[i]
    BY <1>1, <1>2, <1>3, <2>1, PathAbove
  <2>3. Front(q) \in Seq(Unit) BY <2>2 DEF IsPath
  <2> QED BY <1>1, <2>2, <2>3, SeqEqual
<1> QED BY <1>1, <1>2, <1>3, <1>4, <1>5 DEF q

\* No unit has two paths: the units with one are closed under going down.
LEMMA PathUnique ==
  ASSUME NEW p, IsPath(p), NEW q, IsPath(q), Last(p) = Last(q)
  PROVE  p = q
<1> DEFINE One(u) == \A a \in Seq(Unit) : \A b \in Seq(Unit) :
                       IsPath(a) /\ IsPath(b) /\ Last(a) = u /\ Last(b) = u => a = b
           S == {u \in Unit : One(u)}
<1>0. \A a \in Seq(Unit) : IsPath(a) => /\ Len(a) \in Nat \ {0} /\ Last(a) \in Unit
                                        /\ Last(a) = Root => Len(a) = 1 /\ a[1] = Root
                                        /\ Last(a) # Root => Len(a) > 1
  <2>1. SUFFICES ASSUME NEW a \in Seq(Unit), IsPath(a)
                 PROVE  /\ Len(a) \in Nat \ {0} /\ Last(a) \in Unit
                        /\ Last(a) = Root => Len(a) = 1 /\ a[1] = Root
                        /\ Last(a) # Root => Len(a) > 1
    OBVIOUS
  <2>2. Len(a) \in Nat \ {0} BY <2>1, EmptySeq DEF IsPath
  <2>3. Last(a) \in Unit BY <2>2 DEF Last
  <2>4. CASE Len(a) = 1 BY <2>1, <2>2, <2>3, <2>4 DEF IsPath, Last
  <2>5. CASE Len(a) > 1
    <3>1. Len(a) \in 2 .. Len(a) BY <2>2, <2>5
    <3>2. Last(a) # Root BY <2>1, <3>1 DEF IsPath, Last
    <3> QED BY <2>2, <2>3, <2>5, <3>2
  <2>6. Len(a) = 1 \/ Len(a) > 1 BY <2>2
  <2> QED BY <2>4, <2>5, <2>6
<1>1. Root \in S
  <2>1. Root \in Unit BY SetupAssumption
  <2>2. ASSUME NEW a \in Seq(Unit), NEW b \in Seq(Unit), IsPath(a), IsPath(b), Last(a) = Root, Last(b) = Root
        PROVE  a = b
    <3>1. Len(a) = 1 /\ Len(b) = 1 /\ a[1] = b[1] BY <1>0, <2>2
    <3>2. \A i \in 1 .. Len(a) : a[i] = b[i] BY <3>1
    <3> QED BY <3>1, <3>2, SeqEqual
  <2> QED BY <2>1, <2>2
<1>2. ASSUME NEW u \in Unit \ {Root}, ParentUnit[u] \in S PROVE u \in S
  <2>1. ASSUME NEW a \in Seq(Unit), NEW b \in Seq(Unit), IsPath(a), IsPath(b), Last(a) = u, Last(b) = u
        PROVE  a = b
    <3>1. Len(a) > 1 /\ Len(b) > 1 BY <1>0, <2>1
    <3>2. /\ IsPath(Front(a)) /\ Last(Front(a)) = ParentUnit[u] /\ a = Append(Front(a), u)
          /\ IsPath(Front(b)) /\ Last(Front(b)) = ParentUnit[u] /\ b = Append(Front(b), u)
      BY <2>1, <3>1, PathAbove
    <3>3. Front(a) \in Seq(Unit) /\ Front(b) \in Seq(Unit) BY <3>2 DEF IsPath
    <3>4. Front(a) = Front(b) BY <1>2, <3>2, <3>3
    <3> QED BY <3>2, <3>4
  <2> QED BY <2>1
<1>3. S = Unit
  <2>1. S \in SUBSET Unit OBVIOUS
  <2> HIDE DEF S
  <2> QED BY <1>1, <1>2, <2>1, OrganizationAssumption
<1>4. p \in Seq(Unit) /\ q \in Seq(Unit) BY DEF IsPath
<1>5. Last(p) \in Unit BY <1>0, <1>4
<1>6. One(Last(p)) BY <1>3, <1>5
<1> QED BY <1>4, <1>6
---------------------------------------------------------------------------------
(***************************************************************************)
(* Types.                                                                  *)
(***************************************************************************)
Phases == {"idle", "lookup", "confirm", "roots", "graph", "save", "import"}
Node == Unit \cup {"r-dummy"}
Found == Seq(Node) \X Acct
Rows == [providers : SUBSET Provider, credentials : SUBSET CredentialRow]
Graphs == [accounts : SUBSET Found, organizational_units : SUBSET (Seq(Node) \X Node)]
Calls == [caller : Acct \cup {None}, external : ExternalId \cup {None}]

CmdTyped(c) ==
  /\ phase[c] \in {"idle", "import"} => added[c] = NoRows
  /\ phase[c] # "idle" => caller(c) \in CallerOf[c]
  /\ phase[c] \in {"roots", "graph", "save", "import"} => provider[c] \in Nat

RowsTyped == providers \subseteq Provider /\ credentials \subseteq CredentialRow
SetupTyped ==
  /\ home \in [Member -> Unit] /\ RowsTyped
  /\ phase \in [Command -> Phases] /\ call \in [Command -> Calls]
  /\ provider \in [Command -> Nat \cup {None}] /\ added \in [Command -> Rows]
  /\ todo \in [Command -> Seq(Seq(Unit))]
  /\ graph \in [Command -> Graphs] /\ paths \in [Command -> SUBSET Found]
  /\ moved \in [Command -> SUBSET Member]
  /\ \A c \in Command : CmdTyped(c)
SetupInv == SetupTyped /\ IsFiniteSet(InUse)

Steps(c) == \/ Call(c) \/ Fail(c) \/ GetProvider(c) \/ CreateProvider(c)
            \/ ReadRoots(c) \/ BuildGraph(c) \/ Save(c)

\* A command that takes no step stays as it is.
Stays(d) == /\ phase'[d] = phase[d] /\ call'[d] = call[d] /\ provider'[d] = provider[d]
            /\ added'[d] = added[d] /\ todo'[d] = todo[d] /\ graph'[d] = graph[d]
            /\ paths'[d] = paths[d] /\ moved'[d] = moved[d]

\* A step of a command is its own: it moves no account, removes no row and
\* leaves the other commands alone.
LEMMA StepIsOwn ==
  ASSUME SetupTyped, NEW c \in Command, Steps(c)
  PROVE  /\ home' = home /\ providers \subseteq providers' /\ credentials \subseteq credentials'
         /\ \A d \in Command : d # c => Stays(d)
<1>0. /\ DOMAIN phase = Command /\ DOMAIN provider = Command /\ DOMAIN added = Command
      /\ DOMAIN todo = Command /\ DOMAIN graph = Command
  BY DEF SetupTyped
<1>1. CASE Call(c) BY <1>1 DEF Call, Stays
<1>2. ASSUME Abandon(c)
      PROVE  /\ home' = home /\ providers \subseteq providers' /\ credentials \subseteq credentials'
             /\ \A d \in Command : d # c => Stays(d)
  BY <1>2 DEF Abandon, Stays
<1>3. CASE Fail(c) BY <1>2, <1>3 DEF Fail
<1>4. CASE GetProvider(c) /\ ~Abandon(c)
  <2>1. added' = added \/ \E x : added' = [added EXCEPT ![c] = [added[c] EXCEPT !.credentials = x]]
    BY <1>4 DEF GetProvider
  <2>2. added' = added \/ \E x : added' = [added EXCEPT ![c] = x] BY <2>1
  <2>3. \A d \in Command : d # c => added'[d] = added[d] BY <1>0, <2>2
  <2>4. /\ \A d \in Command : d # c => phase'[d] = phase[d] /\ provider'[d] = provider[d]
        /\ UNCHANGED <<home, providers, credentials, call, todo, graph, paths, moved>>
    BY <1>0, <1>4 DEF GetProvider
  <2> QED BY <2>3, <2>4 DEF Stays
<1>5. CASE CreateProvider(c) BY <1>5 DEF CreateProvider, Stays
<1>6. CASE ReadRoots(c)
  <2>1. \/ \E x : graph' = [graph EXCEPT ![c] = [graph[c] EXCEPT !.organizational_units = x]]
        \/ \E x : graph' = [graph EXCEPT ![c] = x]
    BY <1>6 DEF ReadRoots
  <2>2. \E x : graph' = [graph EXCEPT ![c] = x] BY <2>1
  <2>3. \A d \in Command : d # c => graph'[d] = graph[d] BY <1>0, <2>2
  <2>4. /\ \A d \in Command : d # c => phase'[d] = phase[d] /\ todo'[d] = todo[d]
        /\ UNCHANGED <<home, providers, credentials, call, provider, added, paths, moved>>
    BY <1>0, <1>6 DEF ReadRoots
  <2> QED BY <2>3, <2>4 DEF Stays
<1>7. CASE BuildGraph(c) BY <1>7 DEF BuildGraph, Stays
<1>8. CASE Save(c) BY <1>8 DEF Save, Stays
<1> QED BY <1>1, <1>2, <1>3, <1>4, <1>5, <1>6, <1>7, <1>8 DEF Steps

\* The provider that GetProvider takes is one that it knows.
LEMMA KnownPicked ==
  ASSUME SetupTyped, NEW c \in Command, Known(c) # {}
  PROVE  LET p == CHOOSE q \in Known(c) : TRUE
         IN /\ p \in providers /\ p \in Provider /\ p.n \in Nat
            /\ p.name = org_id(caller(c))
<1>1. (CHOOSE q \in Known(c) : TRUE) \in Known(c) OBVIOUS
<1> QED BY <1>1 DEF Known, SetupTyped, RowsTyped, Provider

\* What build_graph finds below a path.
LEMMA BelowTyped ==
  ASSUME NEW path \in Seq(Unit), NEW u
  PROVE  LET ous == Children(u)
             found == {Below(path, v) : v \in ous}
         IN ous \subseteq Unit /\ found \in SUBSET Seq(Unit) /\ IsFiniteSet(found)
<1> DEFINE ous == Children(u)
           found == {Below(path, v) : v \in ous}
           f == [v \in ous |-> Below(path, v)]
<1>1. ous \subseteq Unit BY DEF Children
<1>2. IsFiniteSet(ous) BY <1>1, OrganizationAssumption, FS_Subset
<1>3. found \subseteq Seq(Unit) BY <1>1 DEF Below
<1>4. f \in Surjection(ous, found)
  <2> HIDE DEF ous
  <2> QED BY DEF Surjection
<1> HIDE DEF f
<1>5. IsFiniteSet(found) BY <1>2, <1>4, FS_Surjection
<1> QED BY <1>1, <1>3, <1>5

\* Every step of a command keeps it typed.
LEMMA CommandTyped ==
  ASSUME SetupInv, NEW c \in Command, Steps(c)
  PROVE  SetupTyped'
<1> USE DEF SetupInv
<1> DEFINE Own == /\ phase' \in [Command -> Phases] /\ call' \in [Command -> Calls]
                  /\ provider' \in [Command -> Nat \cup {None}] /\ added' \in [Command -> Rows]
                  /\ todo' \in [Command -> Seq(Seq(Unit))]
                  /\ graph' \in [Command -> Graphs] /\ paths' \in [Command -> SUBSET Found]
                  /\ moved' \in [Command -> SUBSET Member]
                  /\ providers' \subseteq Provider /\ credentials' \subseteq CredentialRow
                  /\ CmdTyped(c)'
<1>0. /\ home \in [Member -> Unit] /\ providers \subseteq Provider /\ credentials \subseteq CredentialRow
      /\ phase \in [Command -> Phases] /\ call \in [Command -> Calls]
      /\ provider \in [Command -> Nat \cup {None}] /\ added \in [Command -> Rows]
      /\ todo \in [Command -> Seq(Seq(Unit))]
      /\ graph \in [Command -> Graphs] /\ paths \in [Command -> SUBSET Found]
      /\ moved \in [Command -> SUBSET Member] /\ CmdTyped(c)
      /\ c \in Command
  BY DEF SetupTyped, RowsTyped
<1>00. NoRows \in Rows /\ NoGraph \in Graphs BY DEF NoRows, NoGraph, Rows, Graphs
<1>1. ASSUME Own PROVE SetupTyped'
  <2>1. \A d \in Command : d # c => CmdTyped(d)'
    <3>1. TAKE d \in Command
    <3>2. d # c => Stays(d) BY StepIsOwn
    <3>3. CmdTyped(d) BY DEF SetupTyped
    <3> QED BY <3>2, <3>3 DEF CmdTyped, Stays, caller
  <2>2. home' = home BY StepIsOwn
  <2> QED BY <1>0, <1>1, <2>1, <2>2 DEF SetupTyped, RowsTyped
<1>2. CASE Call(c)
  <2>1. PICK a \in CallerOf[c], e \in ExternalId : call' = [call EXCEPT ![c] = [caller |-> a, external |-> e]]
    BY <1>2 DEF Call
  <2>2. a \in Acct BY <2>1, SetupAssumption
  <2>3. [caller |-> a, external |-> e] \in Calls BY <2>1, <2>2 DEF Calls
  <2>4. call' \in [Command -> Calls] /\ call'[c].caller = a BY <1>0, <2>1, <2>3
  <2>5. phase' = [phase EXCEPT ![c] = "lookup"] /\ "lookup" \in Phases BY <1>2 DEF Call, Phases
  <2>6. CmdTyped(c)' BY <1>0, <2>1, <2>4, <2>5 DEF CmdTyped, caller
  <2> QED BY <1>0, <1>00, <1>1, <1>2, <2>4, <2>5, <2>6 DEF Call
<1>3. ASSUME Abandon(c) PROVE SetupTyped'
  <2>1. "idle" \in Phases /\ <<>> \in Seq(Seq(Unit)) BY DEF Phases
  <2>2. CmdTyped(c)' BY <1>0, <1>3 DEF Abandon, CmdTyped
  <2> QED BY <1>0, <1>00, <1>1, <1>3, <2>1, <2>2 DEF Abandon
<1>4. CASE Fail(c) BY <1>3, <1>4 DEF Fail
<1>5. CASE GetProvider(c) /\ Known(c) = {} /\ ~Abandon(c)
  <2>1. "confirm" \in Phases BY DEF Phases
  <2>2. CmdTyped(c)' BY <1>0, <1>5 DEF GetProvider, CmdTyped, caller
  <2> QED BY <1>0, <1>1, <1>5, <2>1, <2>2 DEF GetProvider
<1>6. CASE GetProvider(c) /\ Known(c) # {} /\ ~Abandon(c)
  <2> DEFINE p == (CHOOSE q \in Known(c) : TRUE).n
             new == NewCredentials(c, p)
  <2>1. /\ phase[c] = "lookup" /\ phase' = [phase EXCEPT ![c] = "roots"]
        /\ provider' = [provider EXCEPT ![c] = p]
        /\ added' = [added EXCEPT ![c].credentials = new]
        /\ UNCHANGED <<home, providers, credentials, call, todo, graph, paths, moved>>
    BY <1>6 DEF GetProvider
  <2>2. p \in Nat BY <1>6, KnownPicked
  <2>3. caller(c) \in Acct BY <1>0, <2>1, SetupAssumption DEF CmdTyped
  <2> HIDE DEF p
  <2>4. new \subseteq CredentialRow
    <3>1. Credential(c, p) \in CredentialRow BY <2>2, <2>3 DEF Credential, CredentialRow
    <3> QED BY <3>1 DEF NewCredentials
  <2> HIDE DEF new
  <2>5. added' \in [Command -> Rows]
    <3>1. \A x \in Rows : [x EXCEPT !.credentials = new] \in Rows BY <2>4 DEF Rows
    <3> QED BY <1>0, <2>1, <3>1
  <2>6. "roots" \in Phases BY DEF Phases
  <2>7. CmdTyped(c)' BY <1>0, <2>1, <2>2 DEF CmdTyped, caller
  <2> QED BY <1>0, <1>1, <2>1, <2>2, <2>5, <2>6, <2>7
<1>7. CASE CreateProvider(c)
  <2> DEFINE row == [n |-> NextId, name |-> org_id(caller(c)), external |-> call[c].external]
             cred == Credential(c, NextId)
  <2>1. /\ phase[c] = "confirm" /\ phase' = [phase EXCEPT ![c] = "roots"]
        /\ provider' = [provider EXCEPT ![c] = NextId]
        /\ added' = [added EXCEPT ![c] = [providers |-> {row}, credentials |-> {cred}]]
        /\ UNCHANGED <<home, providers, credentials, call, todo, graph, paths, moved>>
    BY <1>7 DEF CreateProvider
  <2>2. NextId \in Nat BY NextIdFresh
  <2>3. caller(c) \in Acct BY <1>0, <2>1, SetupAssumption DEF CmdTyped
  <2>4. row \in Provider
    <3>1. call[c].external \in ExternalId \cup {None} BY <1>0 DEF Calls
    <3> QED BY <2>2, <2>3, <3>1 DEF Provider, org_id
  <2>5. cred \in CredentialRow BY <2>2, <2>3 DEF Credential, CredentialRow
  <2> HIDE DEF row, cred
  <2>6. added' \in [Command -> Rows] BY <1>0, <2>1, <2>4, <2>5 DEF Rows
  <2>7. "roots" \in Phases BY DEF Phases
  <2>8. CmdTyped(c)' BY <1>0, <2>1, <2>2 DEF CmdTyped, caller
  <2> QED BY <1>0, <1>1, <2>1, <2>2, <2>6, <2>7, <2>8
<1>8. CASE ReadRoots(c)
  <2>1. caller(c) \in Acct BY <1>0, <1>8, SetupAssumption DEF CmdTyped, ReadRoots
  <2>2. CmdTyped(c)' BY <1>0, <1>8 DEF ReadRoots, CmdTyped, caller
  <2>3. "graph" \in Phases /\ "save" \in Phases BY DEF Phases
  <2>4. Root \in Unit /\ <<<<Root>>>> \in Seq(Seq(Unit)) BY SetupAssumption
  <2>5. SmallGraph(caller(c)) \in Graphs
    <3>1. <<"r-dummy">> \in Seq(Node) /\ <<>> \in Seq(Node) /\ "r-dummy" \in Node
      BY EmptySeq DEF Node
    <3>2. <<<<"r-dummy">>, caller(c)>> \in Found /\ <<<<>>, "r-dummy">> \in Seq(Node) \X Node
      BY <2>1, <3>1 DEF Found
    <3> QED BY <3>2 DEF SmallGraph, Graphs
  <2>6. ASSUME graph' = [graph EXCEPT ![c].organizational_units = {<<<<>>, Root>>}]
        PROVE  graph' \in [Command -> Graphs]
    <3>1. <<<<>>, Root>> \in Seq(Node) \X Node
      <4>1. <<>> \in Seq(Node) /\ Root \in Node BY <2>4, EmptySeq DEF Node
      <4> QED BY <4>1
    <3>2. \A x \in Graphs : [x EXCEPT !.organizational_units = {<<<<>>, Root>>}] \in Graphs
      BY <3>1 DEF Graphs
    <3> QED BY <1>0, <2>6, <3>2
  <2>7. phase' \in [Command -> Phases] /\ todo' \in [Command -> Seq(Seq(Unit))]
    BY <1>0, <1>8, <2>3, <2>4 DEF ReadRoots
  <2>8. graph' \in [Command -> Graphs] BY <1>0, <1>8, <2>5, <2>6 DEF ReadRoots
  <2> QED BY <1>0, <1>1, <1>8, <2>2, <2>7, <2>8 DEF ReadRoots
<1>9. CASE BuildGraph(c)
  <2> DEFINE path == Head(todo[c])
             ous == Children(Last(path))
             acc == {<<path, a>> : a \in {b \in Member : home[b] = Last(path)}}
             found == {Below(path, u) : u \in ous}
             g == [accounts |-> graph[c].accounts \cup acc,
                   organizational_units |-> graph[c].organizational_units \cup {<<path, u>> : u \in ous}]
             td == SetToSeq(found) \o Tail(todo[c])
  <2>1. /\ phase[c] = "graph" /\ todo[c] # <<>>
        /\ graph' = [graph EXCEPT ![c] = g] /\ todo' = [todo EXCEPT ![c] = td]
        /\ phase' = IF todo'[c] = <<>> THEN [phase EXCEPT ![c] = "save"] ELSE phase
        /\ UNCHANGED <<home, providers, credentials, call, provider, added, paths, moved>>
    BY <1>0, <1>9 DEF BuildGraph
  <2>2. todo[c] \in Seq(Seq(Unit)) /\ path \in Seq(Unit) /\ Tail(todo[c]) \in Seq(Seq(Unit))
    BY <1>0, <2>1, HeadTailProperties
  <2>3. ous \subseteq Unit BY DEF Children
  <2>4. found \in SUBSET Seq(Unit) /\ IsFiniteSet(found) BY <2>2, BelowTyped
  <2>6. td \in Seq(Seq(Unit))
    <3>1. SetToSeq(found) \in Seq(found) BY <2>4, SetListed
    <3>2. SetToSeq(found) \in Seq(Seq(Unit)) BY <2>4, <3>1, SeqMonotonic
    <3> QED BY <2>2, <3>2, ConcatProperties
  <2>7. g \in Graphs
    <3>1. path \in Seq(Node)
      <4>1. Unit \subseteq Node BY DEF Node
      <4> HIDE DEF path
      <4> QED BY <2>2, <4>1, SeqMonotonic
    <3>2. acc \subseteq Found BY <3>1, SetupAssumption DEF Found
    <3>3. {<<path, u>> : u \in ous} \subseteq Seq(Node) \X Node BY <2>3, <3>1 DEF Node
    <3>4. graph[c] \in Graphs BY <1>0
    <3> QED BY <3>2, <3>3, <3>4 DEF Graphs
  <2> HIDE DEF g, td
  <2>8. "save" \in Phases BY DEF Phases
  <2>9. CmdTyped(c)' BY <1>0, <2>1 DEF CmdTyped, caller
  <2> QED BY <1>0, <1>1, <2>1, <2>6, <2>7, <2>8, <2>9
<1>10. CASE Save(c)
  <2>1. account_paths_for_import(c) \subseteq Found BY <1>0 DEF account_paths_for_import, Graphs
  <2>2. added[c].providers \subseteq Provider /\ added[c].credentials \subseteq CredentialRow
    BY <1>0 DEF Rows
  <2>3. "import" \in Phases BY DEF Phases
  <2>4. CmdTyped(c)' BY <1>0, <1>10 DEF Save, CmdTyped, caller
  <2> QED BY <1>0, <1>00, <1>1, <1>10, <2>1, <2>2, <2>3, <2>4 DEF Save
<1> QED BY <1>2, <1>3, <1>4, <1>5, <1>6, <1>7, <1>8, <1>9, <1>10 DEF Steps
\* The rows that exist, committed or not.
LEMMA InUseIs ==
  \A n : n \in InUse <=> \/ \E p \in providers : p.n = n
                         \/ \E c \in Command : \E p \in added[c].providers : p.n = n
BY DEF InUse

\* A step makes at most one provider, with the next id.
LEMMA InUseGrows ==
  ASSUME SetupTyped, NEW c \in Command, Steps(c)
  PROVE  InUse' \subseteq InUse \cup {NextId}
<1> DEFINE Ids(d) == {p.n : p \in added[d].providers}
<1>0. DOMAIN added = Command /\ added[c] \in Rows BY DEF SetupTyped
<1>1. \A d \in Command : d # c => added'[d] = added[d] BY StepIsOwn DEF Stays
<1>2. ASSUME /\ \A p \in providers' : p \in providers \/ p \in added[c].providers
             /\ \A p \in added'[c].providers : p \in added[c].providers \/ p.n = NextId
      PROVE  InUse' \subseteq InUse \cup {NextId}
  <2>1. SUFFICES ASSUME NEW n \in InUse' PROVE n \in InUse \cup {NextId}
    OBVIOUS
  <2>2. \/ \E p \in providers' : p.n = n
        \/ \E d \in Command : \E p \in added'[d].providers : p.n = n
    BY InUseIs, <2>1 DEF InUse
  <2>3. CASE \E p \in providers' : p.n = n BY <1>2, <2>3, InUseIs
  <2>4. ASSUME NEW d \in Command, NEW p \in added'[d].providers, p.n = n PROVE n \in InUse \cup {NextId}
    <3>1. CASE d = c BY <1>2, <2>4, <3>1, InUseIs
    <3>2. CASE d # c BY <1>1, <2>4, <3>2, InUseIs
    <3> QED BY <3>1, <3>2
  <2> QED BY <2>2, <2>3, <2>4
<1>3. CASE Call(c) BY <1>2, <1>3 DEF Call
<1>4. ASSUME Abandon(c) PROVE InUse' \subseteq InUse \cup {NextId}
  BY <1>0, <1>2, <1>4 DEF Abandon, NoRows
<1>5. CASE Fail(c) BY <1>4, <1>5 DEF Fail
<1>6. CASE GetProvider(c) /\ ~Abandon(c)
  <2>1. providers' = providers BY <1>6 DEF GetProvider
  <2>2. added' = added \/ \E x : added' = [added EXCEPT ![c] = [added[c] EXCEPT !.credentials = x]]
    BY <1>6 DEF GetProvider
  <2>3. added'[c].providers = added[c].providers BY <1>0, <2>2 DEF Rows
  <2> QED BY <1>2, <2>1, <2>3
<1>7. CASE CreateProvider(c)
  <2> DEFINE row == [n |-> NextId, name |-> org_id(caller(c)), external |-> call[c].external]
             cred == Credential(c, NextId)
  <2>1. providers' = providers /\ added' = [added EXCEPT ![c] = [providers |-> {row}, credentials |-> {cred}]]
    BY <1>7 DEF CreateProvider
  <2>2. row.n = NextId OBVIOUS
  <2> HIDE DEF row, cred
  <2>3. added'[c].providers = {row} BY <1>0, <2>1
  <2> QED BY <1>2, <2>1, <2>2, <2>3
<1>8. CASE ReadRoots(c) BY <1>2, <1>8 DEF ReadRoots
<1>9. CASE BuildGraph(c) BY <1>2, <1>9 DEF BuildGraph
<1>10. CASE Save(c) BY <1>0, <1>2, <1>10 DEF Save, NoRows
<1> QED BY <1>3, <1>5, <1>4, <1>6, <1>7, <1>8, <1>9, <1>10 DEF Steps

LEMMA SetupStarts == Init => SetupInv
<1> SUFFICES ASSUME Init PROVE SetupInv
  OBVIOUS
<1>1. FirstProvider \in Provider /\ FirstCredential \in CredentialRow
  BY SetupAssumption DEF FirstProvider, FirstCredential, Provider, CredentialRow
<1>2. NoRows \in Rows /\ NoGraph \in Graphs /\ <<>> \in Seq(Seq(Unit)) /\ "idle" \in Phases
  BY DEF NoRows, NoGraph, Rows, Graphs, Phases
<1>3. [caller |-> None, external |-> None] \in Calls BY DEF Calls
<1>4. SetupTyped BY <1>1, <1>2, <1>3 DEF Init, SetupTyped, RowsTyped, CmdTyped
<1>5. InUse \subseteq {0}
  <2>1. ASSUME NEW n \in InUse PROVE n = 0 BY <2>1, InUseIs DEF Init, NoRows, FirstProvider
  <2> QED BY <2>1
<1>6. IsFiniteSet(InUse) BY <1>5, FS_Singleton, FS_Subset
<1> QED BY <1>4, <1>6 DEF SetupInv

LEMMA SetupStep == SetupInv /\ [Next]_vars => SetupInv'
<1> SUFFICES ASSUME SetupInv, [Next]_vars PROVE SetupInv'
  OBVIOUS
<1> USE DEF SetupInv
<1>1. CASE UNCHANGED vars
  BY <1>1 DEF vars, SetupTyped, RowsTyped, CmdTyped, caller, InUse
<1>2. ASSUME NEW a \in Member, NEW u \in Unit, MoveAccount(a, u) PROVE SetupInv'
  <2>1. \A c \in Command : CmdTyped(c)' BY <1>2 DEF MoveAccount, SetupTyped, CmdTyped, caller
  <2>2. InUse' = InUse BY <1>2 DEF MoveAccount, InUse
  <2>3. moved' \in [Command -> SUBSET Member] BY <1>2 DEF MoveAccount, SetupTyped
  <2> QED BY <1>2, <2>1, <2>2, <2>3 DEF MoveAccount, SetupTyped, RowsTyped
<1>3. ASSUME NEW c \in Command, Steps(c) PROVE SetupInv'
  <2>1. SetupTyped' BY <1>3, CommandTyped
  <2>2. InUse' \subseteq InUse \cup {NextId} BY <1>3, InUseGrows
  <2>3. IsFiniteSet(InUse \cup {NextId}) BY FS_AddElement
  <2>4. IsFiniteSet(InUse')
    <3> DEFINE now == InUse'
               more == InUse \cup {NextId}
    <3> HIDE DEF now, more
    <3>1. now \subseteq more /\ IsFiniteSet(more) BY <2>2, <2>3 DEF now, more
    <3>2. IsFiniteSet(now) BY <3>1, FS_Subset
    <3> QED BY <3>2 DEF now
  <2> QED BY <2>1, <2>4
<1> QED BY <1>1, <1>2, <1>3 DEF Next, Steps

LEMMA SetupInvHolds == Spec => []SetupInv
BY SetupStarts, SetupStep, PTL DEF Spec

\* The rows stay of their types and a command that is not at work has none open,
\* although new ids are chosen among those that no open transaction has
\* (aws/__init__.py _get_or_create_provider with the sequences of its tables).
THEOREM TypeCorrect == Spec => []TypeOK
<1>1. SetupInv => TypeOK
  <2> SUFFICES ASSUME SetupInv PROVE TypeOK
    OBVIOUS
  <2>1. \A c \in Command : /\ phase[c] \in {"idle", "import"} => added[c] = NoRows
                           /\ phase[c] # "idle" => caller(c) \in Acct
    BY SetupAssumption DEF SetupInv, SetupTyped, CmdTyped
  <2> QED BY <2>1 DEF SetupInv, SetupTyped, RowsTyped, TypeOK, Phases
<1> QED BY <1>1, SetupInvHolds, PTL
---------------------------------------------------------------------------------
(***************************************************************************)
(* The walk of the organization.  ps are the paths of the units found, acc *)
(* the accounts found at them, td the paths still to read, mv the accounts *)
(* that moved meanwhile and h where the accounts are: a path that was read *)
(* has the units and the accounts below it, and no path is found twice.    *)
(***************************************************************************)
Walk(ps, acc, td, mv, h) ==
  /\ \A p \in ps : IsPath(p)
  /\ \A i, j \in DOMAIN td : td[i] = td[j] => i = j
  /\ ToSet(td) \subseteq ps
  /\ <<Root>> \in ps
  /\ \A p \in ps \ ToSet(td) : \A u \in Children(Last(p)) : Append(p, u) \in ps
  /\ \A p \in ps : Len(p) > 1 => Front(p) \in ps \ ToSet(td)
  /\ acc \subseteq (ps \ ToSet(td)) \X Member
  /\ \A p \in ps \ ToSet(td) : \A a \in Member \ mv : <<p, a>> \in acc <=> h[a] = Last(p)

LEMMA RootPath == IsPath(<<Root>>) /\ Last(<<Root>>) = Root /\ Len(<<Root>>) = 1
BY SetupAssumption DEF IsPath, Last

LEMMA WalkStarts ==
  ASSUME NEW mv, NEW h
  PROVE  Walk({<<Root>>}, {}, <<<<Root>>>>, mv, h)
<1>1. DOMAIN <<<<Root>>>> = {1} /\ <<<<Root>>>>[1] = <<Root>> OBVIOUS
<1>2. ToSet(<<<<Root>>>>) = {<<Root>>} BY <1>1 DEF ToSet
<1> QED BY <1>1, <1>2, RootPath DEF Walk

\* build_graph reads the first path that is left.
LEMMA WalkStep ==
  ASSUME NEW ps, NEW acc, NEW td \in Seq(Seq(Unit)), NEW mv, NEW h,
         td # <<>>, Walk(ps, acc, td, mv, h)
  PROVE  LET path == Head(td)
             found == {Below(path, u) : u \in Children(Last(path))}
             here == {<<path, a>> : a \in {b \in Member : h[b] = Last(path)}}
         IN Walk(ps \cup found, acc \cup here, SetToSeq(found) \o Tail(td), mv, h)
<1> DEFINE path == Head(td)
           ous == Children(Last(path))
           found == {Below(path, u) : u \in ous}
           here == {<<path, a>> : a \in {b \in Member : h[b] = Last(path)}}
           open == ToSet(td)
           nxt == SetToSeq(found) \o Tail(td)
           more == ps \cup found
<1>1. path \in Seq(Unit) BY HeadTailProperties
<1>2. found \in SUBSET Seq(Unit) /\ IsFiniteSet(found) BY <1>1, BelowTyped
<1>3. path \in open
  <2>1. Len(td) \in Nat \ {0} /\ DOMAIN td = 1 .. Len(td) BY EmptySeq, LenProperties
  <2> QED BY <2>1 DEF ToSet
<1>4. open \subseteq ps /\ IsPath(path) BY <1>3 DEF Walk
<1>5. \A u \in ous : /\ IsPath(Append(path, u)) /\ Len(Append(path, u)) > 1
                     /\ Front(Append(path, u)) = path
  <2>1. TAKE u \in ous
  <2>2. /\ IsPath(Append(path, u)) /\ Len(Append(path, u)) = Len(path) + 1 /\ Len(path) \in Nat \ {0}
        /\ Front(Append(path, u)) = path
    BY <1>4, PathBelow
  <2> QED BY <2>2
<1>6. \A p \in found : IsPath(p) /\ Len(p) > 1 /\ Front(p) = path
  BY <1>5 DEF Below
<1> HIDE DEF found
<1>7. found \cap ps = {} BY <1>3, <1>6 DEF Walk
<1>8. found \cap open = {} BY <1>4, <1>7
<1>9. /\ \A i, j \in DOMAIN nxt : nxt[i] = nxt[j] => i = j
      /\ ToSet(nxt) = found \cup (open \ {path})
  <2>1. \A i, j \in DOMAIN td : td[i] = td[j] => i = j BY DEF Walk
  <2> QED BY <1>2, <1>8, <2>1, QueueStep
<1> HIDE DEF nxt, path, open, ous
<1>10. more \ ToSet(nxt) = (ps \ open) \cup {path} BY <1>3, <1>4, <1>7, <1>9
<1>11. \A p \in more : IsPath(p) BY <1>6 DEF Walk
<1>12. ToSet(nxt) \subseteq more /\ <<Root>> \in more BY <1>4, <1>9 DEF Walk
<1>13. ASSUME NEW p \in more \ ToSet(nxt) PROVE \A u \in Children(Last(p)) : Append(p, u) \in more
  <2>1. CASE p = path BY <2>1 DEF found, ous, Below
  <2>2. CASE p \in ps \ open BY <2>2 DEF Walk, open
  <2> QED BY <1>10, <2>1, <2>2
<1>14. ASSUME NEW p \in more, Len(p) > 1 PROVE Front(p) \in more \ ToSet(nxt)
  <2>1. CASE p \in found BY <1>6, <1>10, <2>1
  <2>2. CASE p \in ps BY <1>10, <1>14, <2>2 DEF Walk, open
  <2> QED BY <2>1, <2>2
<1>15. acc \cup here \subseteq (more \ ToSet(nxt)) \X Member
  <2>1. acc \subseteq (ps \ open) \X Member BY DEF Walk, open
  <2> QED BY <1>10, <2>1
<1>16. ASSUME NEW p \in more \ ToSet(nxt), NEW a \in Member \ mv
       PROVE  <<p, a>> \in acc \cup here <=> h[a] = Last(p)
  <2>1. CASE p = path
    <3>1. <<p, a>> \notin acc BY <1>3, <2>1 DEF Walk, open
    <3> QED BY <2>1, <3>1
  <2>2. CASE p \in ps \ open
    <3>1. <<p, a>> \notin here BY <1>3, <2>2
    <3>2. <<p, a>> \in acc <=> h[a] = Last(p) BY <2>2 DEF Walk, open
    <3> QED BY <3>1, <3>2
  <2> QED BY <1>10, <2>1, <2>2
<1> HIDE DEF more, here
<1>17. Walk(more, acc \cup here, nxt, mv, h)
  BY <1>9, <1>11, <1>12, <1>13, <1>14, <1>15, <1>16 DEF Walk
<1> QED BY <1>17 DEF more, here, nxt, found, path, ous

\* An account that moves is excused from then on.
LEMMA WalkMoves ==
  ASSUME NEW ps, NEW acc, NEW td, NEW mv, NEW h, NEW a, NEW u,
         Walk(ps, acc, td, mv, h)
  PROVE  Walk(ps, acc, td, mv \cup {a}, [h EXCEPT ![a] = u])
<1>1. \A b \in Member \ (mv \cup {a}) : [h EXCEPT ![a] = u][b] = h[b] OBVIOUS
<1> QED BY <1>1 DEF Walk

\* With nothing left to read, every unit has its path and every account that
\* did not move is at the one path of its unit.
LEMMA WalkEnds ==
  ASSUME NEW ps, NEW acc, NEW mv, NEW h \in [Member -> Unit],
         Walk(ps, acc, <<>>, mv, h)
  PROVE  /\ Unit = {Last(p) : p \in ps}
         /\ \A a \in Member \ mv :
              \E p \in ps : IsPath(p) /\ Last(p) = h[a] /\ {x \in acc : x[2] = a} = {<<p, a>>}
<1>0. ToSet(<<>>) = {} BY DEF ToSet
<1> DEFINE S == {Last(p) : p \in ps}
<1>1. S \in SUBSET Unit
  <2>1. ASSUME NEW p \in ps PROVE Last(p) \in Unit
    <3>1. p \in Seq(Unit) /\ Len(p) \in Nat \ {0} BY EmptySeq DEF Walk, IsPath
    <3> QED BY <3>1 DEF Last
  <2> QED BY <2>1
<1>2. Root \in S BY RootPath DEF Walk
<1>3. ASSUME NEW u \in Unit \ {Root}, ParentUnit[u] \in S PROVE u \in S
  <2>1. PICK p \in ps : Last(p) = ParentUnit[u] BY <1>3
  <2>2. u \in Children(Last(p)) BY <2>1 DEF Children
  <2>3. IsPath(p) /\ Append(p, u) \in ps BY <1>0, <2>2 DEF Walk
  <2>4. Last(Append(p, u)) = u BY <2>2, <2>3, PathBelow
  <2> QED BY <2>3, <2>4
<1>4. S = Unit
  <2> HIDE DEF S
  <2> QED BY <1>1, <1>2, <1>3, OrganizationAssumption
<1>5. ASSUME NEW a \in Member \ mv
      PROVE  \E p \in ps : IsPath(p) /\ Last(p) = h[a] /\ {x \in acc : x[2] = a} = {<<p, a>>}
  <2>1. PICK p \in ps : Last(p) = h[a] BY <1>4
  <2>2. IsPath(p) /\ <<p, a>> \in acc BY <1>0, <2>1 DEF Walk
  <2>3. ASSUME NEW x \in acc, x[2] = a PROVE x = <<p, a>>
    <3>1. x[1] \in ps /\ x = <<x[1], a>> BY <1>0, <2>3 DEF Walk
    <3>2. IsPath(x[1]) /\ Last(x[1]) = h[a] BY <1>0, <3>1 DEF Walk
    <3> QED BY <2>1, <2>2, <3>1, <3>2, PathUnique
  <2> QED BY <2>1, <2>2, <2>3
<1> QED BY <1>4, <1>5
---------------------------------------------------------------------------------
(***************************************************************************)
(* What a command knows of the organization.                               *)
(***************************************************************************)
HasCredential(c) == \E k \in credentials \cup added[c].credentials :
                      k.provider = provider[c] /\ k.scope = caller(c)

GraphOf(c) ==
  /\ phase[c] # "graph" => todo[c] = <<>>
  /\ phase[c] \in {"lookup", "confirm", "roots"} => graph[c] = NoGraph
  /\ phase[c] = "graph" => caller(c) = Management
  /\ phase[c] \in {"save", "import"} /\ caller(c) # Management => graph[c] = SmallGraph(caller(c))
  /\ phase[c] \in {"graph", "save", "import"} /\ caller(c) = Management
       => Walk(UnitPaths(graph[c]), graph[c].accounts, todo[c], moved[c], home)
  /\ phase[c] = "import" => paths[c] = {x \in graph[c].accounts : x[2] = caller(c)}
  /\ phase[c] \in {"roots", "graph", "save"} => HasCredential(c)
GraphInv == SetupInv /\ \A c \in Command : GraphOf(c)

LEMMA GraphStarts == Init => GraphInv
BY SetupStarts DEF Init, GraphInv, GraphOf

\* An account that moves leaves every command with a walk that excuses it.
LEMMA GraphMoves ==
  ASSUME GraphInv, NEW a \in Member, NEW u \in Unit, MoveAccount(a, u), NEW c \in Command
  PROVE  GraphOf(c)'
<1>0. home \in [Member -> Unit] BY DEF GraphInv, SetupInv, SetupTyped
<1>1. /\ UNCHANGED <<providers, credentials, phase, call, provider, added, todo, graph, paths>>
      /\ home' = [home EXCEPT ![a] = u]
      /\ moved'[c] = IF phase[c] = "idle" THEN {} ELSE moved[c] \cup {a}
  BY DEF MoveAccount
<1>2. phase[c] \in {"graph", "save", "import"} /\ caller(c) = Management
        => Walk(UnitPaths(graph[c]), graph[c].accounts, todo[c], moved'[c], home')
  <2>1. SUFFICES ASSUME phase[c] \in {"graph", "save", "import"}, caller(c) = Management
                 PROVE  Walk(UnitPaths(graph[c]), graph[c].accounts, todo[c], moved'[c], home')
    OBVIOUS
  <2>2. Walk(UnitPaths(graph[c]), graph[c].accounts, todo[c], moved[c], home)
    BY <2>1 DEF GraphInv, GraphOf
  <2>3. moved'[c] = moved[c] \cup {a} BY <1>1, <2>1
  <2>4. Walk(UnitPaths(graph[c]), graph[c].accounts, todo[c], moved[c] \cup {a}, [home EXCEPT ![a] = u])
    BY <2>2, WalkMoves
  <2> QED BY <1>1, <2>3, <2>4
<1>3. GraphOf(c) BY DEF GraphInv
<1> QED BY <1>1, <1>2, <1>3 DEF GraphOf, HasCredential, UnitPaths, caller

\* The other commands keep what they know: what is committed stays.
LEMMA GraphStays ==
  ASSUME GraphInv, NEW c \in Command, Steps(c), NEW d \in Command, d # c
  PROVE  GraphOf(d)'
<1>1. Stays(d) /\ home' = home /\ credentials \subseteq credentials'
  BY StepIsOwn DEF GraphInv, SetupInv
<1>2. GraphOf(d) BY DEF GraphInv
<1>3. HasCredential(d) => HasCredential(d)' BY <1>1 DEF HasCredential, Stays, caller
<1>4. Walk(UnitPaths(graph[d]), graph[d].accounts, todo[d], moved[d], home)
        => Walk(UnitPaths(graph[d]), graph[d].accounts, todo[d], moved[d], home)'
  BY <1>1 DEF Stays, UnitPaths
<1> QED BY <1>1, <1>2, <1>3, <1>4 DEF GraphOf, Stays, caller

LEMMA GraphStep ==
  ASSUME GraphInv, NEW c \in Command, Steps(c)
  PROVE  GraphOf(c)'
<1>0. /\ phase \in [Command -> Phases] /\ call \in [Command -> Calls]
      /\ provider \in [Command -> Nat \cup {None}] /\ added \in [Command -> Rows]
      /\ todo \in [Command -> Seq(Seq(Unit))]
      /\ graph \in [Command -> Graphs] /\ paths \in [Command -> SUBSET Found]
      /\ home' = home /\ GraphOf(c) /\ SetupTyped /\ c \in Command
  BY StepIsOwn DEF GraphInv, SetupInv, SetupTyped
<1>1. CASE Call(c)
  <2>1. PICK a \in CallerOf[c], e \in ExternalId : call' = [call EXCEPT ![c] = [caller |-> a, external |-> e]]
    BY <1>1 DEF Call
  <2>2. phase'[c] = "lookup" /\ graph'[c] = NoGraph /\ todo'[c] = todo[c] /\ phase[c] # "graph"
    BY <1>0, <1>1 DEF Call
  <2> QED BY <1>0, <2>2 DEF GraphOf
<1>2. ASSUME Abandon(c) PROVE GraphOf(c)'
  <2>1. phase'[c] = "idle" /\ todo'[c] = <<>> BY <1>0, <1>2 DEF Abandon
  <2> QED BY <2>1 DEF GraphOf
<1>3. CASE Fail(c) BY <1>2, <1>3 DEF Fail
<1>4. CASE GetProvider(c) /\ Known(c) = {} /\ ~Abandon(c)
  <2>1. phase'[c] = "confirm" /\ phase[c] = "lookup" /\ UNCHANGED <<graph, todo>>
    BY <1>0, <1>4 DEF GetProvider
  <2> QED BY <1>0, <2>1 DEF GraphOf
<1>5. CASE GetProvider(c) /\ Known(c) # {} /\ ~Abandon(c)
  <2> DEFINE p == (CHOOSE q \in Known(c) : TRUE).n
             new == NewCredentials(c, p)
  <2>1. /\ phase[c] = "lookup" /\ phase' = [phase EXCEPT ![c] = "roots"]
        /\ provider' = [provider EXCEPT ![c] = p]
        /\ added' = [added EXCEPT ![c].credentials = new]
        /\ UNCHANGED <<home, providers, credentials, call, todo, graph, paths, moved>>
    BY <1>5 DEF GetProvider
  <2> HIDE DEF p
  <2>2. \/ \E k \in credentials : k.provider = p /\ k.scope = caller(c)
        \/ Credential(c, p) \in new
    BY DEF NewCredentials
  <2>3. Credential(c, p).provider = p /\ Credential(c, p).scope = caller(c) BY DEF Credential
  <2> HIDE DEF new
  <2>4. phase'[c] = "roots" /\ provider'[c] = p /\ added'[c].credentials = new
    BY <1>0, <2>1 DEF Rows
  <2>5. HasCredential(c)' BY <2>1, <2>2, <2>3, <2>4 DEF HasCredential, caller
  <2> QED BY <1>0, <2>1, <2>4, <2>5 DEF GraphOf
<1>6. CASE CreateProvider(c)
  <2> DEFINE row == [n |-> NextId, name |-> org_id(caller(c)), external |-> call[c].external]
             cred == Credential(c, NextId)
  <2>1. /\ phase[c] = "confirm" /\ phase' = [phase EXCEPT ![c] = "roots"]
        /\ provider' = [provider EXCEPT ![c] = NextId]
        /\ added' = [added EXCEPT ![c] = [providers |-> {row}, credentials |-> {cred}]]
        /\ UNCHANGED <<home, providers, credentials, call, todo, graph, paths, moved>>
    BY <1>6 DEF CreateProvider
  <2>2. cred.provider = NextId /\ cred.scope = caller(c) BY DEF Credential
  <2> HIDE DEF row, cred
  <2>3. phase'[c] = "roots" /\ provider'[c] = NextId /\ added'[c].credentials = {cred}
    BY <1>0, <2>1 DEF Rows
  <2>4. HasCredential(c)' BY <2>1, <2>2, <2>3 DEF HasCredential, caller
  <2> QED BY <1>0, <2>1, <2>3, <2>4 DEF GraphOf
<1>7. CASE ReadRoots(c)
  <2>1. /\ phase[c] = "roots"
        /\ UNCHANGED <<home, providers, credentials, call, provider, added, paths, moved>>
        /\ HasCredential(c) /\ HasCredential(c)'
    BY <1>0, <1>7 DEF ReadRoots, GraphOf, HasCredential, caller
  <2>2. CASE caller(c) = Management
    <3>1. /\ phase' = [phase EXCEPT ![c] = "graph"] /\ todo' = [todo EXCEPT ![c] = <<<<Root>>>>]
          /\ graph' = [graph EXCEPT ![c] = [graph[c] EXCEPT !.organizational_units = {<<<<>>, Root>>}]]
      BY <1>7, <2>2, SetupAssumption DEF ReadRoots, MasterAccount
    <3>2. graph[c] = NoGraph BY <1>0, <2>1 DEF GraphOf
    <3>3. /\ phase'[c] = "graph" /\ todo'[c] = <<<<Root>>>>
          /\ graph'[c].accounts = {} /\ graph'[c].organizational_units = {<<<<>>, Root>>}
      BY <1>0, <3>1, <3>2 DEF NoGraph
    <3>4. UnitPaths(graph'[c]) = {<<Root>>}
      <4>1. Append(<<>>, Root) = <<Root>> OBVIOUS
      <4> DEFINE x == <<<<>>, Root>>
      <4>2. x[1] = <<>> /\ x[2] = Root /\ graph'[c].organizational_units = {x} BY <3>3
      <4> HIDE DEF x
      <4> QED BY <4>1, <4>2 DEF UnitPaths
    <3>5. Walk(UnitPaths(graph'[c]), graph'[c].accounts, todo'[c], moved'[c], home')
      BY <3>3, <3>4, WalkStarts
    <3>6. caller(c)' = Management BY <2>1, <2>2 DEF caller
    <3> QED BY <2>1, <3>3, <3>5, <3>6 DEF GraphOf
  <2>3. CASE caller(c) # Management
    <3>1. phase'[c] = "save" /\ graph'[c] = SmallGraph(caller(c)) /\ todo'[c] = todo[c]
      BY <1>0, <1>7, <2>3, SetupAssumption DEF ReadRoots, MasterAccount
    <3>2. caller(c)' = caller(c) BY <2>1 DEF caller
    <3> QED BY <1>0, <2>1, <2>3, <3>1, <3>2 DEF GraphOf
  <2> QED BY <2>2, <2>3
<1>8. CASE BuildGraph(c)
  <2> DEFINE path == Head(todo[c])
             ous == Children(Last(path))
             here == {<<path, a>> : a \in {b \in Member : home[b] = Last(path)}}
             found == {Below(path, u) : u \in ous}
             units == {<<path, u>> : u \in ous}
             g == [accounts |-> graph[c].accounts \cup here,
                   organizational_units |-> graph[c].organizational_units \cup units]
             td == SetToSeq(found) \o Tail(todo[c])
  <2>1. /\ phase[c] = "graph" /\ todo[c] # <<>>
        /\ graph' = [graph EXCEPT ![c] = g] /\ todo' = [todo EXCEPT ![c] = td]
        /\ phase' = IF todo'[c] = <<>> THEN [phase EXCEPT ![c] = "save"] ELSE phase
        /\ UNCHANGED <<home, providers, credentials, call, provider, added, paths, moved>>
    BY <1>0, <1>8 DEF BuildGraph
  <2>2. caller(c) = Management /\ HasCredential(c)
        /\ Walk(UnitPaths(graph[c]), graph[c].accounts, todo[c], moved[c], home)
    BY <1>0, <2>1 DEF GraphOf
  <2>3. Walk(UnitPaths(graph[c]) \cup found, graph[c].accounts \cup here, td, moved[c], home)
    <3>1. todo[c] \in Seq(Seq(Unit)) BY <1>0
    <3> QED BY <2>1, <2>2, <3>1, WalkStep
  <2>4. UnitPaths(g) = UnitPaths(graph[c]) \cup found
    <3>1. found = {Append(x[1], x[2]) : x \in units}
      <4>1. \A u \in ous : <<path, u>>[1] = path /\ <<path, u>>[2] = u OBVIOUS
      <4> HIDE DEF ous, path
      <4>2. \A y : y \in found <=> \E u \in ous : y = Append(path, u) BY DEF Below
      <4>3. \A y : y \in {Append(x[1], x[2]) : x \in units} <=> \E u \in ous : y = Append(path, u)
        BY <4>1
      <4> QED BY <4>2, <4>3, Zenon
    <3> HIDE DEF found, units, here
    <3> QED BY <3>1 DEF UnitPaths
  <2>5. g.accounts = graph[c].accounts \cup here OBVIOUS
  <2> HIDE DEF found, here, td, g
  <2>6. graph'[c] = g /\ todo'[c] = td BY <1>0, <2>1
  <2>7. phase'[c] = IF td = <<>> THEN "save" ELSE "graph" BY <1>0, <2>1, <2>6
  <2>8. HasCredential(c)' /\ caller(c)' = Management
    BY <2>1, <2>2 DEF HasCredential, caller
  <2>9. Walk(UnitPaths(graph'[c]), graph'[c].accounts, todo'[c], moved'[c], home')
    BY <2>1, <2>3, <2>4, <2>5, <2>6
  <2> QED BY <2>6, <2>7, <2>8, <2>9 DEF GraphOf
<1>9. CASE Save(c)
  <2>1. /\ phase[c] = "save" /\ phase'[c] = "import"
        /\ paths'[c] = account_paths_for_import(c) /\ graph' = graph /\ todo' = todo
        /\ home' = home /\ moved' = moved /\ call' = call
    BY <1>0, <1>9 DEF Save
  <2>2. account_paths_for_import(c) = {x \in graph[c].accounts : x[2] = caller(c)}
    BY <1>0, <2>1 DEF GraphOf, HasCredential, account_paths_for_import
  <2> QED BY <1>0, <2>1, <2>2 DEF GraphOf, caller, UnitPaths
<1> QED BY <1>1, <1>3, <1>2, <1>4, <1>5, <1>6, <1>7, <1>8, <1>9 DEF Steps

LEMMA GraphInvHolds == Spec => []GraphInv
<1>1. GraphInv /\ [Next]_vars => GraphInv'
  <2> SUFFICES ASSUME GraphInv, [Next]_vars PROVE GraphInv'
    OBVIOUS
  <2>1. SetupInv' BY SetupStep DEF GraphInv
  <2>2. ASSUME NEW c \in Command PROVE GraphOf(c)'
    <3>1. CASE UNCHANGED vars
      BY <3>1 DEF vars, GraphInv, GraphOf, HasCredential, UnitPaths, caller
    <3>2. ASSUME NEW d \in Command, Steps(d) PROVE GraphOf(c)'
      BY <3>2, GraphStep, GraphStays
    <3>3. ASSUME NEW a \in Member, NEW u \in Unit, MoveAccount(a, u) PROVE GraphOf(c)'
      BY <3>3, GraphMoves
    <3> QED BY <3>1, <3>2, <3>3 DEF Next, Steps
  <2> QED BY <2>1, <2>2 DEF GraphInv
<1> QED BY <1>1, GraphStarts, PTL DEF Spec

\* A job of the management account whose walk is over.
LEMMA WalkOver ==
  ASSUME GraphInv, NEW c \in Command, phase[c] = "import", caller(c) = Management
  PROVE  /\ Unit = {Last(p) : p \in UnitPaths(graph[c])}
         /\ \A a \in Member \ moved[c] :
              \E p \in UnitPaths(graph[c]) :
                 IsPath(p) /\ Last(p) = home[a] /\ {x \in graph[c].accounts : x[2] = a} = {<<p, a>>}
<1>1. home \in [Member -> Unit] BY DEF GraphInv, SetupInv, SetupTyped
<1>2. GraphOf(c) BY DEF GraphInv
<1>3. Walk(UnitPaths(graph[c]), graph[c].accounts, <<>>, moved[c], home) BY <1>2 DEF GraphOf
<1> QED BY <1>1, <1>3, WalkEnds

\* A job imports the account that called, once, for every shape of the
\* organization and whatever moves in it (aws/__init__.py
\* account_paths_for_import over the graph that build_graph has read).
THEOREM JobImportsItsCallerHolds == Spec => []JobImportsItsCaller
<1>1. GraphInv => JobImportsItsCaller
  <2> SUFFICES ASSUME GraphInv, NEW c \in Command, phase[c] = "import", caller(c) \notin moved[c]
               PROVE  \E path \in {x[1] : x \in graph[c].accounts} : paths[c] = {<<path, caller(c)>>}
    BY DEF JobImportsItsCaller
  <2>1. paths[c] = {x \in graph[c].accounts : x[2] = caller(c)} BY DEF GraphInv, GraphOf
  <2>2. CASE caller(c) = Management
    <3>1. Management \in Member \ moved[c] BY <2>2, SetupAssumption
    <3>2. PICK p : {x \in graph[c].accounts : x[2] = Management} = {<<p, Management>>}
      <4>1. \A a \in Member \ moved[c] : \E p \in UnitPaths(graph[c]) :
              {x \in graph[c].accounts : x[2] = a} = {<<p, a>>}
        BY <2>2, WalkOver
      <4> QED BY <3>1, <4>1
    <3>3. <<p, Management>> \in graph[c].accounts /\ <<p, Management>>[1] = p BY <3>2
    <3> QED BY <2>1, <2>2, <3>2, <3>3
  <2>3. CASE caller(c) # Management
    <3>0. graph[c] = SmallGraph(caller(c)) BY <2>3 DEF GraphInv, GraphOf
    <3>1. graph[c].accounts = {<<<<"r-dummy">>, caller(c)>>} BY <3>0 DEF SmallGraph
    <3> DEFINE x == <<<<"r-dummy">>, caller(c)>>
    <3>2. x[1] = <<"r-dummy">> /\ x[2] = caller(c) OBVIOUS
    <3>3. paths[c] = {x} BY <2>1, <3>1, <3>2
    <3> QED BY <3>1, <3>2, <3>3
  <2> QED BY <2>2, <2>3
<1> QED BY <1>1, GraphInvHolds, PTL

\* An account at the path of its unit is in its place.
LEMMA PlaceRight ==
  ASSUME NEW p, IsPath(p), NEW a, home[a] = Last(p)
  PROVE  Last(Append(p, a)) = a /\ RightPath(Append(p, a), a)
<1> DEFINE q == Append(p, a)
<1>1. p \in Seq(Unit) /\ Len(p) \in Nat \ {0} BY EmptySeq DEF IsPath
<1>2. Len(q) = Len(p) + 1 /\ \A i \in 1 .. Len(p) : q[i] = p[i]
  BY <1>1
<1>3. q[Len(p) + 1] = a BY <1>1
<1> HIDE DEF q
<1>4. Last(q) = a /\ q[Len(q) - 1] = Last(p) /\ q[1] = Root BY <1>1, <1>2, <1>3 DEF Last, IsPath
<1>5. ASSUME NEW i \in 2 .. Len(q) - 1 PROVE ParentUnit[q[i]] = q[i - 1]
  <2>1. i \in 2 .. Len(p) /\ i \in 1 .. Len(p) /\ i - 1 \in 1 .. Len(p) BY <1>1, <1>2
  <2> QED BY <1>2, <2>1 DEF IsPath
<1> QED BY <1>4, <1>5 DEF RightPath, q

\* An import of the management account stores every unit, and every account
\* that did not move, once and in its place (aws/organizations.py walk_graph
\* over the graph of build_graph), for any tree of units.
THEOREM WalkCoversOrganizationHolds == Spec => []WalkCoversOrganization
<1>1. GraphInv => WalkCoversOrganization
  <2> SUFFICES ASSUME GraphInv, NEW c \in Command,
                      phase[c] = "import", caller(c) = Management, Management \notin moved[c]
               PROVE  /\ Unit = {Last(x) : x \in OrganizationRows(c) \cap UnitPaths(graph[c])}
                      /\ \A a \in Member \ moved[c] :
                           LET found == {x \in OrganizationRows(c) : Last(x) = a} IN
                           Cardinality(found) = 1 /\ \A x \in found : RightPath(x, a)
    BY DEF WalkCoversOrganization
  <2> DEFINE ps == UnitPaths(graph[c])
             at == {y \in graph[c].accounts : y[1] \in ps}
  <2>1. Management \in Member \ moved[c] BY SetupAssumption
  <2>2. \E x \in paths[c] : x[2] = MasterAccount(caller(c))
    <3>1. PICK p : {x \in graph[c].accounts : x[2] = Management} = {<<p, Management>>}
      BY <2>1, WalkOver
    <3>2. paths[c] = {x \in graph[c].accounts : x[2] = caller(c)} BY DEF GraphInv, GraphOf
    <3>3. MasterAccount(caller(c)) = Management BY SetupAssumption DEF MasterAccount
    <3> QED BY <3>1, <3>2, <3>3
  <2>3. OrganizationRows(c) = ps \cup {Append(x[1], x[2]) : x \in at}
    BY <2>2 DEF OrganizationRows, walk_graph
  <2>4. Unit = {Last(x) : x \in OrganizationRows(c) \cap ps}
    <3>1. OrganizationRows(c) \cap ps = ps BY <2>3
    <3>2. Unit = {Last(x) : x \in ps} BY WalkOver
    <3> HIDE DEF ps
    <3> QED BY <3>1, <3>2
  <2>5. ASSUME NEW a \in Member \ moved[c]
        PROVE  LET found == {x \in OrganizationRows(c) : Last(x) = a} IN
               Cardinality(found) = 1 /\ \A x \in found : RightPath(x, a)
    <3>1. PICK p \in ps : IsPath(p) /\ Last(p) = home[a]
                          /\ {x \in graph[c].accounts : x[2] = a} = {<<p, a>>}
      BY WalkOver
    <3>2. Last(Append(p, a)) = a /\ RightPath(Append(p, a), a) BY <3>1, PlaceRight
    <3>3. Append(p, a) \in OrganizationRows(c)
      <4> DEFINE x == <<p, a>>
      <4>1. x \in at /\ x[1] = p /\ x[2] = a BY <3>1
      <4> HIDE DEF x, at
      <4> QED BY <2>3, <4>1
    <3>4. ASSUME NEW y \in OrganizationRows(c), Last(y) = a PROVE y = Append(p, a)
      <4>1. y \notin ps
        <5>1. ASSUME y \in ps PROVE Last(y) \in Unit BY <5>1, WalkOver
        <5>2. a \notin Unit BY SetupAssumption, OrganizationAssumption
        <5> QED BY <3>4, <5>1, <5>2
      <4>2. PICK x \in at : y = Append(x[1], x[2]) BY <2>3, <4>1
      <4>3. x[1] \in Seq(Unit) BY <4>2 DEF GraphInv, GraphOf, Walk, IsPath
      <4>4. Last(Append(x[1], x[2])) = x[2]
        <5> DEFINE l == x[1]
                   e == x[2]
        <5>1. Len(l) \in Nat BY <4>3
        <5>2. Len(Append(l, e)) = Len(l) + 1 /\ Append(l, e)[Len(l) + 1] = e BY <4>3, <5>1
        <5> QED BY <5>2 DEF Last
      <4>5. x \in graph[c].accounts /\ x[2] = a BY <3>4, <4>2, <4>4
      <4> QED BY <3>1, <4>2, <4>5
    <3> DEFINE found == {x \in OrganizationRows(c) : Last(x) = a}
    <3>5. found = {Append(p, a)} BY <3>2, <3>3, <3>4
    <3>6. Cardinality(found) = 1 BY <3>5, FS_Singleton
    <3> QED BY <3>2, <3>5, <3>6
  <2> QED BY <2>4, <2>5
<1> QED BY <1>1, GraphInvHolds, PTL
---------------------------------------------------------------------------------
(***************************************************************************)
(* The registry.  Nothing in the tables keeps two commands from creating   *)
(* the same provider: that no two rows are of one name rests on commands   *)
(* that run at the same time being apart.                                  *)
(***************************************************************************)
RegRows ==
  /\ Registered => FirstProvider \in providers
  /\ \A p, q \in providers : p.name = q.name \/ p.n = q.n => p = q
  /\ \A k \in credentials : \E p \in providers : p.n = k.provider
  /\ OneCredentialPerAccount

\* What a command has added is of its caller, once, and not yet in the tables.
RegOf(c) ==
  /\ phase[c] \in {"lookup", "confirm"} => added[c] = NoRows
  /\ phase[c] = "confirm" \/ added[c].providers # {}
       => \A p \in providers : p.name # org_id(caller(c))
  /\ \A p \in added[c].providers : /\ p.name = org_id(caller(c)) /\ p.n = provider[c]
                                   /\ \A q \in providers : q.n # p.n
  /\ \A p, q \in added[c].providers : p = q
  /\ \A k \in added[c].credentials :
       /\ k = Credential(c, provider[c])
       /\ \E p \in providers \cup added[c].providers : p.n = k.provider
       /\ \A j \in credentials : ~(j.provider = k.provider /\ j.scope = k.scope)

RegApart == \A c, d \in Command : c # d =>
              \A p \in added[c].providers, q \in added[d].providers : p.n # q.n

RegInv == SetupInv /\ RegRows /\ RegApart /\ \A c \in Command : RegOf(c)

LEMMA NothingAdded == NoRows.providers = {} /\ NoRows.credentials = {}
BY DEF NoRows

LEMMA RegStarts == Init => RegInv
<1> SUFFICES ASSUME Init PROVE RegInv
  OBVIOUS
<1>1. RegRows
  BY SetupAssumption DEF Init, RegRows, OneCredentialPerAccount, FirstProvider, FirstCredential
<1>2. \A c \in Command : added[c] = NoRows /\ phase[c] = "idle" BY DEF Init
<1>3. RegApart /\ \A c \in Command : RegOf(c) BY <1>2, NothingAdded DEF RegApart, RegOf
<1> QED BY <1>1, <1>3, SetupStarts DEF RegInv

\* A step that commits nothing is a matter of the command that takes it.
LEMMA RegOwn ==
  ASSUME RegInv, NEW c \in Command, Steps(c), UNCHANGED <<providers, credentials>>, RegOf(c)',
         \A d \in Command : d # c =>
           \A p \in added'[c].providers, q \in added[d].providers : p.n # q.n
  PROVE  (RegRows /\ RegApart /\ \A d \in Command : RegOf(d))'
<1>1. \A d \in Command : d # c => Stays(d) BY StepIsOwn DEF RegInv, SetupInv
<1>2. RegRows' BY DEF RegInv, RegRows, OneCredentialPerAccount
<1>3. ASSUME NEW d \in Command PROVE RegOf(d)'
  <2>1. CASE d = c BY <2>1
  <2>2. CASE d # c
    <3>1. RegOf(d) /\ Stays(d) BY <1>1, <2>2 DEF RegInv
    <3> QED BY <3>1 DEF RegOf, Stays, caller, Credential
  <2> QED BY <2>1, <2>2
<1>4. RegApart'
  <2>1. \A d \in Command : d # c => added'[d] = added[d] BY <1>1 DEF Stays
  <2> SUFFICES ASSUME NEW d \in Command, NEW e \in Command, d # e,
                      NEW p \in added'[d].providers, NEW q \in added'[e].providers
               PROVE  p.n # q.n
    BY DEF RegApart
  <2>2. CASE d = c BY <2>1, <2>2
  <2>3. CASE e = c BY <2>1, <2>3
  <2>4. CASE d # c /\ e # c BY <2>1, <2>4 DEF RegInv, RegApart
  <2> QED BY <2>2, <2>3, <2>4
<1> QED BY <1>2, <1>3, <1>4

\* Two commands that may add a provider of one name cannot: it is there already.
LEMMA AddsApart ==
  ASSUME CommandsApart, RegInv, NEW c \in Command, NEW d \in Command, c # d,
         phase[c] = "confirm" \/ added[c] # NoRows, phase[d] = "confirm" \/ added[d] # NoRows
  PROVE  /\ caller(c) # caller(d)
         /\ phase[c] = "confirm" \/ added[c].providers # {} => org_id(caller(c)) # org_id(caller(d))
<1>1. caller(c) \in CallerOf[c] /\ caller(d) \in CallerOf[d]
  BY DEF RegInv, SetupInv, SetupTyped, CmdTyped
<1>2. caller(c) # caller(d) BY <1>1 DEF CommandsApart
<1>3. ASSUME org_id(caller(c)) = org_id(caller(d)) PROVE \E p \in providers : p.name = org_id(caller(c))
  <2>1. Registered BY <1>1, <1>3 DEF CommandsApart
  <2>2. OrgDummy(caller(c)) # OrgDummy(caller(d)) BY <1>2 DEF OrgDummy
  <2>3. org_id(caller(c)) = Organization BY <1>3, <2>2 DEF org_id
  <2> QED BY <2>1, <2>3 DEF RegInv, RegRows, FirstProvider
<1> QED BY <1>2, <1>3 DEF RegInv, RegOf

\* What a command commits is of no name, id or account that is in the tables.
LEMMA RegSave ==
  ASSUME CommandsApart, RegInv, NEW c \in Command, Save(c)
  PROVE  (RegRows /\ RegApart /\ \A d \in Command : RegOf(d))'
<1>1. /\ providers' = providers \cup added[c].providers
      /\ credentials' = credentials \cup added[c].credentials
      /\ added'[c] = NoRows /\ phase'[c] = "import" /\ phase[c] = "save"
      /\ \A d \in Command : d # c => Stays(d)
  <2>1. Steps(c) BY DEF Steps
  <2>2. \A d \in Command : d # c => Stays(d) BY <2>1, StepIsOwn DEF RegInv, SetupInv
  <2> QED BY <2>2 DEF Save, RegInv, SetupInv, SetupTyped
<1> DEFINE mine == added[c].providers
           creds == added[c].credentials
<1>2. /\ \A p \in mine : p.name = org_id(caller(c)) /\ p.n = provider[c] /\ \A q \in providers : q.n # p.n
      /\ \A p, q \in mine : p = q
      /\ mine # {} => \A p \in providers : p.name # org_id(caller(c))
      /\ \A k \in creds : /\ k = Credential(c, provider[c])
                          /\ \E p \in providers \cup mine : p.n = k.provider
                          /\ \A j \in credentials : ~(j.provider = k.provider /\ j.scope = k.scope)
  BY DEF RegInv, RegOf
<1>3. RegRows'
  <2>1. Registered => FirstProvider \in providers' BY <1>1 DEF RegInv, RegRows
  <2>2. ASSUME NEW p \in providers', NEW q \in providers', p.name = q.name \/ p.n = q.n PROVE p = q
    <3>1. CASE p \in providers /\ q \in providers BY <2>2, <3>1 DEF RegInv, RegRows
    <3>2. CASE p \in mine /\ q \in providers BY <1>2, <2>2, <3>2
    <3>3. CASE p \in providers /\ q \in mine BY <1>2, <2>2, <3>3
    <3>4. CASE p \in mine /\ q \in mine BY <1>2, <3>4
    <3> QED BY <1>1, <3>1, <3>2, <3>3, <3>4
  <2>3. ASSUME NEW k \in credentials' PROVE \E p \in providers' : p.n = k.provider
    <3>1. CASE k \in credentials BY <1>1, <3>1 DEF RegInv, RegRows
    <3>2. CASE k \in creds BY <1>1, <1>2, <3>2
    <3> QED BY <1>1, <3>1, <3>2
  <2>4. ASSUME NEW j \in credentials', NEW k \in credentials', j.provider = k.provider, j.scope = k.scope
        PROVE  j = k
    <3>1. CASE j \in credentials /\ k \in credentials
      BY <2>4, <3>1 DEF RegInv, RegRows, OneCredentialPerAccount
    <3>2. CASE j \in creds /\ k \in credentials BY <1>2, <2>4, <3>2
    <3>3. CASE j \in credentials /\ k \in creds BY <1>2, <2>4, <3>3
    <3>4. CASE j \in creds /\ k \in creds BY <1>2, <3>4
    <3> QED BY <1>1, <3>1, <3>2, <3>3, <3>4
  <2> QED BY <2>1, <2>2, <2>3, <2>4 DEF RegRows, OneCredentialPerAccount
<1>4. RegApart'
  <2>1. \A d \in Command : d # c => added'[d] = added[d] BY <1>1 DEF Stays
  <2> SUFFICES ASSUME NEW d \in Command, NEW e \in Command, d # e,
                      NEW p \in added'[d].providers, NEW q \in added'[e].providers
               PROVE  p.n # q.n
    BY DEF RegApart
  <2>2. d # c /\ e # c BY <1>1, NothingAdded
  <2> QED BY <2>1, <2>2 DEF RegInv, RegApart
<1>5. RegOf(c)'
  <2>1. phase'[c] # "confirm" /\ phase'[c] # "lookup" BY <1>1
  <2> QED BY <1>1, <2>1, NothingAdded DEF RegOf
<1>6. ASSUME NEW d \in Command, d # c PROVE RegOf(d)'
  <2>1. RegOf(d) /\ Stays(d) BY <1>1, <1>6 DEF RegInv
  <2>2. ASSUME phase[d] = "confirm" \/ added[d].providers # {}, NEW p \in providers'
        PROVE  p.name # org_id(caller(d))
    <3>1. CASE p \in providers BY <2>1, <2>2, <3>1 DEF RegOf
    <3>2. CASE p \in mine
      <4>1. added[c] # NoRows /\ (phase[d] = "confirm" \/ added[d] # NoRows)
        BY <2>2, <3>2, NothingAdded
      <4>2. org_id(caller(c)) # org_id(caller(d)) BY <1>6, <2>2, <4>1, AddsApart
      <4> QED BY <1>2, <3>2, <4>2
    <3> QED BY <1>1, <3>1, <3>2
  <2>3. ASSUME NEW p \in added[d].providers, NEW q \in providers' PROVE q.n # p.n
    <3>1. CASE q \in providers BY <2>1, <3>1 DEF RegOf
    <3>2. CASE q \in mine BY <1>6, <3>2 DEF RegInv, RegApart
    <3> QED BY <1>1, <3>1, <3>2
  <2>4. ASSUME NEW k \in added[d].credentials, NEW j \in credentials'
        PROVE  ~(j.provider = k.provider /\ j.scope = k.scope)
    <3>1. CASE j \in credentials BY <2>1, <3>1 DEF RegOf
    <3>2. CASE j \in creds
      <4>1. added[c] # NoRows /\ added[d] # NoRows BY <3>2, NothingAdded
      <4>2. caller(c) # caller(d) BY <1>6, <4>1, AddsApart
      <4>3. k = Credential(d, provider[d]) /\ j = Credential(c, provider[c])
        BY <1>2, <2>1, <3>2 DEF RegOf
      <4>4. k.scope = caller(d) /\ j.scope = caller(c) BY <4>3 DEF Credential
      <4> QED BY <4>2, <4>4
    <3> QED BY <1>1, <3>1, <3>2
  <2>5. /\ phase'[d] = phase[d] /\ added'[d] = added[d] /\ provider'[d] = provider[d]
        /\ caller(d)' = caller(d) /\ Credential(d, provider[d])' = Credential(d, provider[d])
    BY <2>1 DEF Stays, caller, Credential
  <2>6. \A k \in added[d].credentials : \E p \in providers' \cup added[d].providers : p.n = k.provider
    BY <1>1, <2>1 DEF RegOf
  <2>7. /\ phase[d] \in {"lookup", "confirm"} => added[d] = NoRows
        /\ \A p, q \in added[d].providers : p = q
        /\ \A p \in added[d].providers : p.name = org_id(caller(d)) /\ p.n = provider[d]
        /\ \A k \in added[d].credentials : k = Credential(d, provider[d])
    BY <2>1 DEF RegOf
  <2> QED BY <2>2, <2>3, <2>4, <2>5, <2>6, <2>7 DEF RegOf
<1> QED BY <1>3, <1>4, <1>5, <1>6

LEMMA RegStep ==
  ASSUME CommandsApart, RegInv, NEW c \in Command, Steps(c)
  PROVE  (RegRows /\ RegApart /\ \A d \in Command : RegOf(d))'
<1> DEFINE Goal == (RegRows /\ RegApart /\ \A d \in Command : RegOf(d))'
<1>0. /\ phase \in [Command -> Phases] /\ call \in [Command -> Calls]
      /\ provider \in [Command -> Nat \cup {None}] /\ added \in [Command -> Rows]
      /\ RegOf(c) /\ SetupTyped /\ c \in Command
  BY DEF RegInv, SetupInv, SetupTyped
<1>1. ASSUME UNCHANGED <<providers, credentials>>, added'[c] = NoRows, phase'[c] # "confirm" PROVE Goal
  <2>1. RegOf(c)' BY <1>1, NothingAdded DEF RegOf
  <2> QED BY <1>1, <2>1, NothingAdded, RegOwn
<1>2. ASSUME UNCHANGED <<providers, credentials, added, provider, call>>, phase'[c] \notin {"lookup", "confirm"}
      PROVE  Goal
  <2>1. RegOf(c)' BY <1>0, <1>2 DEF RegOf, caller, Credential
  <2>2. added'[c] = added[c] BY <1>2
  <2> QED BY <1>2, <2>1, <2>2, RegOwn DEF RegInv, RegApart
<1>3. CASE Call(c)
  <2>1. added' = added /\ added[c] = NoRows /\ phase'[c] = "lookup" /\ UNCHANGED <<providers, credentials>>
    BY <1>0, <1>3 DEF Call, SetupTyped, CmdTyped
  <2> QED BY <1>1, <2>1
<1>4. ASSUME Abandon(c) PROVE Goal
  <2>1. added'[c] = NoRows /\ phase'[c] = "idle" /\ UNCHANGED <<providers, credentials>>
    BY <1>0, <1>4 DEF Abandon
  <2> QED BY <1>1, <2>1
<1>5. CASE Fail(c) BY <1>4, <1>5 DEF Fail
<1>6. CASE GetProvider(c) /\ Known(c) = {} /\ ~Abandon(c)
  <2>1. /\ phase[c] = "lookup" /\ phase'[c] = "confirm"
        /\ UNCHANGED <<home, providers, credentials, added, provider, call>>
    BY <1>0, <1>6 DEF GetProvider
  <2>2. added[c] = NoRows BY <1>0, <2>1 DEF RegOf
  <2>3. call[c].external = None BY <1>0 DEF Calls, CommandsApart
  <2>4. \A p \in providers : p.name # org_id(caller(c)) BY <1>6, <2>3 DEF Known
  <2>5. RegOf(c)' BY <2>1, <2>2, <2>4, NothingAdded DEF RegOf, caller
  <2>6. added'[c].providers = {} BY <2>1, <2>2, NothingAdded
  <2> QED BY <2>1, <2>5, <2>6, RegOwn
<1>7. CASE GetProvider(c) /\ Known(c) # {} /\ ~Abandon(c)
  <2> DEFINE p == CHOOSE q \in Known(c) : TRUE
             new == NewCredentials(c, p.n)
  <2>1. /\ phase[c] = "lookup" /\ phase' = [phase EXCEPT ![c] = "roots"]
        /\ provider' = [provider EXCEPT ![c] = p.n]
        /\ added' = [added EXCEPT ![c].credentials = new]
        /\ UNCHANGED <<home, providers, credentials, call, todo, graph, paths, moved>>
    BY <1>7 DEF GetProvider
  <2>2. p \in providers BY <1>0, <1>7, KnownPicked
  <2> HIDE DEF p
  <2>3. added[c] = NoRows BY <1>0, <2>1 DEF RegOf
  <2>4. \A k \in new : /\ k = Credential(c, p.n)
                       /\ \A j \in credentials : ~(j.provider = p.n /\ j.scope = caller(c))
    BY DEF NewCredentials
  <2>5. Credential(c, p.n).provider = p.n /\ Credential(c, p.n).scope = caller(c) BY DEF Credential
  <2> HIDE DEF new
  <2>6. /\ phase'[c] = "roots" /\ provider'[c] = p.n
        /\ added'[c].credentials = new /\ added'[c].providers = {}
    BY <1>0, <2>1, <2>3, NothingAdded DEF Rows
  <2>7. Credential(c, provider[c])' = Credential(c, p.n) BY <2>1, <2>6 DEF Credential, caller
  <2>8. RegOf(c)' BY <2>1, <2>2, <2>4, <2>5, <2>6, <2>7 DEF RegOf
  <2> QED BY <2>1, <2>6, <2>8, RegOwn
<1>8. CASE CreateProvider(c)
  <2> DEFINE row == [n |-> NextId, name |-> org_id(caller(c)), external |-> call[c].external]
             cred == Credential(c, NextId)
  <2>1. /\ phase[c] = "confirm" /\ phase' = [phase EXCEPT ![c] = "roots"]
        /\ provider' = [provider EXCEPT ![c] = NextId]
        /\ added' = [added EXCEPT ![c] = [providers |-> {row}, credentials |-> {cred}]]
        /\ UNCHANGED <<home, providers, credentials, call, todo, graph, paths, moved>>
    BY <1>8 DEF CreateProvider
  <2>2. NextId \notin InUse BY NextIdFresh DEF RegInv, SetupInv
  <2>3. row.n = NextId /\ row.name = org_id(caller(c)) OBVIOUS
  <2>4. cred.provider = NextId /\ cred.scope = caller(c) BY DEF Credential
  <2>5. \A p \in providers : p.n # NextId /\ p.name # org_id(caller(c))
    BY <1>0, <2>1, <2>2, InUseIs DEF RegOf
  <2>6. \A d \in Command : \A q \in added[d].providers : q.n # NextId BY <2>2, InUseIs
  <2>7. \A j \in credentials : j.provider # NextId BY <2>5 DEF RegInv, RegRows
  <2> HIDE DEF row, cred
  <2>9. /\ phase'[c] = "roots" /\ provider'[c] = NextId
        /\ added'[c].credentials = {cred} /\ added'[c].providers = {row}
    BY <1>0, <2>1
  <2>10. Credential(c, provider[c])' = cred BY <2>1, <2>9 DEF cred, Credential, caller
  <2>11. org_id(caller(c))' = org_id(caller(c)) BY <2>1 DEF caller
  <2>12. RegOf(c)' BY <2>1, <2>3, <2>4, <2>5, <2>7, <2>9, <2>10, <2>11 DEF RegOf
  <2> QED BY <2>1, <2>3, <2>6, <2>9, <2>12, RegOwn
<1>9. CASE ReadRoots(c) BY <1>0, <1>2, <1>9 DEF ReadRoots
<1>10. CASE BuildGraph(c)
  <2>1. phase'[c] \in {"graph", "save"} BY <1>0, <1>10 DEF BuildGraph
  <2> QED BY <1>2, <1>10, <2>1 DEF BuildGraph
<1>11. CASE Save(c) BY <1>11, RegSave
<1> QED BY <1>3, <1>5, <1>4, <1>6, <1>7, <1>8, <1>9, <1>10, <1>11 DEF Steps

LEMMA RegInvHolds == ASSUME CommandsApart PROVE Spec => []RegInv
<1>1. RegInv /\ [Next]_vars => RegInv'
  <2> SUFFICES ASSUME RegInv, [Next]_vars PROVE RegInv'
    OBVIOUS
  <2>1. SetupInv' BY SetupStep DEF RegInv
  <2>2. CASE UNCHANGED <<providers, credentials, phase, call, provider, added>>
    BY <2>1, <2>2 DEF RegInv, RegRows, RegApart, RegOf, OneCredentialPerAccount, Credential, caller
  <2>3. ASSUME NEW c \in Command, Steps(c) PROVE RegInv' BY <2>1, <2>3, RegStep DEF RegInv
  <2> QED BY <2>2, <2>3 DEF Next, Steps, MoveAccount, vars
<1> QED BY <1>1, RegStarts, PTL DEF Spec

\* No provider is made twice (aws/__init__.py _get_or_create_provider, whose
\* one_or_none would raise on it from then on) while commands are apart.
THEOREM OneProviderPerNameHolds == ASSUME CommandsApart PROVE Spec => []OneProviderPerName
<1>1. RegInv => OneProviderPerName BY DEF RegInv, RegRows, OneProviderPerName
<1> QED BY <1>1, RegInvHolds, PTL

\* Nor is the credential of an account (_require_credential), whether its
\* provider was found or made by the same command.
THEOREM OneCredentialPerAccountHolds == ASSUME CommandsApart PROVE Spec => []OneCredentialPerAccount
<1>1. RegInv => OneCredentialPerAccount BY DEF RegInv, RegRows
<1> QED BY <1>1, RegInvHolds, PTL
==================================================================================
