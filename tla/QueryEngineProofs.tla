------------------------- MODULE QueryEngineProofs --------------------------
(***************************************************************************)
(* Proofs about the questions: the breadth-first search finds exactly what *)
(* is within the limit, each at its distance, and says how far it is to be *)
(* trusted, for every graph, question and order of rows.                   *)
(***************************************************************************)
EXTENDS QueryEngine, FiniteSetTheorems, WellFoundedInduction, TLAPS

\* A set of numbers has a least element: the intervals up to its members are
\* finite, and strict inclusion is well founded on them.
LEMMA Least ==
  ASSUME NEW T, T \subseteq Nat, T # {}
  PROVE  \E x \in T : \A y \in T : x <= y
<1> DEFINE F == {1 .. i : i \in T}
<1>1. F \subseteq FiniteSubsetsOf(Nat)
  <2>1. \A i \in T : IsFiniteSet(1 .. i) /\ 1 .. i \in SUBSET Nat
    BY FS_Interval
  <2>2. QED
    BY <2>1 DEF FiniteSubsetsOf
<1>2. F # {}
  OBVIOUS
<1>3. \E X \in F : \A Y \in F : ~ (<<Y, X>> \in StrictSubsetOrdering(Nat))
  <2> HIDE DEF F
  <2> QED
    BY <1>1, <1>2, FS_StrictSubsetOrderingWellFounded, WFMin, Zenon
<1>4. PICK x \in T : \A y \in T : ~ (<<1 .. y, 1 .. x>> \in StrictSubsetOrdering(Nat))
  BY <1>3
<1>5. ASSUME NEW y \in T, y < x PROVE FALSE
  <2>1. 1 .. y \in SUBSET Nat /\ 1 .. x \in SUBSET Nat
    OBVIOUS
  <2>2. 1 .. y \subseteq 1 .. x
    BY <1>5
  <2>3. x \in 1 .. x /\ x \notin 1 .. y
    BY <1>5
  <2>4. QED
    BY <1>4, <2>1, <2>2, <2>3 DEF StrictSubsetOrdering
<1>6. QED
  BY <1>5

\* An order of a finite set has each of its members in some place.
LEMMA Ordered ==
  ASSUME NEW S, IsFiniteSet(S), NEW order \in SetToSeqs(S)
  PROVE  Len(order) \in Nat /\ \A s \in S : \E k \in 1 .. Len(order) : order[k] = s
<1> DEFINE n == Cardinality(S)
<1>1. n \in Nat
  BY FS_CardinalityType
<1>2. order \in [1 .. n -> S] /\ \A i, j \in 1 .. n : i # j => order[i] # order[j]
  BY DEF SetToSeqs
<1>3. IsFiniteSet(1 .. n) /\ Cardinality(1 .. n) = n
  BY <1>1, FS_Interval
<1> HIDE DEF n
<1>4. order \in Injection(1 .. n, S)
  BY <1>2 DEF Injection, IsInjective
<1>5. order \in Surjection(1 .. n, S)
  <2>1. Cardinality(1 .. n) = Cardinality(S)
    BY <1>3 DEF n
  <2> QED BY <1>4, <2>1, FS_Injection, Zenon
<1>6. Len(order) = n
  BY <1>1, <1>2
<1> QED BY <1>1, <1>5, <1>6 DEF Surjection

-----------------------------------------------------------------------------
(***************************************************************************)
(* Distances.                                                              *)
(***************************************************************************)
\* The edges that the search may use.
Links == {f \in InEnv(db, question.env) : Trusted(f)}

\* What is one hop farther.
Spread(near) == near \cup {There(e) : e \in {f \in InEnv(db, question.env) : Here(f) \in near /\ Trusted(f)}}

\* The first n distances.
Circles(f, n) == f = [k \in 0 .. n |-> IF k = 0 THEN question.starts ELSE Spread(f[k - 1])]

\* They exist, by induction on n.
LEMMA CirclesExist ==
  ASSUME NEW n \in Nat
  PROVE  \E f : Circles(f, n)
<1> DEFINE Has(m) == \E f : Circles(f, m)
           None == {m \in Nat : ~Has(m)}
<1> SUFFICES ASSUME None # {} PROVE FALSE
  <2>1. None = {} => Has(n)
    <3> HIDE DEF Has
    <3> QED OBVIOUS
  <2> QED BY <2>1
<1>1. PICK m \in None : \A l \in None : m <= l
  <2> HIDE DEF Has
  <2> QED BY Least
<1>2. m \in Nat /\ ~Has(m)
  <2> HIDE DEF Has
  <2> QED BY <1>1
<1>3. CASE m = 0
  <2>1. Circles([k \in 0 .. 0 |-> question.starts], 0)
    BY DEF Circles
  <2> QED BY <1>2, <1>3, <2>1
<1>4. CASE m # 0
  <2>1. m - 1 \in Nat /\ ~(m <= m - 1)
    BY <1>2, <1>4
  <2>2. Has(m - 1)
    <3> HIDE DEF Has
    <3> QED BY <1>1, <2>1
  <2>3. PICK g : Circles(g, m - 1)
    BY <2>2
  <2> DEFINE f == [k \in 0 .. m |-> IF k = m THEN Spread(g[m - 1]) ELSE g[k]]
  <2>4. \A k \in 0 .. m - 1 : f[k] = g[k]
    BY <1>2
  <2>5. \A k \in 0 .. m : f[k] = IF k = 0 THEN question.starts ELSE Spread(f[k - 1])
    <3> TAKE k \in 0 .. m
    <3>1. CASE k = m
      BY <1>2, <1>4, <2>4, <3>1
    <3>2. CASE k # m
      <4>1. k \in 0 .. m - 1 /\ (k # 0 => k - 1 \in 0 .. m - 1)
        BY <1>2, <3>2
      <4>2. g[k] = IF k = 0 THEN question.starts ELSE Spread(g[k - 1])
        BY <2>3, <4>1 DEF Circles
      <4> HIDE DEF f
      <4> QED BY <2>4, <4>1, <4>2
    <3> QED BY <3>1, <3>2
  <2>6. f = [k \in 0 .. m |-> f[k]]
    OBVIOUS
  <2> HIDE DEF f
  <2>7. Circles(f, m)
    BY <2>5, <2>6 DEF Circles
  <2> QED BY <1>2, <2>7
<1> QED BY <1>3, <1>4

\* And are the same, however many are looked at.
LEMMA CirclesAgree ==
  ASSUME NEW f, NEW m \in Nat, Circles(f, m), NEW g, NEW n \in Nat, Circles(g, n),
         NEW k \in Nat, k <= m, k <= n
  PROVE  f[k] = g[k]
<1> DEFINE Bad == {l \in Nat : l <= m /\ l <= n /\ f[l] # g[l]}
<1> SUFFICES ASSUME Bad # {} PROVE FALSE
  OBVIOUS
<1>1. PICK l \in Bad : \A j \in Bad : l <= j
  BY Least
<1>2. l \in Nat /\ l <= m /\ l <= n /\ f[l] # g[l] /\ l \in 0 .. m /\ l \in 0 .. n
  BY <1>1
<1>3. /\ f[l] = IF l = 0 THEN question.starts ELSE Spread(f[l - 1])
      /\ g[l] = IF l = 0 THEN question.starts ELSE Spread(g[l - 1])
  BY <1>2 DEF Circles
<1>4. l # 0 /\ f[l - 1] # g[l - 1]
  BY <1>2, <1>3
<1>5. l - 1 \in Bad
  BY <1>2, <1>4
<1> QED BY <1>1, <1>2, <1>5

\* So there is the function of all of them that the definition speaks of.
LEMMA WithinExists ==
  \E f : f = [k \in Nat |-> IF k = 0 THEN question.starts ELSE Spread(f[k - 1])]
<1> DEFINE upto(n) == CHOOSE f : Circles(f, n)
           f == [k \in Nat |-> upto(k)[k]]
<1>1. \A n \in Nat : Circles(upto(n), n)
  BY CirclesExist
<1>2. ASSUME NEW k \in Nat PROVE f[k] = IF k = 0 THEN question.starts ELSE Spread(f[k - 1])
  <2>1. f[k] = upto(k)[k] /\ k \in 0 .. k
    OBVIOUS
  <2>2. upto(k)[k] = IF k = 0 THEN question.starts ELSE Spread(upto(k)[k - 1])
    <3> HIDE DEF upto
    <3> QED BY <1>1, <2>1 DEF Circles
  <2>3. CASE k = 0
    BY <2>1, <2>2, <2>3
  <2>4. CASE k # 0
    <3>1. k - 1 \in Nat /\ k - 1 <= k /\ k - 1 <= k - 1
      BY <2>4
    <3>2. f[k - 1] = upto(k - 1)[k - 1]
      BY <3>1
    <3>3. upto(k)[k - 1] = upto(k - 1)[k - 1]
      <4> HIDE DEF upto
      <4> QED BY <1>1, <3>1, CirclesAgree
    <3> HIDE DEF upto, f
    <3> QED BY <2>1, <2>2, <2>4, <3>2, <3>3
  <2> QED BY <2>3, <2>4
<1>3. f = [k \in Nat |-> f[k]]
  OBVIOUS
<1> HIDE DEF f
<1>4. f = [k \in Nat |-> IF k = 0 THEN question.starts ELSE Spread(f[k - 1])]
  BY <1>2, <1>3
<1> QED BY <1>4

\* What is within k hops, one hop after the other.
HopByHop ==
  /\ Within = [k \in Nat |-> Within[k]]
  /\ Within[0] = question.starts
  /\ \A k \in Nat : Within[k + 1] = Spread(Within[k])

\* The definition says so.
LEMMA WithinIs == HopByHop
<1>1. Within = [k \in Nat |-> IF k = 0 THEN question.starts ELSE Spread(Within[k - 1])]
  BY WithinExists DEF Within, Spread
<1> HIDE DEF Within
<1>2. \A k \in Nat : Within[k] = IF k = 0 THEN question.starts ELSE Spread(Within[k - 1])
  BY <1>1
<1>3. Within = [k \in Nat |-> Within[k]]
  BY <1>1
<1>4. \A k \in Nat : k + 1 \in Nat /\ k + 1 # 0 /\ (k + 1) - 1 = k
  OBVIOUS
<1> QED BY <1>2, <1>3, <1>4 DEF HopByHop

\* The same, to be cited.
LEMMA WithinFacts ==
  /\ Within[0] = question.starts
  /\ \A k \in Nat : Within[k + 1] = Spread(Within[k])
BY WithinIs DEF HopByHop

\* The starts and what questions say of their kind.
LEMMA Asked ==
  ASSUME question \in Question
  PROVE  /\ question.starts \subseteq Nodes
         /\ question.op \in {"find", "impact", "path", "explain", "diff"}
         /\ question.op = "find" => question.hops \in Int
         /\ question.op \in {"find", "impact"} => question.min \in ToSet(Confidence)
         /\ question.op = "path" => question.goal \in Nodes
BY DEF Question

\* The edges of the graph.
LEMMA EdgesOf ==
  ASSUME db \in [nodes : {Nodes}, edges : Seq(Edge)]
  PROVE  /\ InEnv(db, question.env) \subseteq Edge
         /\ \A e \in Edge : Here(e) \in Nodes /\ There(e) \in Nodes
<1>1. \A i \in DOMAIN db.edges : db.edges[i] \in Edge
  OBVIOUS
<1>2. InEnv(db, question.env) \subseteq Edge
  BY <1>1 DEF InEnv, Stored
<1>3. \A e \in Edge : Here(e) \in Nodes /\ There(e) \in Nodes
  BY DEF Edge, Here, There
<1> QED BY <1>2, <1>3

\* More hops reach more, and repositories only.
LEMMA WithinGrows ==
  ASSUME db \in [nodes : {Nodes}, edges : Seq(Edge)], question \in Question
  PROVE  /\ \A k \in Nat : Within[k] \subseteq Nodes
         /\ \A j, k \in Nat : j <= k => Within[j] \subseteq Within[k]
<1>1. \A k \in Nat : Within[k] \subseteq Within[k + 1]
  BY WithinFacts DEF Spread
<1>2. \A k \in Nat : Within[k] \subseteq Nodes
  <2> DEFINE Bad == {k \in Nat : ~(Within[k] \subseteq Nodes)}
  <2> SUFFICES ASSUME Bad # {} PROVE FALSE
    OBVIOUS
  <2>1. PICK k \in Bad : \A l \in Bad : k <= l
    BY Least
  <2>2. k # 0
    BY <2>1, WithinFacts, Asked
  <2>3. k - 1 \in Nat /\ (k - 1) + 1 = k /\ ~(k <= k - 1)
    BY <2>1, <2>2
  <2>4. Within[k - 1] \subseteq Nodes
    BY <2>1, <2>3
  <2>5. Within[k] = Spread(Within[k - 1])
    BY <2>3, WithinFacts
  <2>6. Spread(Within[k - 1]) \subseteq Nodes
    BY <2>4, EdgesOf DEF Spread
  <2> QED BY <2>1, <2>5, <2>6
<1>3. ASSUME NEW j \in Nat, NEW k \in Nat, j <= k PROVE Within[j] \subseteq Within[k]
  <2> DEFINE Bad == {l \in Nat : j <= l /\ ~(Within[j] \subseteq Within[l])}
  <2> SUFFICES ASSUME Bad # {} PROVE FALSE
    BY <1>3
  <2>1. PICK l \in Bad : \A m \in Bad : l <= m
    BY Least
  <2>2. l # j
    BY <2>1
  <2>3. l - 1 \in Nat /\ (l - 1) + 1 = l /\ ~(l <= l - 1) /\ j <= l - 1
    BY <1>3, <2>1, <2>2
  <2>4. Within[j] \subseteq Within[l - 1]
    BY <2>1, <2>3
  <2>5. Within[l - 1] \subseteq Within[l]
    BY <1>1, <2>3
  <2> QED BY <2>1, <2>4, <2>5
<1> QED BY <1>2, <1>3

\* A step over an edge that may be used is one hop.
LEMMA OneHop ==
  ASSUME NEW k \in Nat, NEW f \in Links, Here(f) \in Within[k]
  PROVE  There(f) \in Within[k + 1]
BY WithinFacts DEF Spread, Links

\* What is new at k hops is one hop from what is within k - 1.
LEMMA LastHop ==
  ASSUME NEW k \in Nat, NEW n \in Within[k + 1] \ Within[k]
  PROVE  \E f \in Links : Here(f) \in Within[k] /\ There(f) = n
BY WithinFacts DEF Spread, Links

\* Where one more hop reaches nothing new, no number of them does.
LEMMA Saturated ==
  ASSUME NEW j \in Nat, Within[j + 1] = Within[j], NEW k \in Nat, j <= k
  PROVE  Within[k] = Within[j]
<1> DEFINE Bad == {l \in Nat : j <= l /\ Within[l] # Within[j]}
<1> SUFFICES ASSUME Bad # {} PROVE FALSE
  OBVIOUS
<1>1. PICK l \in Bad : \A m \in Bad : l <= m
  BY Least
<1>2. l # j /\ l \in Nat /\ j <= l
  BY <1>1
<1>3. l - 1 \in Nat /\ (l - 1) + 1 = l /\ ~(l <= l - 1) /\ j <= l - 1
  BY <1>2
<1>4. Within[l - 1] = Within[j]
  BY <1>1, <1>3
<1>5. Within[l] = Spread(Within[l - 1]) /\ Within[j + 1] = Spread(Within[j])
  BY <1>3, WithinFacts
<1> QED BY <1>1, <1>4, <1>5

\* The distance of a repository from the starts.
At(n, k) == n \in Within[k] /\ (k > 0 => n \notin Within[k - 1])

\* Nothing is farther than there are repositories: each hop up to its distance
\* reaches something new.
LEMMA NotSoFar ==
  ASSUME db \in [nodes : {Nodes}, edges : Seq(Edge)], question \in Question,
         NEW n, NEW k \in Nat, At(n, k)
  PROVE  n \in Within[Farthest]
<1>1. /\ \A j \in Nat : IsFiniteSet(Within[j]) /\ Cardinality(Within[j]) \in Nat
                        /\ Cardinality(Within[j]) <= Cardinality(Nodes)
      /\ Cardinality(Nodes) \in Nat
  BY WithinGrows, NodesAssumption, FS_Subset, FS_CardinalityType
<1>2. ASSUME NEW j \in Nat, j < k PROVE Within[j] # Within[j + 1]
  <2> SUFFICES ASSUME Within[j] = Within[j + 1] PROVE FALSE
    OBVIOUS
  <2>1. k - 1 \in Nat /\ j <= k - 1 /\ j <= k /\ k > 0
    BY <1>2
  <2>2. Within[k] = Within[j] /\ Within[k - 1] = Within[j]
    BY <2>1, Saturated
  <2> QED BY <2>1, <2>2 DEF At
<1>3. \A j \in Nat : j <= k => j <= Cardinality(Within[j])
  <2> DEFINE Bad == {j \in Nat : j <= k /\ ~(j <= Cardinality(Within[j]))}
  <2> SUFFICES ASSUME Bad # {} PROVE FALSE
    OBVIOUS
  <2>1. PICK j \in Bad : \A l \in Bad : j <= l
    BY Least
  <2>2. j # 0 /\ j \in Nat /\ j <= k
    BY <1>1, <2>1
  <2>3. j - 1 \in Nat /\ j - 1 < k /\ (j - 1) + 1 = j /\ ~(j <= j - 1)
    BY <2>2
  <2>4. j - 1 <= Cardinality(Within[j - 1])
    BY <2>1, <2>3
  <2>5. Within[j - 1] \subseteq Within[j] /\ Within[j - 1] # Within[j]
    BY <1>2, <2>2, <2>3, WithinGrows
  <2>6. Cardinality(Within[j - 1]) <= Cardinality(Within[j])
        /\ Cardinality(Within[j - 1]) # Cardinality(Within[j])
    <3>1. IsFiniteSet(Within[j]) /\ Within[j - 1] \in SUBSET Within[j]
      BY <1>1, <2>2, <2>5
    <3>2. ASSUME NEW S, NEW T, IsFiniteSet(S), T \in SUBSET S, T # S
          PROVE  Cardinality(T) <= Cardinality(S) /\ Cardinality(T) # Cardinality(S)
      BY <3>2, FS_Subset
    <3> QED BY <2>5, <3>1, <3>2
  <2>7. ~(j <= Cardinality(Within[j]))
    BY <2>1
  <2>8. Cardinality(Within[j]) \in Nat /\ Cardinality(Within[j - 1]) \in Nat
    BY <1>1, <2>2, <2>3
  <2> HIDE DEF Bad
  <2> QED BY <2>2, <2>4, <2>6, <2>7, <2>8
<1>4. k <= Farthest /\ Farthest \in Nat
  BY <1>1, <1>3 DEF Farthest
<1> QED BY <1>4, WithinGrows DEF At

-----------------------------------------------------------------------------
(***************************************************************************)
(* The search.  Its invariant is stated of a queue, a current entry, rows, *)
(* and so on, so that it can be read of the state before and after a step. *)
(***************************************************************************)
Bounded == question.op \in {"find", "impact"}

\* The edges of the repository are looked at: it is nearer than the limit.
Inside(n) == Bounded => Limit > 0 /\ n \in Within[Limit - 1]

\* A repository waits in a queue, or is among some results.
Queued(q, n) == \E i \in DOMAIN q : q[i].node = n

\* No repository is listed twice.
Distinct(s) == \A i, j \in DOMAIN s : s[i].node = s[j].node => i = j

\* A way to a repository at its distance, which is within the limit.
Placed(r) == At(r.node, Len(r.path)) /\ IsWay(r) /\ (Bounded => Len(r.path) <= Limit)

\* What is queued is one hop farther than the current entry at most, nearest
\* first.
QueueOK(q, c, v) ==
  /\ c # Nobody => c \in Entry /\ Placed(c) /\ c.node \in v
  /\ \A i \in DOMAIN q : /\ Placed(q[i]) /\ q[i].node \in v
                         /\ Len(q[i].path) \in Len(c.path) .. Len(c.path) + 1
  /\ \A i, j \in DOMAIN q : i <= j => Len(q[i].path) <= Len(q[j].path)

\* The edges still to look at are those of the current entry.
RowsOK(rs, c) ==
  rs # {} =>
    /\ c # Nobody /\ ~AtLimit(c.path)
    /\ question.op \in {"find", "impact", "path"}
    /\ rs \subseteq {e \in InEnv(db, question.env) : Here(e) = c.node}

\* What is as near as the current entry was visited, and what is farther and
\* was visited still waits; whatever has had its turn has its neighbours
\* visited.
VisitedOK(q, c, rs, v) ==
  /\ question.starts \subseteq v
  /\ Within[Len(c.path)] \subseteq v
  /\ \A n \in v : n \in Within[Len(c.path)] \/ Queued(q, n)
  /\ \A f \in Links : Here(f) \in v /\ ~Queued(q, Here(f)) /\ f \notin rs /\ Inside(Here(f))
                        => There(f) \in v

\* The results are what was taken from the queue, or what was found, or none.
ResultsOK(q, v, res) ==
  /\ question.op = "find" =>
       /\ Distinct(res) /\ Distinct(q)
       /\ \A i \in DOMAIN res : ~Queued(q, res[i].node)
       /\ \A n \in v : Queued(q, n) \/ Queued(res, n)
  /\ question.op = "impact" =>
       /\ Distinct(res)
       /\ \A n : Queued(res, n) <=> n \in v \ question.starts
  /\ ~Bounded => res = <<>>
  /\ question.op = "path" /\ question.goal \in v => question.goal \in question.starts
  /\ \A i \in DOMAIN res : Placed(res[i]) /\ res[i].node \in v

\* The edges by which results were found.
Found(res) == {Last(r.path) : r \in {s \in ToSet(res) : s.path # <<>>}}

\* Each edge on the way to a result is one of them.
WaysOK(q, c, res) ==
  Bounded =>
    /\ ToSet(c.path) \subseteq Found(res)
    /\ \A i \in DOMAIN res : ToSet(res[i].path) \subseteq Found(res)
    /\ \A i \in DOMAIN q : \A k \in DOMAIN q[i].path :
         q[i].path[k] \in Found(res) \/ (question.op = "find" /\ k = Len(q[i].path))

\* What the parts of the search are.
Typing(q, c, rs, v, res) ==
  /\ q \in Seq(Entry) /\ res \in Seq(Entry)
  /\ c = Nobody \/ c \in Entry
  /\ rs \subseteq Edge /\ v \subseteq Nodes

\* All of it, for the queue, the current entry and the rest given.
Searched(q, c, rs, v, res) ==
  /\ db \in [nodes : {Nodes}, edges : Seq(Edge)]
  /\ question \in Question
  /\ Typing(q, c, rs, v, res)
  /\ QueueOK(q, c, v) /\ RowsOK(rs, c) /\ VisitedOK(q, c, rs, v)
  /\ ResultsOK(q, v, res) /\ WaysOK(q, c, res)

\* The invariant of the search.
SearchInv == Searched(queue, current, rows, visited, results)

\* Nothing that a question is about changes, so neither do the distances.
LEMMA SameWithin ==
  ASSUME db' = db, question' = question
  PROVE  Within' = Within
<1>1. HopByHop /\ HopByHop'
  BY WithinIs, PTL
<1>2. \A near : Spread(near)' = Spread(near)
  BY DEF Spread, InEnv, Stored, Trusted, Here, There
<1>3. /\ Within' = [k \in Nat |-> Within'[k]]
      /\ Within'[0] = question.starts
      /\ \A k \in Nat : Within'[k + 1] = Spread(Within'[k])
  BY <1>1, <1>2 DEF HopByHop
<1> DEFINE Bad == {k \in Nat : Within'[k] # Within[k]}
<1>4. Bad = {}
  <2> SUFFICES ASSUME Bad # {} PROVE FALSE
    OBVIOUS
  <2>1. PICK k \in Bad : \A l \in Bad : k <= l
    BY Least
  <2>2. k # 0 /\ k \in Nat
    BY <1>3, <2>1, WithinFacts
  <2>3. k - 1 \in Nat /\ (k - 1) + 1 = k /\ ~(k <= k - 1)
    BY <2>2
  <2>4. Within'[k - 1] = Within[k - 1]
    BY <2>1, <2>3
  <2>5. Within'[k] = Spread(Within'[k - 1]) /\ Within[k] = Spread(Within[k - 1])
    BY <1>3, <2>3, WithinFacts
  <2> QED BY <2>1, <2>4, <2>5
<1> QED BY <1>1, <1>3, <1>4 DEF HopByHop

\* Nor what is said of edges, the limit and entries.
LEMMA Same ==
  ASSUME db' = db, question' = question
  PROVE  /\ Links' = Links /\ Limit' = Limit /\ Bounded' = Bounded
         /\ \A e : Here(e)' = Here(e) /\ There(e)' = There(e)
         /\ \A n : Inside(n)' = Inside(n)
         /\ \A p : AtLimit(p)' = AtLimit(p)
         /\ \A r : Placed(r)' = Placed(r)
<1>1. Limit' = Limit /\ \A p : AtLimit(p)' = AtLimit(p)
  BY Zenon DEF Limit, AtLimit, Farthest
<1>2. /\ Links' = Links /\ Bounded' = Bounded
      /\ \A e : Here(e)' = Here(e) /\ There(e)' = There(e)
  BY DEF Links, Bounded, Here, There, InEnv, Stored, Trusted
<1>3. \A n : Inside(n)' = Inside(n)
  BY <1>1, <1>2, SameWithin DEF Inside
<1>4. \A n, k : At(n, k)' = At(n, k)
  BY SameWithin DEF At
<1>5. \A r : IsWay(r)' = IsWay(r)
  BY DEF IsWay, InEnv, Stored, Here, There
<1>6. \A r : Placed(r)' = Placed(r)
  BY <1>1, <1>2, <1>4, <1>5 DEF Placed
<1> QED BY <1>1, <1>2, <1>3, <1>6

\* How far the search goes.
LEMMA Limits ==
  ASSUME question \in Question
  PROVE  /\ Bounded => Limit \in Nat
         /\ \A p : question.op \in {"find", "impact", "path"} /\ Len(p) \in Nat =>
              (AtLimit(p) <=> Bounded /\ Len(p) >= Limit)
<1>1. ASSUME question.op = "find"
      PROVE  /\ question.hops \in Int
             /\ Limit = IF question.hops > 0 THEN question.hops ELSE 0
             /\ \A p : AtLimit(p) <=> Len(p) >= question.hops
  <2>1. question.hops \in Int
    BY <1>1, Asked
  <2> QED BY <1>1, <2>1, Zenon DEF Limit, AtLimit
<1>2. ASSUME question.op = "impact"
      PROVE  Limit = MaxImpactHops /\ \A p : AtLimit(p) <=> Len(p) >= MaxImpactHops
  BY <1>2, Zenon DEF Limit, AtLimit
<1>3. ASSUME question.op = "path"
      PROVE  \A p : ~AtLimit(p)
  BY <1>3, Zenon DEF AtLimit
<1>4. Bounded => Limit \in Nat
  <2>1. ASSUME NEW h \in Int PROVE (IF h > 0 THEN h ELSE 0) \in Nat
    OBVIOUS
  <2>2. question.op = "find" => Limit \in Nat
    BY <1>1, <2>1
  <2>3. question.op = "impact" => Limit \in Nat
    BY <1>2, HopsAssumption
  <2> QED BY <2>2, <2>3 DEF Bounded
<1>5. ASSUME NEW p, question.op \in {"find", "impact", "path"}, Len(p) \in Nat
      PROVE  AtLimit(p) <=> Bounded /\ Len(p) >= Limit
  BY <1>1, <1>2, <1>3, <1>5 DEF Bounded
<1> QED BY <1>4, <1>5

\* What passes the filter of a question is what it asks to trust.
LEMMA PassesTrusted ==
  ASSUME question \in Question, question.op \in {"find", "impact", "path"}, NEW e
  PROVE  Passes(e) <=> Trusted(e)
<1>1. CASE question.op \in {"find", "impact"}
  <2>1. question.min \in {"high", "medium", "low"}
    BY <1>1, Asked DEF Confidence, ToSet
  <2>2. Rank("high") = 2 /\ Rank("medium") = 1 /\ Rank("low") = 0
    BY DEF Rank
  <2>3. /\ e.confidence = "high" => Rank(e.confidence) = 2
        /\ e.confidence = "medium" => Rank(e.confidence) = 1
        /\ e.confidence \notin {"high", "medium"} => Rank(e.confidence) = 0
    BY DEF Rank
  <2> QED BY <1>1, <2>1, <2>2, <2>3 DEF Passes, Trusted
<1>2. CASE question.op = "path"
  BY <1>2 DEF Passes, Trusted
<1> QED BY <1>1, <1>2

\* What is said of the state after a step.
LEMMA Primed ==
  ASSUME db' = db, question' = question,
         Searched(queue', current', rows', visited', results')
  PROVE  SearchInv'
<1>1. QueueOK(queue, current, visited)'
  BY Same DEF Searched, QueueOK
<1>2. RowsOK(rows, current)'
  BY Same DEF Searched, RowsOK, InEnv, Stored
<1>3. VisitedOK(queue, current, rows, visited)'
  BY Same, SameWithin DEF Searched, VisitedOK, Queued
<1>4. ResultsOK(queue, visited, results)'
  BY Same DEF Searched, ResultsOK, Queued, Distinct
<1>5. WaysOK(queue, current, results)'
  BY Same DEF Searched, WaysOK, Found
<1>6. Typing(queue, current, rows, visited, results)'
  BY DEF Searched, Typing
<1>7. db' \in [nodes : {Nodes}, edges : Seq(Edge)] /\ question' \in Question
  BY DEF Searched
<1> QED BY <1>1, <1>2, <1>3, <1>4, <1>5, <1>6, <1>7 DEF SearchInv, Searched

\* A list without its head.
LEMMA HeadTail ==
  ASSUME NEW S, NEW s \in Seq(S), s # <<>>
  PROVE  /\ Len(s) \in Nat \ {0} /\ DOMAIN s = 1 .. Len(s)
         /\ Head(s) = s[1] /\ 1 \in DOMAIN s /\ Head(s) \in S /\ Tail(s) \in Seq(S)
         /\ \A i \in DOMAIN Tail(s) : i \in Nat \ {0} /\ i + 1 \in DOMAIN s /\ Tail(s)[i] = s[i + 1]
         /\ \A i \in DOMAIN s : i = 1 \/ (i - 1 \in DOMAIN Tail(s) /\ Tail(s)[i - 1] = s[i])
<1>1. /\ Len(s) \in Nat \ {0} /\ DOMAIN s = 1 .. Len(s)
      /\ Head(s) = s[1] /\ Head(s) \in S /\ Tail(s) \in Seq(S)
      /\ DOMAIN Tail(s) = 1 .. Len(s) - 1
      /\ \A i \in 1 .. Len(s) - 1 : Tail(s)[i] = s[i + 1]
  OBVIOUS
<1>2. ASSUME NEW i \in DOMAIN Tail(s)
      PROVE  i \in Nat \ {0} /\ i + 1 \in DOMAIN s /\ Tail(s)[i] = s[i + 1]
  BY <1>1
<1>3. ASSUME NEW i \in DOMAIN s, i # 1
      PROVE  i - 1 \in DOMAIN Tail(s) /\ Tail(s)[i - 1] = s[i]
  BY <1>1, <1>3
<1> QED BY <1>1, <1>2, <1>3

\* A list with one more entry.
LEMMA OneMore ==
  ASSUME NEW S, NEW s \in Seq(S), NEW x \in S
  PROVE  /\ Append(s, x) \in Seq(S)
         /\ \A i \in DOMAIN Append(s, x) :
              \/ i \in DOMAIN s /\ Append(s, x)[i] = s[i]
              \/ i = Len(s) + 1 /\ Append(s, x)[i] = x
         /\ \A i \in DOMAIN s : i \in DOMAIN Append(s, x) /\ Append(s, x)[i] = s[i] /\ i <= Len(s)
         /\ Len(s) + 1 \in DOMAIN Append(s, x) /\ Append(s, x)[Len(s) + 1] = x
         /\ Len(Append(s, x)) = Len(s) + 1 /\ Len(s) \in Nat
         /\ DOMAIN s = 1 .. Len(s)
OBVIOUS

\* The parts of the invariant that most steps look at.
LEMMA Reading ==
  ASSUME SearchInv
  PROVE  /\ db \in [nodes : {Nodes}, edges : Seq(Edge)] /\ question \in Question
         /\ queue \in Seq(Entry) /\ results \in Seq(Entry) /\ rows \subseteq Edge
         /\ visited \subseteq Nodes
         /\ current = Nobody \/ current \in Entry
         /\ Len(current.path) \in Nat
         /\ \A r \in Entry : r.node \in Nodes /\ r.path \in Seq(Edge) /\ Len(r.path) \in Nat
<1>1. /\ db \in [nodes : {Nodes}, edges : Seq(Edge)] /\ question \in Question
      /\ queue \in Seq(Entry) /\ results \in Seq(Entry) /\ rows \subseteq Edge
      /\ visited \subseteq Nodes
      /\ current = Nobody \/ current \in Entry
  BY DEF SearchInv, Searched, Typing
<1>2. \A r \in Entry : r.node \in Nodes /\ r.path \in Seq(Edge) /\ Len(r.path) \in Nat
  BY DEF Entry
<1>3. Len(Nobody.path) = 0
  BY DEF Nobody
<1> QED BY <1>1, <1>2, <1>3

-----------------------------------------------------------------------------
(***************************************************************************)
(* Taking a repository from the queue.                                     *)
(***************************************************************************)
\* What is queued besides the head is what is queued without it.
LEMMA QueuedTail ==
  ASSUME NEW q \in Seq(Entry), q # <<>>, NEW n
  PROVE  Queued(q, n) <=> n = Head(q).node \/ Queued(Tail(q), n)
<1>1. ASSUME NEW i \in DOMAIN q, q[i].node = n PROVE n = Head(q).node \/ Queued(Tail(q), n)
  <2>1. Head(q) = q[1] /\ (i = 1 \/ (i - 1 \in DOMAIN Tail(q) /\ Tail(q)[i - 1] = q[i]))
    BY HeadTail
  <2>2. i # 1 => \E j \in DOMAIN Tail(q) : Tail(q)[j].node = n
    BY <1>1, <2>1
  <2> QED BY <1>1, <2>1, <2>2 DEF Queued
<1>2. ASSUME NEW i \in DOMAIN Tail(q), Tail(q)[i].node = n PROVE Queued(q, n)
  BY <1>2, HeadTail DEF Queued
<1>3. n = Head(q).node => Queued(q, n)
  BY HeadTail DEF Queued
<1> QED BY <1>1, <1>2, <1>3 DEF Queued

\* The head of the queue is where QueueOK has it.
LEMMA HeadOk ==
  ASSUME SearchInv, queue # <<>>
  PROVE  /\ Head(queue) \in Entry /\ Placed(Head(queue)) /\ Head(queue).node \in visited
         /\ Len(Head(queue).path) \in Nat
         /\ Len(Head(queue).path) = Len(current.path) \/ Len(Head(queue).path) = Len(current.path) + 1
<1>1. /\ \A i \in DOMAIN queue : /\ Placed(queue[i]) /\ queue[i].node \in visited
                                 /\ Len(queue[i].path) \in Len(current.path) .. Len(current.path) + 1
  BY DEF SearchInv, Searched, QueueOK
<1>2. Head(queue) = queue[1] /\ 1 \in DOMAIN queue /\ Head(queue) \in Entry
  BY Reading, HeadTail
<1> QED BY <1>1, <1>2, Reading

\* A repository whose edges are not looked at is at the limit.
LEMMA OutOfSight ==
  ASSUME question \in Question, NEW r \in Entry, Placed(r), AtLimit(r.path),
         question.op \in {"find", "impact", "path"}
  PROVE  ~Inside(r.node)
<1>1. Len(r.path) \in Nat
  BY DEF Entry
<1>2. Bounded /\ Limit \in Nat /\ Len(r.path) >= Limit
  BY <1>1, Limits
<1>3. Len(r.path) = Limit
  BY <1>1, <1>2 DEF Placed
<1> QED BY <1>2, <1>3 DEF Inside, Placed, At

\* The queue without its head.
LEMMA TakeQueue ==
  ASSUME SearchInv, queue # <<>>
  PROVE  QueueOK(Tail(queue), Head(queue), visited)
<1> DEFINE h == Head(queue)
           t == Tail(queue)
<1>1. /\ \A i \in DOMAIN queue : /\ Placed(queue[i]) /\ queue[i].node \in visited
                                 /\ Len(queue[i].path) \in Len(current.path) .. Len(current.path) + 1
      /\ \A i, j \in DOMAIN queue : i <= j => Len(queue[i].path) <= Len(queue[j].path)
  BY DEF SearchInv, Searched, QueueOK
<1>2. /\ h = queue[1] /\ 1 \in DOMAIN queue
      /\ \A i \in DOMAIN t : i \in Nat \ {0} /\ i + 1 \in DOMAIN queue /\ t[i] = queue[i + 1]
  BY Reading, HeadTail
<1>3. h \in Entry /\ Placed(h) /\ h.node \in visited /\ Len(h.path) \in Nat
      /\ (Len(h.path) = Len(current.path) \/ Len(h.path) = Len(current.path) + 1)
  BY HeadOk
<1>4. Len(current.path) \in Nat
  BY Reading
<1> HIDE DEF h, t
<1>5. ASSUME NEW i \in DOMAIN t
      PROVE  /\ Placed(t[i]) /\ t[i].node \in visited
             /\ Len(t[i].path) \in Len(h.path) .. Len(h.path) + 1
  <2>1. i + 1 \in DOMAIN queue /\ t[i] = queue[i + 1] /\ 1 <= i + 1
    BY <1>2
  <2>2. /\ Placed(t[i]) /\ t[i].node \in visited
        /\ Len(t[i].path) \in Len(current.path) .. Len(current.path) + 1
    BY <1>1, <2>1
  <2>3. Len(h.path) <= Len(t[i].path)
    BY <1>1, <1>2, <2>1
  <2> QED BY <1>3, <1>4, <2>2, <2>3
<1>6. ASSUME NEW i \in DOMAIN t, NEW j \in DOMAIN t, i <= j
      PROVE  Len(t[i].path) <= Len(t[j].path)
  <2>1. i + 1 \in DOMAIN queue /\ j + 1 \in DOMAIN queue /\ i + 1 <= j + 1
        /\ t[i] = queue[i + 1] /\ t[j] = queue[j + 1]
    BY <1>2, <1>6
  <2> QED BY <1>1, <2>1
<1>7. QueueOK(t, h, visited)
  BY <1>3, <1>5, <1>6 DEF QueueOK
<1> QED BY <1>7 DEF h, t

\* When the head is farther than the entry before it, the whole circle of that
\* one has had its turn.
LEMMA NextCircle ==
  ASSUME SearchInv, rows = {}, queue # <<>>, Len(Head(queue).path) = Len(current.path) + 1
  PROVE  Within[Len(Head(queue).path)] \subseteq visited
<1> DEFINE d == Len(current.path)
<1>1. d \in Nat /\ Len(Head(queue).path) = d + 1 /\ d + 1 \in Nat
  BY Reading
<1>2. ASSUME NEW n, Queued(queue, n) PROVE n \notin Within[d]
  <2>1. PICK i \in DOMAIN queue : queue[i].node = n
    BY <1>2 DEF Queued
  <2>2. i \in Nat /\ 1 <= i /\ 1 \in DOMAIN queue /\ Head(queue) = queue[1] /\ queue[i] \in Entry
    BY Reading, HeadTail
  <2>3. Len(queue[1].path) <= Len(queue[i].path) /\ Placed(queue[i])
        /\ Len(queue[i].path) \in d .. d + 1
    BY <2>2 DEF SearchInv, Searched, QueueOK
  <2>4. Len(queue[i].path) = d + 1
    BY <1>1, <2>2, <2>3
  <2>5. At(n, d + 1) /\ d + 1 > 0 /\ (d + 1) - 1 = d
    BY <1>1, <2>1, <2>3, <2>4 DEF Placed
  <2> QED BY <2>5 DEF At
<1>3. ASSUME NEW n \in Within[d], NEW f \in Links, Here(f) = n PROVE There(f) \in visited
  <2>1. n \in visited /\ ~Queued(queue, n) /\ f \notin rows
    BY <1>2, <1>3 DEF SearchInv, Searched, VisitedOK
  <2>2. Inside(n)
    <3> SUFFICES ASSUME Bounded PROVE Limit > 0 /\ n \in Within[Limit - 1]
      BY DEF Inside
    <3>1. Limit \in Nat /\ d + 1 <= Limit
      BY <1>1, HeadOk, Reading, Limits DEF Placed
    <3>2. Limit > 0 /\ Limit - 1 \in Nat /\ d <= Limit - 1
      BY <1>1, <3>1
    <3> QED BY <1>1, <3>2, Reading, WithinGrows
  <2> QED BY <1>3, <2>1, <2>2 DEF SearchInv, Searched, VisitedOK
<1>4. Within[d] \subseteq visited
  BY DEF SearchInv, Searched, VisitedOK
<1>5. \A n \in Within[d + 1] \ Within[d] : n \in visited
  BY <1>1, <1>3, LastHop
<1> QED BY <1>1, <1>4, <1>5

\* What was visited when the head is taken.
LEMMA TakeVisited ==
  ASSUME SearchInv, rows = {}, queue # <<>>, question.op \in {"find", "impact", "path"},
         NEW rs, rs = IF AtLimit(Head(queue).path) THEN {}
                      ELSE {e \in InEnv(db, question.env) : Here(e) = Head(queue).node}
  PROVE  VisitedOK(Tail(queue), Head(queue), rs, visited)
<1> DEFINE h == Head(queue)
           t == Tail(queue)
           d == Len(current.path)
<1>1. /\ question.starts \subseteq visited
      /\ Within[d] \subseteq visited
      /\ \A n \in visited : n \in Within[d] \/ Queued(queue, n)
      /\ \A f \in Links : Here(f) \in visited /\ ~Queued(queue, Here(f)) /\ Inside(Here(f))
                            => There(f) \in visited
  BY DEF SearchInv, Searched, VisitedOK
<1>2. h \in Entry /\ Placed(h) /\ Len(h.path) \in Nat /\ (Len(h.path) = d \/ Len(h.path) = d + 1)
  BY HeadOk
<1>3. d \in Nat /\ Within[d] \subseteq Within[d + 1]
  <2>1. d \in Nat /\ d + 1 \in Nat /\ d <= d + 1
    BY Reading
  <2> HIDE DEF d
  <2> QED BY <2>1, Reading, WithinGrows
<1>4. \A n : Queued(queue, n) <=> n = h.node \/ Queued(t, n)
  BY Reading, QueuedTail
<1>5. Within[Len(h.path)] \subseteq visited
  BY <1>1, <1>2, NextCircle
<1>6. \A n \in visited : n \in Within[Len(h.path)] \/ Queued(t, n)
  <2>1. h.node \in Within[Len(h.path)]
    BY <1>2 DEF Placed, At
  <2>2. Within[d] \subseteq Within[Len(h.path)]
    BY <1>2, <1>3
  <2> QED BY <1>1, <1>4, <2>1, <2>2
<1>7. ASSUME NEW f \in Links, Here(f) \in visited, ~Queued(t, Here(f)), f \notin rs, Inside(Here(f))
      PROVE  There(f) \in visited
  <2>1. CASE Here(f) = h.node
    <3>1. ~AtLimit(h.path)
      BY <1>2, <1>7, <2>1, OutOfSight, Reading
    <3>2. f \in rs
      BY <2>1, <3>1 DEF Links
    <3> QED BY <1>7, <3>2
  <2>2. CASE Here(f) # h.node
    BY <1>1, <1>4, <1>7, <2>2
  <2> QED BY <2>1, <2>2
<1> HIDE DEF h, t, d
<1>8. VisitedOK(t, h, rs, visited)
  BY <1>1, <1>5, <1>6, <1>7 DEF VisitedOK
<1> QED BY <1>8 DEF h, t

\* The results when the head is taken: find_relevant_repos adds it.
LEMMA TakeResults ==
  ASSUME SearchInv, queue # <<>>,
         NEW res, res = IF question.op = "find" THEN Append(results, Head(queue)) ELSE results
  PROVE  ResultsOK(Tail(queue), visited, res) /\ res \in Seq(Entry)
<1> DEFINE h == Head(queue)
           t == Tail(queue)
<1>1. ResultsOK(queue, visited, results) /\ queue \in Seq(Entry) /\ results \in Seq(Entry)
  BY Reading DEF SearchInv, Searched
<1>2. h \in Entry /\ Placed(h) /\ h.node \in visited
  BY HeadOk
<1>3. CASE question.op # "find"
  BY <1>1, <1>3 DEF ResultsOK
<1>4. CASE question.op = "find"
  <2>1. res = Append(results, h) /\ res \in Seq(Entry)
    BY <1>1, <1>2, <1>4, OneMore
  <2>2. /\ \A i \in DOMAIN res : \/ i \in DOMAIN results /\ res[i] = results[i]
                                 \/ i = Len(results) + 1 /\ res[i] = h
        /\ \A i \in DOMAIN results : i \in DOMAIN res /\ res[i] = results[i]
        /\ Len(results) + 1 \in DOMAIN res /\ res[Len(results) + 1] = h
    BY <1>1, <1>2, <2>1, OneMore
  <2>3. \A n : Queued(queue, n) <=> n = h.node \/ Queued(t, n)
    BY <1>1, QueuedTail
  <2>4. /\ Distinct(results) /\ Distinct(queue)
        /\ \A i \in DOMAIN results : ~Queued(queue, results[i].node)
        /\ \A n \in visited : Queued(queue, n) \/ Queued(results, n)
    BY <1>1, <1>4 DEF ResultsOK
  <2>5. /\ h = queue[1] /\ 1 \in DOMAIN queue
        /\ \A i \in DOMAIN t : i \in Nat \ {0} /\ i + 1 \in DOMAIN queue /\ t[i] = queue[i + 1]
    BY <1>1, HeadTail
  <2> HIDE DEF h, t
  <2>6. Distinct(res)
    <3>1. \A i \in DOMAIN results : results[i].node # h.node
      BY <2>3, <2>4
    <3> QED BY <2>2, <2>4, <3>1 DEF Distinct
  <2>7. Distinct(t)
    <3>1. ASSUME NEW i \in DOMAIN t, NEW j \in DOMAIN t, t[i].node = t[j].node PROVE i = j
      <4>1. i + 1 \in DOMAIN queue /\ j + 1 \in DOMAIN queue
            /\ queue[i + 1].node = queue[j + 1].node /\ i \in Nat /\ j \in Nat
        BY <2>5, <3>1
      <4>2. i + 1 = j + 1
        BY <2>4, <4>1 DEF Distinct
      <4> QED BY <4>1, <4>2
    <3> QED BY <3>1 DEF Distinct
  <2>8. ~Queued(t, h.node)
    <3>1. ASSUME NEW i \in DOMAIN t, t[i].node = h.node PROVE FALSE
      <4>1. i + 1 \in DOMAIN queue /\ queue[i + 1].node = queue[1].node /\ i \in Nat \ {0}
        BY <2>5, <3>1
      <4>2. i + 1 = 1
        BY <2>4, <2>5, <4>1 DEF Distinct
      <4> QED BY <4>1, <4>2
    <3> QED BY <3>1 DEF Queued
  <2>9. \A i \in DOMAIN res : ~Queued(t, res[i].node)
    BY <2>2, <2>3, <2>4, <2>8
  <2>10. \A n \in visited : Queued(t, n) \/ Queued(res, n)
    <3>1. \A n : Queued(results, n) => Queued(res, n)
      BY <2>2 DEF Queued
    <3>2. Queued(res, h.node)
      BY <2>2 DEF Queued
    <3> QED BY <2>3, <2>4, <3>1, <3>2
  <2>11. \A i \in DOMAIN res : Placed(res[i]) /\ res[i].node \in visited
    BY <1>1, <1>2, <2>2 DEF ResultsOK
  <2>12. Bounded
    BY <1>4 DEF Bounded
  <2>13. ResultsOK(t, visited, res)
    BY <1>4, <2>6, <2>7, <2>9, <2>10, <2>11, <2>12 DEF ResultsOK
  <2> QED BY <2>1, <2>13 DEF t
<1> QED BY <1>3, <1>4

\* One more result is found by its last edge.
LEMMA FoundMore ==
  ASSUME NEW res \in Seq(Entry), NEW r \in Entry
  PROVE  /\ Found(res) \subseteq Found(Append(res, r))
         /\ r.path # <<>> => r.path[Len(r.path)] \in Found(Append(res, r))
<1>1. ToSet(res) \subseteq ToSet(Append(res, r)) /\ r \in ToSet(Append(res, r))
  BY OneMore DEF ToSet
<1> QED BY <1>1 DEF Found, Last

\* The ways when the head is taken.
LEMMA TakeWays ==
  ASSUME SearchInv, queue # <<>>,
         NEW res, res = IF question.op = "find" THEN Append(results, Head(queue)) ELSE results
  PROVE  WaysOK(Tail(queue), Head(queue), res)
<1> DEFINE h == Head(queue)
           t == Tail(queue)
<1> SUFFICES ASSUME Bounded PROVE WaysOK(t, h, res)
  BY DEF WaysOK
<1>1. /\ \A i \in DOMAIN results : ToSet(results[i].path) \subseteq Found(results)
      /\ \A i \in DOMAIN queue : \A k \in DOMAIN queue[i].path :
           queue[i].path[k] \in Found(results) \/ (question.op = "find" /\ k = Len(queue[i].path))
  BY DEF SearchInv, Searched, WaysOK
<1>2. queue \in Seq(Entry) /\ results \in Seq(Entry) /\ h \in Entry /\ h.path \in Seq(Edge)
  BY Reading, HeadOk
<1>3. /\ h = queue[1] /\ 1 \in DOMAIN queue
      /\ \A i \in DOMAIN t : i + 1 \in DOMAIN queue /\ t[i] = queue[i + 1]
  BY <1>2, HeadTail
<1>4. Found(results) \subseteq Found(res)
  BY <1>2, FoundMore
<1> HIDE DEF h, t
<1>5. ToSet(h.path) \subseteq Found(res)
  <2>1. ASSUME NEW k \in DOMAIN h.path PROVE h.path[k] \in Found(res)
    <3>1. h.path[k] \in Found(results) \/ (question.op = "find" /\ k = Len(h.path))
      BY <1>1, <1>3
    <3>2. h.path # <<>>
      BY <1>2
    <3>3. question.op = "find" => h.path[Len(h.path)] \in Found(res)
      BY <1>2, <3>2, FoundMore DEF h
    <3> QED BY <1>4, <3>1, <3>3
  <2> QED BY <2>1 DEF ToSet
<1>6. \A i \in DOMAIN res : ToSet(res[i].path) \subseteq Found(res)
  <2>1. \A i \in DOMAIN res : \/ i \in DOMAIN results /\ res[i] = results[i]
                              \/ res[i] = h
    BY <1>2, OneMore DEF h
  <2> QED BY <1>1, <1>4, <1>5, <2>1
<1>7. ASSUME NEW i \in DOMAIN t, NEW k \in DOMAIN t[i].path
      PROVE  t[i].path[k] \in Found(res) \/ (question.op = "find" /\ k = Len(t[i].path))
  BY <1>1, <1>3, <1>4
<1> QED BY <1>5, <1>6, <1>7 DEF WaysOK

\* Taking the head keeps the invariant.
LEMMA TakeStep ==
  ASSUME SearchInv, Take
  PROVE  SearchInv'
<1>1. /\ rows = {} /\ queue # <<>> /\ question.op \in {"find", "impact", "path"}
      /\ current' = Head(queue) /\ queue' = Tail(queue)
      /\ rows' = IF AtLimit(Head(queue).path) THEN {}
                 ELSE {e \in InEnv(db, question.env) : Here(e) = Head(queue).node}
      /\ results' = IF question.op = "find" THEN Append(results, Head(queue)) ELSE results
      /\ visited' = visited /\ db' = db /\ question' = question
  BY DEF Take, Searching
<1>2. QueueOK(queue', current', visited')
  BY <1>1, TakeQueue
<1>3. VisitedOK(queue', current', rows', visited')
  BY <1>1, TakeVisited
<1>4. ResultsOK(queue', visited', results') /\ results' \in Seq(Entry)
  BY <1>1, TakeResults
<1>5. WaysOK(queue', current', results')
  BY <1>1, TakeWays
<1>6. current' \in Entry /\ current' # Nobody /\ queue' \in Seq(Entry)
  <2>1. Head(queue) \in Entry
    BY <1>1, HeadOk
  <2>2. Nobody \notin Entry
    BY NodesAssumption DEF Nobody, Entry
  <2> QED BY <1>1, <2>1, <2>2, Reading, HeadTail
<1>7. RowsOK(rows', current')
  BY <1>1, <1>6 DEF RowsOK
<1>8. Typing(queue', current', rows', visited', results')
  <2>1. rows' \subseteq Edge
    BY <1>1, Reading, EdgesOf
  <2> QED BY <1>1, <1>4, <1>6, <2>1, Reading DEF Typing
<1>9. Searched(queue', current', rows', visited', results')
  BY <1>2, <1>3, <1>4, <1>5, <1>7, <1>8, Reading DEF Searched
<1> QED BY <1>1, <1>9, Primed

-----------------------------------------------------------------------------
(***************************************************************************)
(* Looking at an edge.                                                     *)
(***************************************************************************)
\* An edge that is looked at leads on from the current entry, which may go on.
LEMMA AtEdge ==
  ASSUME SearchInv, NEW e \in rows
  PROVE  /\ e \in Edge /\ e \in InEnv(db, question.env) /\ Here(e) = current.node
         /\ There(e) \in Nodes
         /\ current \in Entry /\ Placed(current) /\ current.node \in visited
         /\ question.op \in {"find", "impact", "path"}
         /\ Bounded => Limit \in Nat /\ Len(current.path) + 1 <= Limit
<1>1. /\ current # Nobody /\ ~AtLimit(current.path)
      /\ question.op \in {"find", "impact", "path"}
      /\ e \in InEnv(db, question.env) /\ Here(e) = current.node
  BY DEF SearchInv, Searched, RowsOK
<1>2. current \in Entry /\ Placed(current) /\ current.node \in visited
  BY <1>1 DEF SearchInv, Searched, QueueOK
<1>3. e \in Edge /\ There(e) \in Nodes
  BY Reading, EdgesOf
<1>4. Len(current.path) \in Nat
  BY Reading
<1>5. Bounded => Limit \in Nat /\ ~(Len(current.path) >= Limit)
  BY <1>1, <1>4, Reading, Limits
<1> QED BY <1>1, <1>2, <1>3, <1>4, <1>5

\* What is found by an edge is one hop farther than the current entry, by a way
\* that is one edge longer.
LEMMA NewEntry ==
  ASSUME SearchInv, NEW e \in rows, Passes(e), There(e) \notin visited
  PROVE  /\ Reached(e) \in Entry /\ Placed(Reached(e)) /\ Reached(e).node = There(e)
         /\ Len(Reached(e).path) = Len(current.path) + 1
         /\ Reached(e).path = Append(current.path, e)
<1> DEFINE p == current.path
           d == Len(p)
<1>1. /\ e \in Edge /\ e \in InEnv(db, question.env) /\ Here(e) = current.node
      /\ There(e) \in Nodes
      /\ current \in Entry /\ Placed(current)
      /\ question.op \in {"find", "impact", "path"}
      /\ Bounded => Limit \in Nat /\ d + 1 <= Limit
  BY AtEdge
<1>2. p \in Seq(Edge) /\ d \in Nat
  BY <1>1, Reading
<1>3. Reached(e) = [node |-> There(e), path |-> Append(p, e)]
  BY DEF Reached
<1>4. Append(p, e) \in Seq(Edge) /\ Len(Append(p, e)) = d + 1
  BY <1>1, <1>2
<1>5. Reached(e) \in Entry /\ Reached(e).node = There(e) /\ Reached(e).path = Append(p, e)
      /\ Len(Reached(e).path) = d + 1
  BY <1>1, <1>3, <1>4 DEF Entry
<1>6. e \in Links
  BY <1>1, PassesTrusted, Reading DEF Links
<1>7. At(There(e), d + 1)
  <2>1. Here(e) \in Within[d]
    BY <1>1 DEF Placed, At
  <2>2. There(e) \in Within[d + 1]
    BY <1>2, <1>6, <2>1, OneHop
  <2>3. Within[d] \subseteq visited
    BY DEF SearchInv, Searched, VisitedOK
  <2>4. (d + 1) - 1 = d
    BY <1>2
  <2> QED BY <2>2, <2>3, <2>4 DEF At
<1>8. IsWay(Reached(e))
  <2>1. /\ \A i \in DOMAIN p : p[i] \in InEnv(db, question.env)
        /\ \A i \in 1 .. d - 1 : There(p[i]) = Here(p[i + 1])
        /\ IF p = <<>> THEN current.node \in question.starts
           ELSE Here(p[1]) \in question.starts /\ There(Last(p)) = current.node
    BY <1>1 DEF Placed, IsWay
  <2> DEFINE w == Append(p, e)
  <2>2. /\ DOMAIN p = 1 .. d /\ DOMAIN w = 1 .. d + 1 /\ Len(w) = d + 1
        /\ \A i \in 1 .. d : w[i] = p[i]
        /\ w[d + 1] = e /\ w # <<>> /\ (p = <<>> <=> d = 0)
    BY <1>1, <1>2
  <2> HIDE DEF w
  <2>3. \A i \in DOMAIN w : w[i] \in InEnv(db, question.env)
    <3> TAKE i \in DOMAIN w
    <3>1. CASE i = d + 1
      BY <1>1, <2>2, <3>1
    <3>2. CASE i # d + 1
      <4>1. i \in 1 .. d
        BY <1>2, <2>2, <3>2
      <4> QED BY <2>1, <2>2, <4>1
    <3> QED BY <3>1, <3>2
  <2>4. \A i \in 1 .. Len(w) - 1 : There(w[i]) = Here(w[i + 1])
    <3> TAKE i \in 1 .. Len(w) - 1
    <3>1. CASE i = d
      <4>1. d \in 1 .. d /\ p # <<>> /\ There(p[d]) = current.node
        BY <1>2, <2>1, <2>2, <3>1 DEF Last
      <4> QED BY <1>1, <2>2, <3>1, <4>1
    <3>2. CASE i # d
      <4>1. i \in 1 .. d - 1 /\ i \in 1 .. d /\ i + 1 \in 1 .. d
        BY <1>2, <2>2, <3>2
      <4> QED BY <2>1, <2>2, <4>1
    <3> QED BY <3>1, <3>2
  <2>5. Here(w[1]) \in question.starts
    <3>1. CASE d = 0
      <4>1. w[1] = e /\ current.node \in question.starts
        BY <2>1, <2>2, <3>1
      <4> QED BY <1>1, <4>1
    <3>2. CASE d # 0
      <4>1. 1 \in 1 .. d
        BY <1>2, <3>2
      <4> QED BY <2>1, <2>2, <3>2, <4>1
    <3> QED BY <3>1, <3>2
  <2>6. Last(w) = e
    BY <2>2 DEF Last
  <2>7. Reached(e).path = w
    BY <1>5 DEF w
  <2> QED BY <1>5, <2>2, <2>3, <2>4, <2>5, <2>6, <2>7 DEF IsWay
<1>9. Placed(Reached(e))
  BY <1>1, <1>5, <1>7, <1>8 DEF Placed
<1> HIDE DEF p, d
<1> QED BY <1>5, <1>9 DEF p, d

\* An edge that is passed over leads nowhere new.
LEMMA PassStep ==
  ASSUME SearchInv, NEW e \in rows, PassOver(e)
  PROVE  SearchInv'
<1>1. /\ rows' = rows \ {e} /\ db' = db /\ question' = question /\ queue' = queue
      /\ current' = current /\ visited' = visited /\ results' = results
      /\ ~Passes(e) \/ There(e) \in visited
  BY DEF PassOver
<1>2. RowsOK(rows', current)
  BY <1>1 DEF SearchInv, Searched, RowsOK
<1>3. VisitedOK(queue, current, rows', visited)
  <2>1. e \in Links => There(e) \in visited
    BY <1>1, AtEdge, PassesTrusted, Reading DEF Links
  <2>2. ASSUME NEW f \in Links, Here(f) \in visited, ~Queued(queue, Here(f)), f \notin rows',
               Inside(Here(f))
        PROVE  There(f) \in visited
    BY <1>1, <2>1, <2>2 DEF SearchInv, Searched, VisitedOK
  <2> QED BY <2>2 DEF SearchInv, Searched, VisitedOK
<1>4. Typing(queue, current, rows', visited, results)
  BY <1>1 DEF SearchInv, Searched, Typing
<1>5. Searched(queue', current', rows', visited', results')
  BY <1>1, <1>2, <1>3, <1>4 DEF SearchInv, Searched
<1> QED BY <1>1, <1>5, Primed

\* A new repository is queued last.
LEMMA VisitQueue ==
  ASSUME SearchInv, NEW e \in rows, Passes(e), There(e) \notin visited
  PROVE  QueueOK(Append(queue, Reached(e)), current, visited \cup {There(e)})
<1> DEFINE r == Reached(e)
           q == Append(queue, r)
           v == visited \cup {There(e)}
           d == Len(current.path)
<1>1. r \in Entry /\ Placed(r) /\ r.node = There(e) /\ Len(r.path) = d + 1
  BY NewEntry
<1>2. current \in Entry /\ Placed(current) /\ current.node \in visited /\ d \in Nat
  BY AtEdge, Reading
<1>3. /\ \A i \in DOMAIN queue : /\ Placed(queue[i]) /\ queue[i].node \in visited
                                 /\ Len(queue[i].path) \in d .. d + 1
      /\ \A i, j \in DOMAIN queue : i <= j => Len(queue[i].path) <= Len(queue[j].path)
  BY DEF SearchInv, Searched, QueueOK
<1> HIDE DEF r
<1>4. /\ \A i \in DOMAIN q : \/ i \in DOMAIN queue /\ q[i] = queue[i] /\ i <= Len(queue)
                             \/ i = Len(queue) + 1 /\ q[i] = r
      /\ Len(queue) \in Nat
  BY <1>1, Reading, OneMore
<1> HIDE DEF q, d
<1>5. ASSUME NEW i \in DOMAIN q
      PROVE  Placed(q[i]) /\ q[i].node \in v /\ Len(q[i].path) \in d .. d + 1
  BY <1>1, <1>2, <1>3, <1>4
<1>6. ASSUME NEW i \in DOMAIN q, NEW j \in DOMAIN q, i <= j
      PROVE  Len(q[i].path) <= Len(q[j].path)
  <2>1. CASE j \in DOMAIN queue /\ q[j] = queue[j] /\ j <= Len(queue)
    <3>1. i \in DOMAIN queue /\ q[i] = queue[i]
      BY <1>4, <1>6, <2>1
    <3> QED BY <1>3, <1>6, <2>1, <3>1
  <2>2. CASE q[j] = r
    BY <1>1, <1>2, <1>5, <2>2
  <2> QED BY <1>4, <2>1, <2>2
<1>7. QueueOK(q, current, v)
  BY <1>2, <1>5, <1>6 DEF QueueOK, d
<1> QED BY <1>7 DEF q, r

\* What was visited when a new repository is.
LEMMA VisitVisited ==
  ASSUME SearchInv, NEW e \in rows, Passes(e), There(e) \notin visited
  PROVE  VisitedOK(Append(queue, Reached(e)), current, rows \ {e}, visited \cup {There(e)})
<1> DEFINE q == Append(queue, Reached(e))
           v == visited \cup {There(e)}
           d == Len(current.path)
<1>1. /\ question.starts \subseteq visited
      /\ Within[d] \subseteq visited
      /\ \A n \in visited : n \in Within[d] \/ Queued(queue, n)
      /\ \A f \in Links : Here(f) \in visited /\ ~Queued(queue, Here(f)) /\ f \notin rows
                            /\ Inside(Here(f)) => There(f) \in visited
  BY DEF SearchInv, Searched, VisitedOK
<1>2. Reached(e) \in Entry /\ Reached(e).node = There(e)
  BY NewEntry
<1>3. \A n : Queued(queue, n) \/ n = There(e) => Queued(q, n)
  BY <1>2, Reading, OneMore DEF Queued
<1> HIDE DEF q, d
<1>4. \A n \in v : n \in Within[d] \/ Queued(q, n)
  BY <1>1, <1>3
<1>5. ASSUME NEW f \in Links, Here(f) \in v, ~Queued(q, Here(f)), f \notin rows \ {e}, Inside(Here(f))
      PROVE  There(f) \in v
  <2>1. Here(f) \in visited /\ ~Queued(queue, Here(f))
    BY <1>3, <1>5
  <2>2. CASE f = e
    BY <2>2
  <2>3. CASE f # e
    BY <1>1, <1>5, <2>1, <2>3
  <2> QED BY <2>2, <2>3
<1>6. VisitedOK(q, current, rows \ {e}, v)
  BY <1>1, <1>4, <1>5 DEF VisitedOK, d
<1> QED BY <1>6 DEF q

\* The results when a new repository is visited: impact_analysis adds it.
LEMMA VisitResults ==
  ASSUME SearchInv, NEW e \in rows, Visit(e)
  PROVE  ResultsOK(queue', visited', results') /\ results' \in Seq(Entry)
<1> DEFINE r == Reached(e)
           q == Append(queue, r)
           v == visited \cup {There(e)}
<1>1. /\ Passes(e) /\ There(e) \notin visited
      /\ question.op = "path" => There(e) # question.goal
      /\ visited' = v /\ queue' = q
      /\ results' = IF question.op = "impact" THEN Append(results, r) ELSE results
  BY DEF Visit
<1>2. r \in Entry /\ Placed(r) /\ r.node = There(e)
  BY <1>1, NewEntry
<1>3. ResultsOK(queue, visited, results) /\ queue \in Seq(Entry) /\ results \in Seq(Entry)
  BY Reading DEF SearchInv, Searched
<1> HIDE DEF r, v
<1>4. There(e) \notin visited /\ v = visited \cup {There(e)}
  BY <1>1 DEF v
<1>5. /\ \A i \in DOMAIN q : \/ i \in DOMAIN queue /\ q[i] = queue[i]
                             \/ i = Len(queue) + 1 /\ q[i] = r
      /\ \A i \in DOMAIN queue : i \in DOMAIN q /\ q[i] = queue[i]
      /\ Len(queue) + 1 \in DOMAIN q /\ q[Len(queue) + 1] = r
  BY <1>2, <1>3, OneMore
<1> HIDE DEF q
<1>6. \A n : Queued(q, n) <=> Queued(queue, n) \/ n = There(e)
  BY <1>2, <1>5 DEF Queued
<1>7. \A i \in DOMAIN results : Placed(results[i]) /\ results[i].node \in visited
  BY <1>3 DEF ResultsOK
<1>8. CASE question.op = "find"
  <2>1. results' = results
    BY <1>1, <1>8
  <2>2. /\ Distinct(results) /\ Distinct(queue)
        /\ \A i \in DOMAIN results : ~Queued(queue, results[i].node)
        /\ \A n \in visited : Queued(queue, n) \/ Queued(results, n)
    BY <1>3, <1>8 DEF ResultsOK
  <2>3. \A i \in DOMAIN queue : queue[i].node \in visited
    BY DEF SearchInv, Searched, QueueOK
  <2>4. Distinct(q)
    BY <1>2, <1>4, <1>5, <2>2, <2>3 DEF Distinct
  <2>5. \A i \in DOMAIN results : ~Queued(q, results[i].node)
    BY <1>4, <1>6, <1>7, <2>2
  <2>6. \A n \in v : Queued(q, n) \/ Queued(results, n)
    BY <1>4, <1>6, <2>2
  <2>7. \A i \in DOMAIN results : Placed(results[i]) /\ results[i].node \in v
    BY <1>4, <1>7
  <2>8. ResultsOK(q, v, results)
    BY <1>8, <2>2, <2>4, <2>5, <2>6, <2>7 DEF ResultsOK, Bounded
  <2> QED BY <1>1, <1>3, <2>1, <2>8
<1>9. CASE question.op = "impact"
  <2> DEFINE s == Append(results, r)
  <2>1. results' = s
    BY <1>1, <1>9
  <2>2. /\ s \in Seq(Entry)
        /\ \A i \in DOMAIN s : \/ i \in DOMAIN results /\ s[i] = results[i]
                               \/ i = Len(results) + 1 /\ s[i] = r
        /\ \A i \in DOMAIN results : i \in DOMAIN s /\ s[i] = results[i]
        /\ Len(results) + 1 \in DOMAIN s /\ s[Len(results) + 1] = r
    BY <1>2, <1>3, OneMore
  <2> HIDE DEF s
  <2>3. Distinct(results) /\ \A n : Queued(results, n) <=> n \in visited \ question.starts
    BY <1>3, <1>9 DEF ResultsOK
  <2>4. question.starts \subseteq visited
    BY DEF SearchInv, Searched, VisitedOK
  <2>5. Distinct(s)
    BY <1>2, <1>4, <1>7, <2>2, <2>3 DEF Distinct
  <2>6. \A n : Queued(s, n) <=> Queued(results, n) \/ n = There(e)
    BY <1>2, <2>2 DEF Queued
  <2>7. \A n : Queued(s, n) <=> n \in v \ question.starts
    BY <1>4, <2>3, <2>4, <2>6
  <2>8. \A i \in DOMAIN s : Placed(s[i]) /\ s[i].node \in v
    BY <1>2, <1>4, <1>7, <2>2
  <2>9. ResultsOK(q, v, s)
    BY <1>9, <2>5, <2>7, <2>8 DEF ResultsOK, Bounded
  <2> QED BY <1>1, <2>1, <2>2, <2>9
<1>10. CASE question.op \notin {"find", "impact"}
  <2>1. results' = results /\ results = <<>>
    BY <1>1, <1>3, <1>10 DEF ResultsOK, Bounded
  <2>2. question.op = "path" /\ question.goal \in v => question.goal \in question.starts
    BY <1>1, <1>3, <1>4, <1>10 DEF ResultsOK
  <2>3. ResultsOK(q, v, results)
    BY <1>4, <1>7, <1>10, <2>1, <2>2 DEF ResultsOK
  <2> QED BY <1>1, <1>3, <2>1, <2>3
<1> QED BY <1>8, <1>9, <1>10

\* The ways when a new repository is visited.
LEMMA VisitWays ==
  ASSUME SearchInv, NEW e \in rows, Visit(e)
  PROVE  WaysOK(queue', current, results')
<1> DEFINE r == Reached(e)
           q == Append(queue, r)
           p == current.path
<1> SUFFICES ASSUME Bounded PROVE WaysOK(queue', current, results')
  BY DEF WaysOK
<1>1. /\ Passes(e) /\ There(e) \notin visited /\ queue' = q
      /\ results' = IF question.op = "impact" THEN Append(results, r) ELSE results
  BY DEF Visit
<1>2. r \in Entry /\ r.path = Append(p, e) /\ e \in Edge /\ p \in Seq(Edge)
  BY <1>1, NewEntry, AtEdge DEF Entry
<1>3. /\ ToSet(p) \subseteq Found(results)
      /\ \A i \in DOMAIN results : ToSet(results[i].path) \subseteq Found(results)
      /\ \A i \in DOMAIN queue : \A k \in DOMAIN queue[i].path :
           queue[i].path[k] \in Found(results) \/ (question.op = "find" /\ k = Len(queue[i].path))
      /\ results \in Seq(Entry) /\ queue \in Seq(Entry)
  BY Reading DEF SearchInv, Searched, WaysOK
<1> HIDE DEF r, p
<1>4. \A i \in DOMAIN q : (i \in DOMAIN queue /\ q[i] = queue[i]) \/ q[i] = r
  BY <1>2, <1>3, OneMore
<1>5. /\ r.path # <<>> /\ Len(r.path) = Len(p) + 1 /\ r.path[Len(r.path)] = e
      /\ \A k \in DOMAIN r.path : (k \in DOMAIN p /\ r.path[k] = p[k]) \/ k = Len(r.path)
  <2>1. /\ \A k \in DOMAIN Append(p, e) : (k \in DOMAIN p /\ Append(p, e)[k] = p[k]) \/ k = Len(p) + 1
        /\ Len(Append(p, e)) = Len(p) + 1 /\ Append(p, e)[Len(p) + 1] = e
    BY <1>2, OneMore
  <2>2. Append(p, e) # <<>>
    BY <1>2
  <2> QED BY <1>2, <2>1, <2>2
<1>6. \A k \in DOMAIN r.path : r.path[k] \in Found(results) \/ k = Len(r.path)
  BY <1>3, <1>5 DEF ToSet
<1> HIDE DEF q
<1>7. CASE question.op = "impact"
  <2> DEFINE s == Append(results, r)
  <2>1. results' = s
    BY <1>1, <1>7
  <2>2. Found(results) \subseteq Found(s) /\ e \in Found(s)
    BY <1>2, <1>3, <1>5, FoundMore
  <2>3. \A i \in DOMAIN s : (i \in DOMAIN results /\ s[i] = results[i]) \/ s[i] = r
    BY <1>2, <1>3, OneMore
  <2> HIDE DEF s
  <2>4. ToSet(r.path) \subseteq Found(s)
    BY <1>5, <1>6, <2>2 DEF ToSet
  <2>5. \A i \in DOMAIN s : ToSet(s[i].path) \subseteq Found(s)
    BY <1>3, <2>2, <2>3, <2>4
  <2>6. ASSUME NEW i \in DOMAIN q, NEW k \in DOMAIN q[i].path
        PROVE  q[i].path[k] \in Found(s) \/ (question.op = "find" /\ k = Len(q[i].path))
    <3>1. CASE i \in DOMAIN queue /\ q[i] = queue[i]
      BY <1>3, <2>2, <2>6, <3>1
    <3>2. CASE q[i] = r
      BY <2>4, <2>6, <3>2 DEF ToSet
    <3> QED BY <1>4, <3>1, <3>2
  <2>7. ToSet(current.path) \subseteq Found(s)
    BY <1>3, <2>2 DEF p
  <2> QED BY <1>1, <2>1, <2>5, <2>6, <2>7 DEF WaysOK
<1>8. CASE question.op = "find"
  <2>1. results' = results
    BY <1>1, <1>8
  <2>2. ASSUME NEW i \in DOMAIN q, NEW k \in DOMAIN q[i].path
        PROVE  q[i].path[k] \in Found(results) \/ k = Len(q[i].path)
    <3>1. CASE i \in DOMAIN queue /\ q[i] = queue[i]
      BY <1>3, <2>2, <3>1
    <3>2. CASE q[i] = r
      BY <1>6, <2>2, <3>2
    <3> QED BY <1>4, <3>1, <3>2
  <2>3. ToSet(current.path) \subseteq Found(results)
    BY <1>3 DEF p
  <2> QED BY <1>1, <1>3, <1>8, <2>1, <2>2, <2>3 DEF WaysOK
<1> QED BY <1>7, <1>8 DEF Bounded

\* Visiting a repository keeps the invariant.
LEMMA VisitStep ==
  ASSUME SearchInv, NEW e \in rows, Visit(e)
  PROVE  SearchInv'
<1>1. /\ Passes(e) /\ There(e) \notin visited
      /\ visited' = visited \cup {There(e)} /\ queue' = Append(queue, Reached(e))
      /\ rows' = rows \ {e} /\ current' = current /\ db' = db /\ question' = question
  BY DEF Visit
<1>2. QueueOK(queue', current', visited')
  BY <1>1, VisitQueue
<1>3. VisitedOK(queue', current', rows', visited')
  BY <1>1, VisitVisited
<1>4. ResultsOK(queue', visited', results') /\ results' \in Seq(Entry)
  BY VisitResults
<1>5. WaysOK(queue', current', results')
  BY <1>1, VisitWays
<1>6. RowsOK(rows', current')
  BY <1>1 DEF SearchInv, Searched, RowsOK
<1>7. queue' \in Seq(Entry) /\ visited' \subseteq Nodes
  <2>1. Reached(e) \in Entry
    BY <1>1, NewEntry
  <2>2. queue' \in Seq(Entry)
    BY <1>1, <2>1, Reading, OneMore
  <2> QED BY <1>1, <2>2, AtEdge, Reading
<1>8. Typing(queue', current', rows', visited', results')
  BY <1>1, <1>4, <1>7, Reading DEF Typing
<1>9. Searched(queue', current', rows', visited', results')
  BY <1>2, <1>3, <1>4, <1>5, <1>6, <1>8, Reading DEF Searched
<1> QED BY <1>1, <1>9, Primed

-----------------------------------------------------------------------------
(***************************************************************************)
(* The search from its start to its answer.                                *)
(***************************************************************************)
\* Before anything is taken from the queue, the starts wait in it.
LEMMA InitSearched ==
  ASSUME Init
  PROVE  SearchInv
<1>1. /\ db \in [nodes : {Nodes}, edges : Seq(Edge)] /\ question \in Question
      /\ current = Nobody /\ rows = {} /\ visited = question.starts /\ results = <<>>
  BY GraphsAssumption, QuestionsAssumption DEF Init
<1>2. PICK order \in SetToSeqs(question.starts) :
        queue = [i \in DOMAIN order |-> [node |-> order[i], path |-> <<>>]]
  BY DEF Init
<1>3. question.starts \subseteq Nodes /\ IsFiniteSet(question.starts)
  BY <1>1, Asked, NodesAssumption, FS_Subset
<1>4. /\ Len(order) \in Nat /\ DOMAIN order = 1 .. Len(order)
      /\ \A i \in DOMAIN order : order[i] \in question.starts
      /\ \A i, j \in DOMAIN order : order[i] = order[j] => i = j
  <2>1. /\ Cardinality(question.starts) \in Nat
        /\ order \in [1 .. Cardinality(question.starts) -> question.starts]
        /\ \A i, j \in 1 .. Cardinality(question.starts) : i # j => order[i] # order[j]
    BY <1>2, <1>3, FS_CardinalityType DEF SetToSeqs
  <2> HIDE DEF Init
  <2>2. ASSUME NEW m \in Nat, order \in [1 .. m -> question.starts]
        PROVE  Len(order) = m /\ DOMAIN order = 1 .. m
    BY <2>2
  <2> QED BY <2>1, <2>2
<1>5. \A s \in question.starts : \E k \in 1 .. Len(order) : order[k] = s
  BY <1>3, Ordered
<1>6. /\ DOMAIN queue = 1 .. Len(order)
      /\ \A i \in DOMAIN queue : queue[i].node = order[i] /\ queue[i].path = <<>>
                                 /\ queue[i].node \in question.starts /\ queue[i] \in Entry
  <2>1. \A s \in question.starts : [node |-> s, path |-> <<>>] \in Entry
    BY <1>3 DEF Entry
  <2> QED BY <1>2, <1>4, <2>1
<1>7. queue \in Seq(Entry)
  <2>1. queue = [i \in 1 .. Len(order) |-> queue[i]]
    BY <1>2, <1>4
  <2> QED BY <1>4, <1>6, <2>1
<1>8. Nobody.path = <<>> /\ Len(<<>>) = 0 /\ DOMAIN <<>> = {}
  BY DEF Nobody
<1>9. Within[0] = question.starts
  BY WithinFacts
<1>10. \A i \in DOMAIN queue : Placed(queue[i])
  <2> TAKE i \in DOMAIN queue
  <2>1. queue[i].node \in question.starts /\ queue[i].path = <<>> /\ Len(queue[i].path) = 0
    BY <1>6, <1>8
  <2>2. At(queue[i].node, 0)
    BY <1>9, <2>1 DEF At
  <2>3. IsWay(queue[i])
    BY <2>1, <1>8 DEF IsWay
  <2>4. Bounded => 0 <= Limit
    BY <1>1, Limits
  <2> QED BY <2>1, <2>2, <2>3, <2>4 DEF Placed
<1>11. QueueOK(queue, current, visited)
  <2>1. Len(current.path) = 0 /\ \A i \in DOMAIN queue : Len(queue[i].path) = 0
    BY <1>1, <1>6, <1>8
  <2> QED BY <1>1, <1>6, <1>10, <2>1 DEF QueueOK
<1>12. RowsOK(rows, current)
  BY <1>1 DEF RowsOK
<1>13. \A n \in question.starts : Queued(queue, n)
  BY <1>5, <1>6 DEF Queued
<1>14. VisitedOK(queue, current, rows, visited)
  BY <1>1, <1>8, <1>9, <1>13 DEF VisitedOK
<1>15. ResultsOK(queue, visited, results)
  <2>1. Distinct(queue)
    BY <1>4, <1>6 DEF Distinct
  <2>2. Distinct(results) /\ DOMAIN results = {} /\ \A n : ~Queued(results, n)
    BY <1>1, <1>8 DEF Distinct, Queued
  <2> QED BY <1>1, <1>13, <2>1, <2>2 DEF ResultsOK
<1>16. WaysOK(queue, current, results)
  <2>1. ToSet(current.path) = {} /\ DOMAIN results = {}
        /\ \A i \in DOMAIN queue : DOMAIN queue[i].path = {}
    BY <1>1, <1>6, <1>8 DEF ToSet
  <2> QED BY <2>1 DEF WaysOK
<1>17. Typing(queue, current, rows, visited, results)
  BY <1>1, <1>3, <1>7 DEF Typing
<1> QED BY <1>1, <1>11, <1>12, <1>14, <1>15, <1>16, <1>17 DEF SearchInv, Searched

\* Every step keeps the invariant.
LEMMA NextSearched ==
  ASSUME SearchInv, [Next]_vars
  PROVE  SearchInv'
<1>1. ASSUME UNCHANGED <<db, question, queue, current, rows, visited, results>> PROVE SearchInv'
  <2>1. Searched(queue', current', rows', visited', results')
    BY <1>1 DEF SearchInv
  <2> QED BY <1>1, <2>1, Primed
<1>2. CASE Take
  BY <1>2, TakeStep
<1>3. CASE Finish
  BY <1>1, <1>3 DEF Finish
<1>4. CASE Compare
  BY <1>1, <1>4 DEF Compare
<1>5. CASE Explain
  BY <1>1, <1>5 DEF Explain
<1>6. ASSUME NEW e \in rows, PassOver(e) PROVE SearchInv'
  BY <1>6, PassStep
<1>7. ASSUME NEW e \in rows, Visit(e) PROVE SearchInv'
  BY <1>7, VisitStep
<1>8. ASSUME NEW e \in rows, Arrive(e) PROVE SearchInv'
  BY <1>1, <1>8 DEF Arrive
<1>9. CASE UNCHANGED vars
  BY <1>1, <1>9 DEF vars
<1> QED BY <1>2, <1>3, <1>4, <1>5, <1>6, <1>7, <1>8, <1>9 DEF Next

\* The search is where its invariant says, at all times.
THEOREM SearchHolds == Spec => []SearchInv
<1>1. Init => SearchInv
  BY InitSearched
<1>2. SearchInv /\ [Next]_vars => SearchInv'
  BY NextSearched
<1> QED BY <1>1, <1>2, PTL DEF Spec

-----------------------------------------------------------------------------
(***************************************************************************)
(* The answer.                                                             *)
(***************************************************************************)
\* When nothing is left to look at, everything within the limit was visited.
LEMMA AllVisited ==
  ASSUME SearchInv, rows = {}, queue = <<>>, NEW k \in Nat, Bounded => k <= Limit
  PROVE  Within[k] \subseteq visited
<1> DEFINE Bad == {l \in Nat : l <= k /\ ~(Within[l] \subseteq visited)}
<1> SUFFICES ASSUME Bad # {} PROVE FALSE
  OBVIOUS
<1>1. PICK l \in Bad : \A m \in Bad : l <= m
  BY Least
<1>2. /\ question.starts \subseteq visited
      /\ \A f \in Links : Here(f) \in visited /\ ~Queued(queue, Here(f)) /\ f \notin rows
                            /\ Inside(Here(f)) => There(f) \in visited
  BY DEF SearchInv, Searched, VisitedOK
<1>3. l \in Nat /\ l <= k /\ ~(Within[l] \subseteq visited) /\ l # 0
  BY <1>1, <1>2, WithinFacts
<1>4. l - 1 \in Nat /\ (l - 1) + 1 = l /\ ~(l <= l - 1) /\ l - 1 <= k
  BY <1>3
<1>5. Within[l - 1] \subseteq visited
  BY <1>1, <1>4
<1>6. PICK n : n \in Within[l] /\ n \notin visited
  BY <1>3
<1>7. n \in Within[(l - 1) + 1] \ Within[l - 1]
  BY <1>4, <1>5, <1>6
<1>8. PICK f \in Links : Here(f) \in Within[l - 1] /\ There(f) = n
  BY <1>4, <1>7, LastHop
<1>9. Inside(Here(f))
  <2> SUFFICES ASSUME Bounded PROVE Limit > 0 /\ Here(f) \in Within[Limit - 1]
    BY DEF Inside
  <2>1. Limit \in Nat /\ Limit - 1 \in Nat /\ Limit > 0 /\ l - 1 <= Limit - 1
    BY <1>3, Reading, Limits
  <2> QED BY <1>4, <1>8, <2>1, Reading, WithinGrows
<1>10. ~Queued(queue, Here(f))
  BY DEF Queued
<1> QED BY <1>2, <1>5, <1>6, <1>8, <1>9, <1>10

\* And nothing else.
LEMMA NoneBeyond ==
  ASSUME SearchInv, queue = <<>>, Bounded
  PROVE  visited \subseteq Within[Limit]
<1>1. \A n \in visited : n \in Within[Len(current.path)]
  <2>1. \A n : ~Queued(queue, n)
    BY DEF Queued
  <2> QED BY <2>1 DEF SearchInv, Searched, VisitedOK
<1>2. Limit \in Nat /\ Len(current.path) \in Nat
  BY Reading, Limits
<1>3. Len(current.path) <= Limit
  <2>1. CASE current = Nobody
    <3>1. Len(Nobody.path) = 0
      BY DEF Nobody
    <3> QED BY <1>2, <2>1, <3>1
  <2>2. CASE current # Nobody
    BY <2>2 DEF SearchInv, Searched, QueueOK, Placed
  <2> QED BY <2>1, <2>2
<1> QED BY <1>1, <1>2, <1>3, Reading, WithinGrows

\* An answer as find_relevant_repos and impact_analysis are to give it.
Exact(rs) ==
  /\ {r.node : r \in ToSet(rs)} =
       Within[Limit] \ (IF question.op = "impact" THEN question.starts ELSE {})
  /\ \A i, j \in DOMAIN rs : rs[i].node = rs[j].node => i = j
  /\ \A r \in ToSet(rs) :
       r.path = <<>> \/ r.node \in Within[Len(r.path)] \ Within[Len(r.path) - 1]

\* The results are that answer when nothing is left to look at.
LEMMA FinishExact ==
  ASSUME SearchInv, rows = {}, queue = <<>>, Bounded
  PROVE  Exact(results)
<1>1. Limit \in Nat
  BY Reading, Limits
<1>2. visited = Within[Limit]
  <2>1. Within[Limit] \subseteq visited
    BY <1>1, AllVisited
  <2>2. visited \subseteq Within[Limit]
    BY NoneBeyond
  <2> QED BY <2>1, <2>2
<1>3. results \in Seq(Entry) /\ ResultsOK(queue, visited, results)
  BY Reading DEF SearchInv, Searched
<1>4. \A i \in DOMAIN results : Placed(results[i]) /\ results[i].node \in visited
  BY <1>3 DEF ResultsOK
<1>5. Distinct(results)
  BY <1>3 DEF ResultsOK, Bounded
<1>6. \A n : n \in {r.node : r \in ToSet(results)} <=> Queued(results, n)
  BY DEF ToSet, Queued
<1>7. {r.node : r \in ToSet(results)} =
        Within[Limit] \ (IF question.op = "impact" THEN question.starts ELSE {})
  <2>1. CASE question.op = "find"
    <3>1. \A n : Queued(results, n) <=> n \in visited
      <4>1. \A n : ~Queued(queue, n)
        BY DEF Queued
      <4>2. \A n \in visited : Queued(results, n)
        BY <1>3, <2>1, <4>1 DEF ResultsOK
      <4> QED BY <1>4, <4>2 DEF Queued
    <3> QED BY <1>2, <1>6, <2>1, <3>1
  <2>2. CASE question.op = "impact"
    <3>1. \A n : Queued(results, n) <=> n \in visited \ question.starts
      BY <1>3, <2>2 DEF ResultsOK
    <3> QED BY <1>2, <1>6, <2>2, <3>1
  <2> QED BY <2>1, <2>2 DEF Bounded
<1>8. \A r \in ToSet(results) :
         r.path = <<>> \/ r.node \in Within[Len(r.path)] \ Within[Len(r.path) - 1]
  <2> SUFFICES ASSUME NEW i \in DOMAIN results, results[i].path # <<>>
               PROVE  results[i].node \in Within[Len(results[i].path)] \ Within[Len(results[i].path) - 1]
    BY DEF ToSet
  <2>1. results[i] \in Entry /\ results[i].path \in Seq(Edge)
    BY <1>3, Reading
  <2>2. Len(results[i].path) > 0
    BY <2>1
  <2> QED BY <1>4, <2>2 DEF Placed, At
<1> QED BY <1>5, <1>7, <1>8 DEF Exact, Distinct

\* Once there is an answer, nothing happens any more; before, only these steps
\* give one.
LEMMA Answers ==
  ASSUME [Next]_vars
  PROVE  /\ db' = db /\ question' = question
         /\ answer # Unanswered => answer' = answer
         /\ \/ answer' = answer
            \/ answer = Unanswered /\ (Finish \/ Compare \/ Explain \/ \E e \in rows : Arrive(e))
<1>1. CASE Take
  BY <1>1 DEF Take, Searching
<1>2. CASE Finish
  BY <1>2 DEF Finish, Searching
<1>3. CASE Compare
  BY <1>3 DEF Compare
<1>4. CASE Explain
  BY <1>4 DEF Explain
<1>5. CASE \E e \in rows : PassOver(e)
  BY <1>5 DEF PassOver, Searching
<1>6. CASE \E e \in rows : Visit(e)
  BY <1>6 DEF Visit, Searching
<1>7. CASE \E e \in rows : Arrive(e)
  BY <1>7 DEF Arrive, Searching
<1>8. CASE UNCHANGED vars
  BY <1>8 DEF vars
<1> QED BY <1>1, <1>2, <1>3, <1>4, <1>5, <1>6, <1>7, <1>8 DEF Next

\* What a search that ends without its goal says.
LEMMA Finishes ==
  ASSUME Finish
  PROVE  /\ rows = {} /\ queue = <<>> /\ question.op \in {"find", "impact", "path"}
         /\ answer'.results = results
         /\ question.op = "path" /\ results = <<>> => answer'.unknown = "no-source"
         /\ answer'.confidence = Weakest(Confidence, {Labelled(e.confidence) : e \in Discovering})
         /\ answer'.provenance = Weakest(Provenance, {e.provenance : e \in Discovering})
BY DEF Finish, Searching, Answer

\* What a search that meets its goal says.
LEMMA Arrives ==
  ASSUME NEW e, Arrive(e)
  PROVE  /\ question.op = "path" /\ There(e) = question.goal /\ There(e) \notin visited
         /\ answer'.results = <<Reached(e)>>
         /\ answer'.confidence =
              Weakest(Confidence, {Labelled(f.confidence) : f \in ToSet(Reached(e).path)})
         /\ answer'.provenance =
              Weakest(Provenance, {f.provenance : f \in ToSet(Reached(e).path)})
BY DEF Arrive, Answer

\* The same answer is as exact after a step as before.
LEMMA SameExact ==
  ASSUME db' = db, question' = question, NEW a, answer' = a, Exact(a.results)
  PROVE  ExactlyWithin'
BY SameWithin, Same DEF ExactlyWithin, Exact

\* find_relevant_repos and impact_analysis return every repository within
\* the limit once, at its true distance, and no others, however many there are
\* and in whatever order the store lists their edges.
THEOREM EveryoneWithin == Spec => []ExactlyWithin
<1>1. Init => ExactlyWithin
  BY DEF Init, ExactlyWithin, Answered
<1>2. ASSUME SearchInv, ExactlyWithin, [Next]_vars PROVE ExactlyWithin'
  <2>0. db' = db /\ question' = question
    BY <1>2, Answers
  <2> SUFFICES ASSUME answer' # Unanswered, Bounded PROVE ExactlyWithin'
    BY <2>0 DEF ExactlyWithin, Answered, Bounded
  <2>1. CASE answer' = answer
    <3>1. Exact(answer.results)
      BY <1>2, <2>1 DEF ExactlyWithin, Exact, Answered, Bounded
    <3> QED BY <2>0, <2>1, <3>1, SameExact
  <2>2. CASE Finish
    <3>1. Exact(answer'.results)
      BY <1>2, <2>2, Finishes, FinishExact
    <3> QED BY <2>0, <3>1, SameExact
  <2>3. ~Compare /\ ~Explain /\ ~(\E e \in rows : Arrive(e))
    BY DEF Compare, Explain, Arrive, Bounded
  <2> QED BY <1>2, <2>1, <2>2, <2>3, Answers
<1> QED BY <1>1, <1>2, SearchHolds, PTL DEF Spec

\* An answer as dependency_path is to give it.
Shortest(rs, unknown) ==
  IF question.goal \in question.starts \/ question.goal \notin Within[Farthest]
  THEN rs = <<>> /\ unknown = "no-source"
  ELSE /\ Len(rs) = 1
       /\ LET r == rs[1]
          IN  IsWay(r) /\ r.node = question.goal /\ r.node \notin Within[Len(r.path) - 1]

\* The same answer is as short after a step as before.
LEMMA SameShortest ==
  ASSUME db' = db, question' = question, NEW a, answer' = a, Shortest(a.results, a.unknown)
  PROVE  ShortestPath'
<1>1. \A r : IsWay(r)' = IsWay(r)
  BY DEF IsWay, InEnv, Stored, Here, There
<1>2. Farthest' = Farthest
  BY DEF Farthest
<1> QED BY <1>1, <1>2, SameWithin DEF ShortestPath, Shortest

\* Without having met its goal the search ends only where there is no way.
LEMMA FinishShortest ==
  ASSUME SearchInv, Finish, question.op = "path"
  PROVE  Shortest(answer'.results, answer'.unknown)
<1>1. results = <<>> /\ (question.goal \in visited => question.goal \in question.starts)
  BY DEF SearchInv, Searched, ResultsOK, Bounded
<1>2. answer'.results = <<>> /\ answer'.unknown = "no-source"
  BY <1>1, Finishes
<1>3. Farthest \in Nat
  BY NodesAssumption, FS_CardinalityType DEF Farthest
<1>4. Within[Farthest] \subseteq visited
  BY <1>3, Finishes, AllVisited DEF Bounded
<1> QED BY <1>1, <1>2, <1>4 DEF Shortest

\* The way by which it meets its goal is a shortest one.
LEMMA ArriveShortest ==
  ASSUME SearchInv, NEW e \in rows, Arrive(e)
  PROVE  Shortest(answer'.results, answer'.unknown)
<1> DEFINE r == Reached(e)
<1>1. /\ question.op = "path" /\ There(e) = question.goal /\ There(e) \notin visited
      /\ answer'.results = <<r>>
  BY Arrives
<1>2. Passes(e)
  BY <1>1 DEF Passes
<1>3. /\ r \in Entry /\ Placed(r) /\ r.node = question.goal
      /\ Len(r.path) = Len(current.path) + 1 /\ Len(current.path) \in Nat
  BY <1>1, <1>2, NewEntry, Reading
<1> HIDE DEF r
<1>4. IsWay(r) /\ r.node \notin Within[Len(r.path) - 1]
  BY <1>3 DEF Placed, At
<1>5. question.goal \notin question.starts
  BY <1>1 DEF SearchInv, Searched, VisitedOK
<1>6. question.goal \in Within[Farthest]
  <2>1. At(question.goal, Len(r.path)) /\ Len(r.path) \in Nat
    BY <1>3 DEF Placed
  <2> QED BY <2>1, Reading, NotSoFar
<1>7. Len(<<r>>) = 1 /\ <<r>>[1] = r
  OBVIOUS
<1> QED BY <1>1, <1>3, <1>4, <1>5, <1>6, <1>7 DEF Shortest

\* dependency_path returns a way to the goal than which none is shorter, and
\* says that there is none only when there is none.
THEOREM NoShorterWay == Spec => []ShortestPath
<1>1. Init => ShortestPath
  BY DEF Init, ShortestPath, Answered
<1>2. ASSUME SearchInv, ShortestPath, [Next]_vars PROVE ShortestPath'
  <2>0. db' = db /\ question' = question
    BY <1>2, Answers
  <2> SUFFICES ASSUME answer' # Unanswered, question.op = "path" PROVE ShortestPath'
    BY <2>0 DEF ShortestPath, Answered
  <2>1. CASE answer' = answer
    <3>1. Shortest(answer.results, answer.unknown)
      BY <1>2, <2>1 DEF ShortestPath, Shortest, Answered
    <3> QED BY <2>0, <2>1, <3>1, SameShortest
  <2>2. CASE Finish
    BY <1>2, <2>0, <2>2, FinishShortest, SameShortest
  <2>3. ASSUME NEW e \in rows, Arrive(e) PROVE ShortestPath'
    BY <1>2, <2>0, <2>3, ArriveShortest, SameShortest
  <2>4. ~Compare /\ ~Explain
    BY DEF Compare, Explain
  <2> QED BY <1>2, <2>1, <2>2, <2>3, <2>4, Answers
<1> QED BY <1>1, <1>2, SearchHolds, PTL DEF Spec

\* The weakest of a list is at least as weak as each that is present.
LEMMA WeakestIs ==
  ASSUME NEW order, order \in {Confidence, Provenance}, NEW present, NEW value \in present
  PROVE  NoBetterThan(order, Weakest(order, present), value)
<1> DEFINE T == {1} \cup {i \in DOMAIN order : order[i] \in present}
<1>1. /\ DOMAIN order \subseteq 1 .. 4 /\ 1 \in DOMAIN order
      /\ \A i, j \in DOMAIN order : order[i] = order[j] => i = j
  <2>1. CASE order = Confidence
    BY <2>1 DEF Confidence
  <2>2. CASE order = Provenance
    BY <2>2 DEF Provenance
  <2> QED BY <2>1, <2>2
<1>2. T \subseteq 1 .. 4 /\ 1 \in T /\ T \subseteq DOMAIN order
  BY <1>1
<1>3. \A j \in DOMAIN order : order[j] = value => j \in T
  OBVIOUS
<1>4. Weakest(order, present) = order[Max(T)]
  BY DEF Weakest
<1> HIDE DEF T
<1>5. \E x \in T : \A y \in T : x >= y
  <2>1. CASE 4 \in T
    BY <1>2, <2>1
  <2>2. CASE 4 \notin T /\ 3 \in T
    BY <1>2, <2>2
  <2>3. CASE 4 \notin T /\ 3 \notin T /\ 2 \in T
    BY <1>2, <2>3
  <2>4. CASE 4 \notin T /\ 3 \notin T /\ 2 \notin T
    BY <1>2, <2>4
  <2> QED BY <2>1, <2>2, <2>3, <2>4
<1>6. Max(T) \in T /\ \A y \in T : Max(T) >= y
  BY <1>5 DEF Max
<1> QED BY <1>1, <1>2, <1>3, <1>4, <1>6 DEF NoBetterThan

\* A confidence that the table lists is counted as itself; no other is in the
\* order that answers are weighed by.
LEMMA Weighed ==
  ASSUME NEW used, NEW e \in used
  PROVE  NoBetterThan(Confidence, Weakest(Confidence, {Labelled(f.confidence) : f \in used}), e.confidence)
<1> DEFINE present == {Labelled(f.confidence) : f \in used}
<1>1. CASE e.confidence \in {"high", "medium", "low"}
  <2>1. Labelled(e.confidence) = e.confidence
    BY <1>1 DEF Labelled
  <2>2. e.confidence \in present
    BY <2>1
  <2> QED BY <2>2, WeakestIs
<1>2. CASE e.confidence \notin {"high", "medium", "low"}
  <2>1. \A j \in DOMAIN Confidence : Confidence[j] # e.confidence
    BY <1>2 DEF Confidence
  <2> QED BY <2>1 DEF NoBetterThan
<1> QED BY <1>1, <1>2

\* An answer that is weighed by some edges is no better than any of them.
LEMMA NoBetter ==
  ASSUME NEW used, NEW a,
         a.confidence = Weakest(Confidence, {Labelled(e.confidence) : e \in used}),
         a.provenance = Weakest(Provenance, {e.provenance : e \in used}),
         NEW e \in used
  PROVE  /\ NoBetterThan(Confidence, a.confidence, e.confidence)
         /\ NoBetterThan(Provenance, a.provenance, e.provenance)
<1>1. e.provenance \in {f.provenance : f \in used}
  OBVIOUS
<1> QED BY <1>1, Weighed, WeakestIs

\* The confidence and the provenance of an answer are no better than those of
\* any edge on the way to any of its results: the edges by which the results
\* were found, which are all that find_relevant_repos and impact_analysis
\* weigh, are all the edges on those ways.
THEOREM NoStrongerThanItsWeakest == Spec => []WeakestLink
<1>1. Init => WeakestLink
  BY DEF Init, WeakestLink, Answered
<1>2. ASSUME SearchInv, WeakestLink, [Next]_vars PROVE WeakestLink'
  <2>0. db' = db /\ question' = question
    BY <1>2, Answers
  <2> SUFFICES ASSUME answer' # Unanswered, question.op \in {"find", "impact", "path"},
                      NEW r \in ToSet(answer'.results), NEW e \in ToSet(r.path)
               PROVE  /\ NoBetterThan(Confidence, answer'.confidence, e.confidence)
                      /\ NoBetterThan(Provenance, answer'.provenance, e.provenance)
    BY <2>0 DEF WeakestLink, Answered, NoBetterThan
  <2>1. CASE answer' = answer
    BY <1>2, <2>1 DEF WeakestLink, Answered
  <2>2. CASE Finish
    <3>1. r \in ToSet(results)
      BY <2>2, Finishes
    <3>2. Bounded
      BY <1>2, <3>1 DEF SearchInv, Searched, ResultsOK, ToSet
    <3>3. PICK i \in DOMAIN results : results[i] = r
      BY <3>1 DEF ToSet
    <3>4. ToSet(r.path) \subseteq Found(results)
      BY <1>2, <3>2, <3>3 DEF SearchInv, Searched, WaysOK
    <3>5. e \in Discovering
      BY <3>4 DEF Found, Discovering
    <3> QED BY <2>2, <3>5, Finishes, NoBetter
  <2>3. ASSUME NEW f \in rows, Arrive(f)
        PROVE  /\ NoBetterThan(Confidence, answer'.confidence, e.confidence)
               /\ NoBetterThan(Provenance, answer'.provenance, e.provenance)
    <3>1. answer'.results = <<Reached(f)>>
      BY <2>3, Arrives
    <3>2. r = Reached(f)
      BY <3>1 DEF ToSet
    <3> QED BY <2>3, <3>2, Arrives, NoBetter
  <2>4. ~Compare /\ ~Explain
    BY DEF Compare, Explain
  <2> QED BY <1>2, <2>1, <2>2, <2>3, <2>4, Answers
<1> QED BY <1>1, <1>2, SearchHolds, PTL DEF Spec

-----------------------------------------------------------------------------
\* The refs that an answer lists are refs of the graph's edges.
RefsOK == refs \in [Nodes -> Refs]

\* Every step keeps it.
LEMMA RefsStep ==
  ASSUME SearchInv, RefsOK, [Next]_vars
  PROVE  RefsOK'
<1>1. \A e \in Edge : e.ref \in Refs /\ e.from \in Nodes /\ e.to \in Nodes
  BY DEF Edge
<1>2. \A n : \A ref \in Refs : [refs EXCEPT ![n] = ref] \in [Nodes -> Refs]
  BY DEF RefsOK
<1>3. CASE Take
  <2>1. OwnRef(current'.node) \subseteq Refs
    BY <1>1, Reading, EdgesOf, HopsAssumption DEF OwnRef
  <2> QED BY <1>2, <1>3, <2>1 DEF Take, RefsOK
<1>4. ASSUME NEW e \in rows, Visit(e) PROVE RefsOK'
  <2>1. e.ref \in Refs
    BY <1>1, Reading
  <2> QED BY <1>2, <1>4, <2>1 DEF Visit, Noted, RefsOK
<1>5. CASE \E e \in rows : PassOver(e) \/ Arrive(e)
  BY <1>5 DEF PassOver, Arrive, RefsOK
<1>6. CASE Finish \/ Compare \/ Explain \/ UNCHANGED vars
  BY <1>6 DEF Finish, Compare, Explain, vars, RefsOK
<1> QED BY <1>3, <1>4, <1>5, <1>6 DEF Next

\* The search has the types its module gives it: what is queued or returned was
\* visited, and is reached by a way that the graph has.
THEOREM Typed == Spec => []TypeOK
<1>1. Init => RefsOK
  BY HopsAssumption DEF Init, RefsOK
<1>2. SearchInv /\ RefsOK /\ [Next]_vars => RefsOK'
  BY RefsStep
<1>3. SearchInv /\ RefsOK => TypeOK
  <2> SUFFICES ASSUME SearchInv, RefsOK PROVE TypeOK
    OBVIOUS
  <2>1. \A i \in DOMAIN queue : IsWay(queue[i]) /\ queue[i].node \in visited
    BY DEF SearchInv, Searched, QueueOK, Placed
  <2>2. \A i \in DOMAIN results : IsWay(results[i]) /\ results[i].node \in visited
    BY DEF SearchInv, Searched, ResultsOK, Placed
  <2>3. \A r \in ToSet(queue) \cup ToSet(results) : IsWay(r) /\ r.node \in visited
    BY <2>1, <2>2 DEF ToSet
  <2>4. {r.node : r \in ToSet(queue) \cup ToSet(results)} \subseteq visited
    BY <2>3
  <2> QED BY <2>3, <2>4, Reading DEF TypeOK, RefsOK
<1> QED BY <1>1, <1>2, <1>3, SearchHolds, PTL DEF Spec

-----------------------------------------------------------------------------
\* The edge is of an environment that the question is about.
OfQuestion(e) ==
  e \in InEnv(db, question.env)
          \cup (IF question.op = "diff" THEN InEnv(db, question.other) ELSE {})

\* Every ref is that of an edge at its repository.
Backed(all) ==
  \A n \in Nodes : all[n] # "" => \E e : OfQuestion(e) /\ n \in {e.from, e.to} /\ e.ref = all[n]

\* What the search has noted has that form, and so has what an answer says.
RefInv ==
  /\ RefsOK
  /\ Backed(refs)
  /\ answer # Unanswered => Backed(answer.refs)

\* One ref more of an edge at the repository.
LEMMA BackedOne ==
  ASSUME RefsOK, Backed(refs), NEW n, NEW e, OfQuestion(e), n \in {e.from, e.to}
  PROVE  Backed([refs EXCEPT ![n] = e.ref])
<1> DEFINE all == [refs EXCEPT ![n] = e.ref]
<1>1. \A m \in Nodes : all[m] = IF m = n THEN e.ref ELSE refs[m]
  BY DEF RefsOK
<1> HIDE DEF all
<1>2. Backed(all)
  BY <1>1 DEF Backed
<1> QED BY <1>2 DEF all

\* The refs along a way are those of its edges.
LEMMA BackedAlong ==
  ASSUME NEW path, \A i \in DOMAIN path : OfQuestion(path[i])
  PROVE  Backed(RefsAlong(path))
<1> SUFFICES ASSUME NEW n \in Nodes, RefsAlong(path)[n] # ""
             PROVE  \E e : OfQuestion(e) /\ n \in {e.from, e.to} /\ e.ref = RefsAlong(path)[n]
  BY DEF Backed
<1>1. \E i \in DOMAIN path : path[i].to = n
  BY DEF RefsAlong
<1> DEFINE i == CHOOSE j \in DOMAIN path : path[j].to = n
<1>2. i \in DOMAIN path /\ path[i].to = n
  BY <1>1
<1>3. RefsAlong(path)[n] = path[i].ref
  BY <1>1 DEF RefsAlong
<1> HIDE DEF i
<1> QED BY <1>2, <1>3

\* What an answer is given as its refs.
LEMMA RefsOfAnswer ==
  ASSUME NEW found, NEW used, NEW unknown
  PROVE  /\ Answer(found, used, unknown).refs = refs
         /\ \A x : [Answer(found, used, unknown) EXCEPT !.refs = x].refs = x
         /\ \A x, y : [Answer(found, used, unknown) EXCEPT !.confidence = y, !.refs = x].refs = x
BY DEF Answer

\* The refs of an answer are backed when it is given.
LEMMA AnswerBacked ==
  ASSUME SearchInv, RefInv, Finish \/ Compare \/ Explain \/ \E e \in rows : Arrive(e)
  PROVE  Backed(answer'.refs)
<1>1. CASE Finish
  <2>1. answer'.refs = refs
    BY <1>1 DEF Finish, Answer
  <2> QED BY <2>1 DEF RefInv
<1>2. CASE Compare
  <2> DEFINE a == Outbound(question.env)
             b == Outbound(question.other)
  <2>1. PICK all \in LastRefs(a, b) : answer'.refs = all
    BY <1>2 DEF Compare
  <2>2. \A e \in a \cup b : OfQuestion(e)
    BY <1>2 DEF Compare, Outbound, OfQuestion
  <2> HIDE DEF a, b
  <2>3. \A n \in Nodes : all[n] # "" => \E e \in a \cup b : e.to = n /\ e.ref = all[n]
    BY <2>1 DEF LastRefs
  <2>4. Backed(all)
    BY <2>2, <2>3 DEF Backed
  <2> QED BY <2>1, <2>4
<1>3. CASE Explain
  <2>1. CASE answer' = Answer(<<>>, {}, "no-source")
    <3>1. answer'.refs = refs
      BY <2>1, RefsOfAnswer
    <3> QED BY <3>1 DEF RefInv
  <2>2. CASE \E e \in Outbound(question.env) :
               answer' = [Answer(<<[node |-> e.to, path |-> <<e>>]>>, {e}, "") EXCEPT
                            !.confidence = e.confidence, !.refs = RefsAlong(<<e>>)]
    <3>1. PICK e \in Outbound(question.env) : answer'.refs = RefsAlong(<<e>>)
      BY <2>2, RefsOfAnswer
    <3>2. OfQuestion(e)
      BY DEF Outbound, OfQuestion
    <3>3. \A i \in DOMAIN <<e>> : <<e>>[i] = e
      OBVIOUS
    <3>4. Backed(RefsAlong(<<e>>))
      BY <3>2, <3>3, BackedAlong
    <3> QED BY <3>1, <3>4
  <2> QED BY <1>3, <2>1, <2>2 DEF Explain
<1>4. ASSUME NEW e \in rows, Arrive(e) PROVE Backed(answer'.refs)
  <2>1. answer'.refs = RefsAlong(Reached(e).path)
    BY <1>4 DEF Arrive, Answer
  <2>2. Passes(e) /\ There(e) \notin visited
    BY <1>4 DEF Arrive, Passes
  <2>3. IsWay(Reached(e))
    BY <2>2, NewEntry DEF Placed
  <2>4. \A i \in DOMAIN Reached(e).path : OfQuestion(Reached(e).path[i])
    BY <2>3 DEF IsWay, OfQuestion
  <2>5. Backed(RefsAlong(Reached(e).path))
    BY <2>4, BackedAlong
  <2> QED BY <2>1, <2>5
<1> QED BY <1>1, <1>2, <1>3, <1>4

\* Every step keeps the refs backed.
LEMMA BackedStep ==
  ASSUME SearchInv, RefInv, [Next]_vars
  PROVE  RefInv'
<1>0. db' = db /\ question' = question
  BY Answers
<1>1. \A x : Backed(x) = Backed(x)'
  BY <1>0 DEF Backed, OfQuestion
<1>2. RefsOK'
  BY RefsStep DEF RefInv
<1>3. Backed(refs')
  <2>1. CASE refs' = refs
    BY <2>1 DEF RefInv
  <2>2. CASE Take
    <3>0. CASE question.op # "find"
      BY <2>1, <2>2, <3>0 DEF Take
    <3> SUFFICES ASSUME question.op = "find" PROVE Backed(refs')
      BY <3>0
    <3>1. PICK ref \in OwnRef(current'.node) :
            refs' = IF ref = "" THEN refs ELSE [refs EXCEPT ![current'.node] = ref]
      BY <2>2, Zenon DEF Take
    <3>2. CASE ref # "" /\ refs' = [refs EXCEPT ![current'.node] = ref]
      <4>1. PICK e \in InEnv(db, question.env) : e.from = current'.node /\ e.ref = ref
        BY <3>1, <3>2 DEF OwnRef
      <4>2. OfQuestion(e)
        BY DEF OfQuestion
      <4> QED BY <3>2, <4>1, <4>2, BackedOne DEF RefInv
    <3> QED BY <2>1, <3>1, <3>2
  <2>3. ASSUME NEW e \in rows, Visit(e) PROVE Backed(refs')
    <3>1. refs' = refs \/ refs' = [refs EXCEPT ![There(e)] = e.ref]
      BY <2>3 DEF Visit, Noted
    <3>2. OfQuestion(e) /\ There(e) \in {e.from, e.to}
      BY AtEdge, <2>3 DEF Visit, OfQuestion, There
    <3>3. Backed([refs EXCEPT ![There(e)] = e.ref])
      BY <3>2, BackedOne DEF RefInv
    <3> QED BY <2>1, <3>1, <3>3
  <2> QED BY <2>1, <2>2, <2>3
          DEF Next, vars, Finish, Compare, Explain, PassOver, Arrive
<1>4. answer' # Unanswered => Backed(answer'.refs)
  BY Answers, AnswerBacked DEF RefInv
<1> QED BY <1>1, <1>2, <1>3, <1>4 DEF RefInv

\* The ref that an answer gives a repository is that of an edge of an environment
\* asked for that starts or ends there, for every graph, question and order of rows
\* (deployed_refs of the five operations).
THEOREM RefsAreThere == Spec => []RefsOfEnvironment
<1>1. Init => RefInv
  BY HopsAssumption DEF Init, RefInv, RefsOK, Backed
<1>2. SearchInv /\ RefInv /\ [Next]_vars => RefInv'
  BY BackedStep
<1>3. RefInv => RefsOfEnvironment
  BY DEF RefInv, Backed, OfQuestion, RefsOfEnvironment
<1> QED BY <1>1, <1>2, <1>3, SearchHolds, PTL DEF Spec
=============================================================================
