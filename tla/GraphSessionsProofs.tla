------------------------- MODULE GraphSessionsProofs -------------------------
(***************************************************************************)
(* Proofs about the commands that write the graph: the type invariant, and *)
(* that whatever is killed or fails, no edge is doubled and none is lost.   *)
(***************************************************************************)
EXTENDS GraphSessions, FiniteSetTheorems, TLAPS

\* What has been done of a build: each edge found is stored or still to come,
\* and the endpoints of the next one are there.
BuildInv ==
  job.kind = "build" =>
    /\ \A i \in DOMAIN job.input.found :
         \/ Pair(job.input.found[i]) \in Pairs(db)
         \/ \E k \in DOMAIN job.todo : job.todo[k] = job.input.found[i]
    /\ job.at # "from" => Head(job.todo).from \in db.nodes
    /\ job.at = "edge" => Head(job.todo).to \in db.nodes

\* The same of a reconciliation.
ReconcileInv ==
  job.kind = "reconcile" /\ job.at # "read" =>
    /\ \A e \in job.report.runtime : Pair(e) \in Pairs(db) \cup job.report.unwritten \/ e \in job.todo
    /\ job.at # "from" => Current.from \in db.nodes
    /\ job.at = "edge" => Current.to \in db.nodes

\* What makes the two properties of a finished command inductive.
SessionInv == BuildInv /\ ReconcileInv /\ ObservedStored

-----------------------------------------------------------------------------
(***************************************************************************)
(* The store.                                                              *)
(***************************************************************************)
Db == [nodes : SUBSET Repos, edges : Seq(Edge)]

\* A node that is upserted is there afterwards, and no edge changes.
LEMMA NodeUpserted ==
  ASSUME NEW d \in Db, NEW id \in Repos
  PROVE  /\ UpsertNode(d, id) \in Db
         /\ UpsertNode(d, id).edges = d.edges
         /\ Pairs(UpsertNode(d, id)) = Pairs(d)
         /\ UpsertNode(d, id).nodes = d.nodes \cup {id}
BY DEF Db, UpsertNode, Pairs, Stored

\* An upsert keeps every edge where it is, adds the pair when both nodes are
\* there, and never a second time.
LEMMA EdgeUpserted ==
  ASSUME NEW d \in Db, NEW e \in Edge
  PROVE  LET n == UpsertEdge(d, e) IN
         /\ n \in Db
         /\ n.nodes = d.nodes
         /\ \A i \in DOMAIN d.edges : i \in DOMAIN n.edges /\ n.edges[i] = d.edges[i]
         /\ Pairs(d) \subseteq Pairs(n)
         /\ {e.from, e.to} \subseteq d.nodes => Pair(e) \in Pairs(n)
         /\ (\A i, j \in DOMAIN d.edges : Key(d.edges[i]) = Key(d.edges[j]) => i = j)
              => \A i, j \in DOMAIN n.edges : Key(n.edges[i]) = Key(n.edges[j]) => i = j
<1> DEFINE n == UpsertEdge(d, e)
           s == d.edges
<1>1. CASE Pair(e) \notin Pairs(d) /\ {e.from, e.to} \subseteq d.nodes
  <2>1. n = [d EXCEPT !.edges = Append(s, e)]
    BY <1>1 DEF UpsertEdge
  <2>2. s \in Seq(Edge) /\ n \in Db /\ n.nodes = d.nodes /\ n.edges = Append(s, e)
    <3>1. s \in Seq(Edge) /\ d.nodes \in SUBSET Repos
      BY DEF Db
    <3>2. Append(s, e) \in Seq(Edge)
      BY <3>1
    <3>3. n = [nodes |-> d.nodes, edges |-> Append(s, e)]
      BY <2>1 DEF Db
    <3>4. QED
      BY <3>1, <3>2, <3>3 DEF Db
  <2>3. /\ DOMAIN s = 1 .. Len(s) /\ Len(s) \in Nat
        /\ DOMAIN n.edges = 1 .. Len(s) + 1
        /\ n.edges[Len(s) + 1] = e
        /\ \A i \in DOMAIN s : i \in DOMAIN n.edges /\ n.edges[i] = s[i]
    BY <2>2
  <2>4. \A i \in DOMAIN s : Key(s[i]) # Key(e)
    <3>1. \A i \in DOMAIN s : Pair(s[i]) # Pair(e)
      BY <1>1 DEF Pairs, Stored
    <3>2. QED
      BY <3>1 DEF Key, Pair
  <2>5. \A i \in DOMAIN n.edges : i \in DOMAIN s \/ i = Len(s) + 1
    BY <2>3
  <2>6. Pairs(d) \subseteq Pairs(n) /\ Pair(e) \in Pairs(n)
    <3>1. Stored(d) \subseteq Stored(n)
      BY <2>3 DEF Stored
    <3>2. e \in Stored(n)
      BY <2>3 DEF Stored
    <3>3. QED
      BY <3>1, <3>2 DEF Pairs
  <2>7. ASSUME \A i, j \in DOMAIN s : Key(s[i]) = Key(s[j]) => i = j,
               NEW i \in DOMAIN n.edges, NEW j \in DOMAIN n.edges,
               Key(n.edges[i]) = Key(n.edges[j])
        PROVE  i = j
    BY <2>3, <2>4, <2>5, <2>7
  <2>8. QED
    BY <2>2, <2>3, <2>6, <2>7
<1>2. CASE ~ (Pair(e) \notin Pairs(d) /\ {e.from, e.to} \subseteq d.nodes)
  <2>1. n = d
    BY <1>2 DEF UpsertEdge
  <2>2. QED
    BY <1>2, <2>1
<1>3. QED
  BY <1>1, <1>2

-----------------------------------------------------------------------------
(***************************************************************************)
(* What a reconciliation computes.                                         *)
(***************************************************************************)
LEMMA ResolveType ==
  ASSUME NEW index \in SUBSET Entry, NEW name, NEW env
  PROVE  LET a == ResolveServiceName(index, name, env) IN
         /\ a.known => a.repo \in Repos
         /\ ~a.known => a.reason \in {"no-index-match", "ambiguous-match"}
<1> DEFINE tags == Tags(index, name, env)
           all  == IF tags # {} THEN tags ELSE Labelled(index, name)
<1>1. tags \subseteq index
  BY DEF Tags, Lookup, ForEnv, Exact, Normalized
<1>2. all \subseteq Entry
  BY <1>1 DEF Labelled
<1>3. CASE Cardinality(all) = 1
  <2>1. all # {}
    BY <1>3, FS_EmptySet
  <2>2. (CHOOSE e \in all : TRUE) \in Entry
    BY <1>2, <2>1
  <2>3. QED
    BY <1>3, <2>2 DEF ResolveServiceName, Found, Entry
<1>4. CASE Cardinality(all) # 1
  BY <1>4 DEF ResolveServiceName, Unknown
<1>5. QED
  BY <1>3, <1>4

\* The calls that telemetry reports are between service names.
LEMMA CallsType ==
  ASSUME NEW t \in Telemetry
  PROVE  /\ Active(t) \subseteq Capability
         /\ Calls(t) \subseteq [cap : Capability, from : ServiceName, to : ServiceName]
<1>1. Active(t) \subseteq Capability
  BY DEF Telemetry, Active
<1>2. ASSUME NEW cap \in Fetched(t), NEW i \in DOMAIN t.data[cap]
      PROVE  cap \in Capability /\ t.data[cap][i] \in Call
  <2>1. cap \in Capability /\ t.data[cap] \in Seq(Call)
    BY <1>1, <1>2 DEF Telemetry, Fetched
  <2>2. QED
    BY <1>2, <2>1
<1>3. QED
  BY <1>1, <1>2 DEF Calls, Call

\* What reconcile makes of them is of the type it writes.
LEMMA RuntimeType ==
  ASSUME NEW index \in SUBSET Entry, NEW env, NEW t \in Telemetry
  PROVE  /\ RuntimeEdges(index, env, t) \subseteq RuntimeEdge
         /\ Unknowns(index, env, t) \subseteq
              [service : ServiceName, reason : {"no-index-match", "ambiguous-match"}]
         /\ FetchNotices(t) \subseteq [cap : Capability, reason : {"error", "inactive"}]
<1>1. RuntimeEdges(index, env, t) \subseteq RuntimeEdge
  <2> DEFINE A(name)    == ResolveServiceName(index, name, env)
             known      == {c \in Calls(t) : A(c.from).known /\ A(c.to).known}
             Ends(c)    == <<A(c.from).repo, A(c.to).repo>>
             Signals(p) == {c.cap : c \in {d \in known : Ends(d) = p}}
             High(p)    == \E cap \in Signals(p) : SignalConfidence(cap) = "high"
             E(p)       == [from |-> p[1], to |-> p[2], signals |-> Signals(p),
                            confidence |-> IF High(p) THEN "high" ELSE "medium"]
  <2>1. RuntimeEdges(index, env, t) = {E(p) : p \in {Ends(c) : c \in known}}
    BY DEF RuntimeEdges
  <2>2. ASSUME NEW c \in known
        PROVE  Ends(c) \in Repos \X Repos
    BY ResolveType
  <2>3. ASSUME NEW p \in Repos \X Repos
        PROVE  Signals(p) \in SUBSET Capability
    BY CallsType
  <2>4. ASSUME NEW p \in Repos \X Repos
        PROVE  E(p) \in RuntimeEdge
    <3>1. Signals(p) \in SUBSET Capability /\ p[1] \in Repos /\ p[2] \in Repos
      BY <2>3
    <3> HIDE DEF Signals
    <3>2. (IF High(p) THEN "high" ELSE "medium") \in {"high", "medium"}
      OBVIOUS
    <3> HIDE DEF High
    <3>3. QED
      BY <3>1, <3>2 DEF RuntimeEdge
  <2> HIDE DEF E, Ends, known
  <2>5. QED
    BY <2>1, <2>2, <2>4
<1>2. Unknowns(index, env, t) \subseteq
        [service : ServiceName, reason : {"no-index-match", "ambiguous-match"}]
  <2> DEFINE A(name)     == ResolveServiceName(index, name, env)
             Blocking(c) == IF ~A(c.from).known THEN c.from ELSE c.to
  <2>1. ASSUME NEW c \in Calls(t), ~A(c.from).known \/ ~A(c.to).known
        PROVE  Blocking(c) \in ServiceName /\ ~A(Blocking(c)).known
    BY <2>1, CallsType
  <2>2. ASSUME NEW c \in Calls(t), ~A(c.from).known \/ ~A(c.to).known
        PROVE  A(Blocking(c)).reason \in {"no-index-match", "ambiguous-match"}
    BY <2>1, <2>2, ResolveType
  <2> HIDE DEF A
  <2>3. Unknowns(index, env, t) =
          {[service |-> Blocking(c), reason |-> A(Blocking(c)).reason] :
             c \in {d \in Calls(t) : ~A(d.from).known \/ ~A(d.to).known}}
    BY DEF Unknowns, A
  <2> HIDE DEF Blocking
  <2>4. QED
    BY <2>1, <2>2, <2>3
<1>3. FetchNotices(t) \subseteq [cap : Capability, reason : {"error", "inactive"}]
  BY CallsType DEF FetchNotices
<1>4. QED
  BY <1>1, <1>2, <1>3

-----------------------------------------------------------------------------
(***************************************************************************)
(* The type invariant.                                                     *)
(***************************************************************************)
LEMMA InitTyped == Init => TypeOK
BY DEF Init, TypeOK, EmptyDb, Idle, NoReport

\* Every step keeps the types.
LEMMA NextTyped == TypeOK /\ [Next]_vars => TypeOK'
<1> SUFFICES ASSUME TypeOK, [Next]_vars
             PROVE  TypeOK'
  OBVIOUS
<1> USE DEF Db
<1>a. db \in Db /\ (report = NoReport \/ report \in ReportType)
  BY DEF TypeOK
<1>b. ASSUME job.kind = "build"
      PROVE  /\ job \in [kind : {"build"}, input : Builds, left : SUBSET Repos, todo : Seq(Edge),
                         at : {"from", "to", "edge"}]
             /\ job.at # "from" => job.left = {} /\ job.todo # <<>>
  BY <1>b DEF TypeOK, Idle
<1>c. ASSUME job.kind = "reconcile", job.at = "read"
      PROVE  job \in [kind : {"reconcile"}, env : Envs, index : SUBSET Entry,
                      telemetry : Telemetries \ {Silent}, todo : {{}}, at : {"read"}]
  BY <1>c DEF TypeOK, Idle
<1>d. ASSUME job.kind = "reconcile", job.at # "read"
      PROVE  /\ job \in [kind : {"reconcile"}, env : Envs, todo : SUBSET RuntimeEdge,
                         at : {"from", "to", "edge"}, report : ReportType]
             /\ job.at # "from" => job.todo # {}
  BY <1>d DEF TypeOK, Idle
<1>e. ASSUME job.kind = "build", job.todo # <<>>
      PROVE  Head(job.todo) \in Edge /\ Tail(job.todo) \in Seq(Edge)
  BY <1>b, <1>e
<1>f. ASSUME job.kind = "reconcile", job.at # "read", job.todo # {}
      PROVE  Current \in RuntimeEdge /\ Current \in job.todo
  BY <1>d, <1>f DEF Current
<1>1. ASSUME NEW b \in Builds, StartBuild(b)
      PROVE  TypeOK'
  BY <1>1, <1>a, BuildsAssumption DEF StartBuild, TypeOK, Build, NoReport
<1>2. ASSUME NEW env \in Envs, NEW t \in Telemetries, StartReconcile(env, t)
      PROVE  TypeOK'
  BY <1>2, <1>a DEF StartReconcile, Reconcile, TypeOK, NoReport
<1>3. ASSUME NEW r \in Repos, AddRepo(r)
      PROVE  TypeOK'
  BY <1>3, <1>a, <1>b, NodeUpserted DEF AddRepo, TypeOK
<1>4. CASE AddFrom
  BY <1>4, <1>a, <1>b, <1>e, NodeUpserted DEF AddFrom, Persisting, TypeOK, Edge
<1>5. CASE AddTo
  BY <1>5, <1>a, <1>b, <1>e, NodeUpserted DEF AddTo, Persisting, TypeOK, Edge
<1>6. CASE AddFound
  BY <1>6, <1>a, <1>b, <1>e, EdgeUpserted DEF AddFound, Persisting, TypeOK
<1>7. ASSUME NEW t \in Telemetries, FinishBuild(t)
      PROVE  TypeOK'
  BY <1>7, <1>a, <1>b, BuildsAssumption DEF FinishBuild, Persisted, Reconcile, TypeOK, Build, Idle
<1>8. ASSUME NEW raises \in BOOLEAN, ReadGraph(raises)
      PROVE  TypeOK'
  <2> DEFINE static  == IF raises THEN {} ELSE InEnv(db, job.env)
             runtime == RuntimeEdges(job.index, job.env, job.telemetry)
  <2>1. static \in SUBSET Edge
    BY <1>a DEF InEnv, Stored
  <2>2. /\ job.env \in Envs /\ job.index \in SUBSET Entry
        /\ job.telemetry \in Telemetries \ {Silent} /\ job.telemetry \in Telemetry
    BY <1>8, <1>c, TelemetriesAssumption DEF ReadGraph
  <2>3. /\ runtime \in SUBSET RuntimeEdge
        /\ Unknowns(job.index, job.env, job.telemetry) \in
             SUBSET [service : ServiceName, reason : {"no-index-match", "ambiguous-match"}]
        /\ FetchNotices(job.telemetry) \in SUBSET [cap : Capability, reason : {"error", "inactive"}]
    BY <2>2, RuntimeType
  <2>4. /\ Confirmed(static, runtime) \in SUBSET Edge
        /\ StaticOnly(static, runtime) \in SUBSET Edge
        /\ RuntimeOnly(static, runtime) \in SUBSET RuntimeEdge
    BY <2>1, <2>3 DEF Confirmed, StaticOnly, RuntimeOnly
  <2>5. /\ job' = [kind |-> "reconcile", env |-> job.env, at |-> "from",
                   todo   |-> RuntimeOnly(static, runtime), report |-> job'.report]
        /\ job'.report \in ReportType
    <3> HIDE DEF static, runtime
    <3> QED
      BY <1>8, <2>2, <2>3, <2>4 DEF ReadGraph, ReportType, static, runtime
  <2>6. QED
    BY <1>8, <1>a, <2>2, <2>4, <2>5 DEF ReadGraph, TypeOK
<1>9. CASE WriteFrom
  BY <1>9, <1>a, <1>d, <1>f, NodeUpserted DEF WriteFrom, Writing, TypeOK, RuntimeEdge
<1>10. CASE WriteTo
  BY <1>10, <1>a, <1>d, <1>f, NodeUpserted DEF WriteTo, Writing, TypeOK, RuntimeEdge
<1>11. CASE WriteEdge
  <2>1. Observed(Current, job.env) \in Edge
    BY <1>11, <1>d, <1>f, RefsAssumption DEF WriteEdge, Writing, Observed, Edge, RuntimeEdge, Provenance
  <2>2. db' \in Db
    BY <1>11, <1>a, <2>1, EdgeUpserted DEF WriteEdge
  <2>3. QED
    BY <1>11, <1>a, <1>d, <2>2 DEF WriteEdge, Writing, NextEdge, TypeOK
<1>12. CASE WriteFails
  <2>1. Pair(Current) \in Repos \X Repos
    BY <1>12, <1>d, <1>f DEF WriteFails, Pair, RuntimeEdge
  <2> DEFINE given == [job.report EXCEPT !.unwritten = job.report.unwritten \cup {Pair(Current)}]
  <2>2. given \in ReportType
    BY <1>12, <1>d, <2>1 DEF WriteFails, ReportType
  <2>3. job' = [job EXCEPT !.at = "from", !.todo = job.todo \ {Current}, !.report = given]
    BY <1>12, <1>d DEF WriteFails
  <2> HIDE DEF given
  <2>4. /\ job' \in [kind : {"reconcile"}, env : Envs, todo : SUBSET RuntimeEdge,
                     at : {"from", "to", "edge"}, report : ReportType]
        /\ job'.at = "from"
    <3> HIDE DEF Current
    <3>1. job \in [kind : {"reconcile"}, env : Envs, todo : SUBSET RuntimeEdge,
                   at : {"from", "to", "edge"}, report : ReportType]
      BY <1>12, <1>d DEF WriteFails
    <3>2. QED
      BY <2>2, <2>3, <3>1
  <2>5. db' = db /\ report' = report
    BY <1>12 DEF WriteFails
  <2>6. QED
    BY <1>a, <2>4, <2>5 DEF TypeOK
<1>13. CASE Report
  BY <1>13, <1>a, <1>d DEF Report, TypeOK
<1>14. CASE Crash
  BY <1>14, <1>a DEF Crash, TypeOK
<1>15. CASE UNCHANGED vars
  BY <1>15 DEF vars, TypeOK
<1>16. QED
  BY <1>1, <1>2, <1>3, <1>4, <1>5, <1>6, <1>7, <1>8, <1>9, <1>10, <1>11, <1>12, <1>13, <1>14, <1>15
     DEF Next, Start, Work

\* The type invariant of builds, reconciliations and the graph between them.
THEOREM Typed == Spec => []TypeOK
BY InitTyped, NextTyped, PTL DEF Spec

-----------------------------------------------------------------------------
(***************************************************************************)
(* Edges are added once, and no static one is lost.                        *)
(***************************************************************************)
LEMMA StoreStep ==
  ASSUME TypeOK, TypeOK', [Next]_vars
  PROVE  \/ db' = db
         \/ \E id \in Repos : db' = UpsertNode(db, id)
         \/ \E e \in Edge : db' = UpsertEdge(db, e)
<1>1. ASSUME AddFrom \/ AddTo \/ AddFound
      PROVE  Head(job.todo) \in Edge
  <2>1. job.todo \in Seq(Edge) /\ job.todo # <<>>
    BY <1>1 DEF AddFrom, AddTo, AddFound, Persisting, TypeOK, Idle
  <2>2. QED
    BY <2>1
<1>2. ASSUME WriteFrom \/ WriteTo \/ WriteEdge
      PROVE  job.env \in Envs /\ Current \in RuntimeEdge
  <2>1. job.env \in Envs /\ job.todo \in SUBSET RuntimeEdge /\ job.todo # {}
    BY <1>2 DEF WriteFrom, WriteTo, WriteEdge, Writing, TypeOK, Idle
  <2>2. QED
    BY <2>1 DEF Current
<1>3. CASE AddFrom \/ AddTo \/ AddFound
  BY <1>1, <1>3 DEF AddFrom, AddTo, AddFound, Edge
<1>4. CASE WriteFrom \/ WriteTo
  BY <1>2, <1>4 DEF WriteFrom, WriteTo, RuntimeEdge
<1>5. CASE WriteEdge
  <2>1. Observed(Current, job.env) \in Edge
    BY <1>2, <1>5, RefsAssumption DEF Observed, Edge, RuntimeEdge, Provenance
  <2>2. QED
    BY <1>5, <2>1 DEF WriteEdge
<1>6. CASE \E r \in Repos : AddRepo(r)
  BY <1>6 DEF AddRepo
<1>7. QED
  BY <1>3, <1>4, <1>5, <1>6
     DEF Next, Start, Work, StartBuild, StartReconcile, FinishBuild, ReadGraph, WriteFails, Report,
         Crash, vars

\* No step makes a second edge of a pair or loses anything of the graph.
LEMMA StepKeeps ==
  ASSUME TypeOK, TypeOK', [Next]_vars
  PROVE  /\ OneEdge => OneEdge'
         /\ \A i \in DOMAIN db.edges : i \in DOMAIN db'.edges /\ db'.edges[i] = db.edges[i]
         /\ Pairs(db) \subseteq Pairs(db')
         /\ db.nodes \subseteq db'.nodes
<1>1. db \in Db
  BY DEF TypeOK, Db
<1>2. CASE db' = db
  BY <1>2 DEF OneEdge
<1>3. ASSUME NEW id \in Repos, db' = UpsertNode(db, id)
      PROVE  db'.edges = db.edges /\ Pairs(db') = Pairs(db) /\ db.nodes \subseteq db'.nodes
  BY <1>1, <1>3, NodeUpserted
<1>4. ASSUME NEW e \in Edge, db' = UpsertEdge(db, e)
      PROVE  /\ OneEdge => OneEdge'
             /\ \A i \in DOMAIN db.edges : i \in DOMAIN db'.edges /\ db'.edges[i] = db.edges[i]
             /\ Pairs(db) \subseteq Pairs(db')
             /\ db.nodes \subseteq db'.nodes
  BY <1>1, <1>4, EdgeUpserted DEF OneEdge
<1>5. QED
  BY <1>2, <1>3, <1>4, StoreStep DEF OneEdge

\* No dependency is stored twice for one environment and from one source, whatever
\* is run, killed and run again (KuzuStore.upsert_edge).
THEOREM NoDuplicates == Spec => []OneEdge
<1>1. Init => OneEdge
  BY DEF Init, EmptyDb, OneEdge
<1>2. TypeOK /\ TypeOK' /\ OneEdge /\ [Next]_vars => OneEdge'
  BY StepKeeps
<1>3. QED
  BY <1>1, <1>2, Typed, PTL DEF Spec

\* What a build found stays found, and no reconciliation touches it (upsert_edge,
\* CrossValidator._write_runtime_edge).
THEOREM Permanent == Spec => StaticStays
<1>1. ASSUME TypeOK, TypeOK', [Next]_vars
      PROVE  \A e \in Static(db) : e \in Static(db')
  BY <1>1, StepKeeps DEF Static, Stored
<1>2. TypeOK /\ TypeOK' /\ [Next]_vars =>
        [\A e \in Static(db) : \E f \in Static(db') :
           /\ Pair(f) = Pair(e) /\ f.env = e.env
           /\ job.kind = "reconcile" => f = e]_vars
  BY <1>1
<1>3. QED
  BY <1>2, Typed, PTL DEF Spec, StaticStays

-----------------------------------------------------------------------------
(***************************************************************************)
(* Nothing found or observed is lost.                                      *)
(***************************************************************************)
LEMMA NextKept == TypeOK /\ TypeOK' /\ SessionInv /\ [Next]_vars => SessionInv'
<1> SUFFICES ASSUME TypeOK, TypeOK', SessionInv, [Next]_vars
             PROVE  SessionInv'
  OBVIOUS
<1>a. db \in Db /\ Pairs(db) \subseteq Pairs(db') /\ db.nodes \subseteq db'.nodes
  BY StepKeeps DEF TypeOK, Db
<1>b. ASSUME job.kind = "build"
      PROVE  /\ job \in [kind : {"build"}, input : Builds, left : SUBSET Repos, todo : Seq(Edge),
                         at : {"from", "to", "edge"}]
             /\ job.todo # <<>> => Head(job.todo) \in Edge
  <2>1. job \in [kind : {"build"}, input : Builds, left : SUBSET Repos, todo : Seq(Edge),
                 at : {"from", "to", "edge"}]
    BY <1>b DEF TypeOK, Idle
  <2>2. QED
    BY <2>1
<1>c. ASSUME job.kind = "reconcile", job.at # "read"
      PROVE  /\ job \in [kind : {"reconcile"}, env : Envs, todo : SUBSET RuntimeEdge,
                         at : {"from", "to", "edge"}, report : ReportType]
             /\ job.todo # {} => Current \in RuntimeEdge /\ Current \in job.todo
  BY <1>c DEF TypeOK, Idle, Current
<1>d. report' = report => ObservedStored'
  BY <1>a DEF SessionInv, ObservedStored
<1>e. ASSUME NEW id \in Repos, db' = UpsertNode(db, id)
      PROVE  id \in db'.nodes
  BY <1>a, <1>e, NodeUpserted
<1>1. ASSUME NEW b \in Builds, StartBuild(b)
      PROVE  SessionInv'
  BY <1>1 DEF StartBuild, SessionInv, BuildInv, ReconcileInv, ObservedStored
<1>2. ASSUME NEW env \in Envs, NEW t \in Telemetries, StartReconcile(env, t)
      PROVE  SessionInv'
  BY <1>2 DEF StartReconcile, Reconcile, SessionInv, BuildInv, ReconcileInv, ObservedStored
<1>3. ASSUME NEW r \in Repos, AddRepo(r)
      PROVE  SessionInv'
  <2>1. job.kind = "build" /\ job' = [job EXCEPT !.left = @ \ {r}] /\ report' = report
    BY <1>3 DEF AddRepo
  <2>2. job'.kind = "build" /\ job'.input = job.input /\ job'.todo = job.todo /\ job'.at = job.at
    BY <1>b, <2>1
  <2>3. QED
    BY <1>a, <1>d, <2>1, <2>2 DEF SessionInv, BuildInv, ReconcileInv
<1>4. CASE AddFrom
  <2>1. /\ job'.kind = "build" /\ job'.input = job.input /\ job'.todo = job.todo /\ job'.at = "to"
        /\ report' = report
    BY <1>4, <1>b DEF AddFrom, Persisting
  <2>2. Head(job.todo).from \in db'.nodes
    BY <1>4, <1>b, <1>e DEF AddFrom, Persisting, Edge
  <2>3. QED
    BY <1>4, <1>a, <1>d, <2>1, <2>2 DEF AddFrom, Persisting, SessionInv, BuildInv, ReconcileInv
<1>5. CASE AddTo
  <2>1. /\ job'.kind = "build" /\ job'.input = job.input /\ job'.todo = job.todo /\ job'.at = "edge"
        /\ report' = report
    BY <1>5, <1>b DEF AddTo, Persisting
  <2>2. Head(job.todo).to \in db'.nodes
    BY <1>5, <1>b, <1>e DEF AddTo, Persisting, Edge
  <2>3. QED
    BY <1>5, <1>a, <1>d, <2>1, <2>2 DEF AddTo, Persisting, SessionInv, BuildInv, ReconcileInv
<1>6. CASE AddFound
  <2>1. /\ job'.kind = "build" /\ job'.input = job.input /\ job'.todo = Tail(job.todo)
        /\ job'.at = "from" /\ report' = report
    BY <1>6, <1>b DEF AddFound, Persisting
  <2>2. Pair(Head(job.todo)) \in Pairs(db')
    <3>1. {Head(job.todo).from, Head(job.todo).to} \subseteq db.nodes
      BY <1>6 DEF AddFound, Persisting, SessionInv, BuildInv
    <3>2. QED
      BY <1>6, <1>a, <1>b, <3>1, EdgeUpserted DEF AddFound, Persisting
  <2>3. job.todo \in Seq(Edge) /\ job.todo # <<>>
    BY <1>6, <1>b DEF AddFound, Persisting
  <2>4. ASSUME NEW k \in DOMAIN job.todo
        PROVE  \/ job.todo[k] = Head(job.todo)
               \/ \E l \in DOMAIN Tail(job.todo) : Tail(job.todo)[l] = job.todo[k]
    <3>1. CASE k = 1
      BY <2>3, <3>1
    <3>2. CASE k # 1
      <4>1. k - 1 \in DOMAIN Tail(job.todo) /\ Tail(job.todo)[k - 1] = job.todo[k]
        BY <2>3, <3>2
      <4>2. QED
        BY <4>1
    <3>3. QED
      BY <3>1, <3>2
  <2>5. BuildInv'
    <3>1. ASSUME NEW i \in DOMAIN job.input.found
          PROVE  \/ Pair(job.input.found[i]) \in Pairs(db')
                 \/ \E l \in DOMAIN Tail(job.todo) : Tail(job.todo)[l] = job.input.found[i]
      BY <1>6, <1>a, <2>2, <2>4 DEF AddFound, Persisting, SessionInv, BuildInv
    <3>2. QED
      BY <2>1, <3>1 DEF BuildInv
  <2>6. QED
    BY <1>d, <2>1, <2>5 DEF SessionInv, ReconcileInv
<1>7. ASSUME NEW t \in Telemetries, FinishBuild(t)
      PROVE  SessionInv'
  BY <1>7, <1>d DEF FinishBuild, Reconcile, Idle, SessionInv, BuildInv, ReconcileInv
<1>8. ASSUME NEW raises \in BOOLEAN, ReadGraph(raises)
      PROVE  SessionInv'
  <2> DEFINE static  == IF raises THEN {} ELSE InEnv(db, job.env)
             runtime == RuntimeEdges(job.index, job.env, job.telemetry)
  <2>1. /\ job'.kind = "reconcile" /\ job'.at = "from" /\ job'.todo = RuntimeOnly(static, runtime)
        /\ job'.report.runtime = runtime /\ db' = db /\ report' = report
    BY <1>8 DEF ReadGraph
  <2>2. ASSUME NEW e \in runtime, e \notin RuntimeOnly(static, runtime)
        PROVE  Pair(e) \in Pairs(db)
    <3>1. PICK f \in static : Between(f) = Between(e)
      BY <2>2 DEF RuntimeOnly
    <3>2. f \in Stored(db)
      BY <3>1 DEF InEnv
    <3>3. QED
      BY <3>1, <3>2 DEF Pairs, Pair, Between
  <2> HIDE DEF static, runtime
  <2>3. QED
    BY <1>d, <2>1, <2>2 DEF SessionInv, BuildInv, ReconcileInv
<1>9. CASE WriteFrom
  <2>1. /\ job.kind = "reconcile" /\ job.at # "read" /\ job.todo # {}
        /\ job' = [job EXCEPT !.at = "to"] /\ report' = report /\ db' = UpsertNode(db, Current.from)
    BY <1>9 DEF WriteFrom, Writing
  <2>2. /\ job'.kind = "reconcile" /\ job'.todo = job.todo /\ job'.at = "to" /\ job'.report = job.report
    BY <1>c, <2>1
  <2>3. Current' = Current
    BY <2>2 DEF Current
  <2>4. Current.from \in db'.nodes
    BY <1>c, <1>e, <2>1 DEF RuntimeEdge
  <2>5. QED
    BY <1>a, <1>d, <2>1, <2>2, <2>3, <2>4 DEF SessionInv, BuildInv, ReconcileInv
<1>10. CASE WriteTo
  <2>1. /\ job.kind = "reconcile" /\ job.at = "to" /\ job.todo # {}
        /\ job' = [job EXCEPT !.at = "edge"] /\ report' = report /\ db' = UpsertNode(db, Current.to)
    BY <1>10 DEF WriteTo, Writing
  <2>2. /\ job'.kind = "reconcile" /\ job'.todo = job.todo /\ job'.at = "edge" /\ job'.report = job.report
    BY <1>c, <2>1
  <2>3. Current' = Current
    BY <2>2 DEF Current
  <2>4. Current.to \in db'.nodes
    BY <1>c, <1>e, <2>1 DEF RuntimeEdge
  <2>5. QED
    BY <1>a, <1>d, <2>1, <2>2, <2>3, <2>4 DEF SessionInv, BuildInv, ReconcileInv
<1>11. CASE WriteEdge
  <2>1. /\ job.kind = "reconcile" /\ job.at = "edge" /\ job.todo # {} /\ report' = report
        /\ {Current.from, Current.to} \subseteq db.nodes
    BY <1>11 DEF WriteEdge, Writing, SessionInv, ReconcileInv
  <2>2. /\ job'.kind = "reconcile" /\ job'.todo = job.todo \ {Current} /\ job'.at = "from"
        /\ job'.report = job.report
    BY <1>11, <1>c, <2>1 DEF WriteEdge, NextEdge
  <2>3. Pair(Current) \in Pairs(db')
    <3>1. CASE AlreadyObserved(Current, job.env)
      BY <1>a, <3>1 DEF AlreadyObserved, InEnv, Pairs
    <3>2. CASE ~AlreadyObserved(Current, job.env)
      <4> DEFINE e == Observed(Current, job.env)
      <4>1. /\ e \in Edge /\ Pair(e) = Pair(Current) /\ {e.from, e.to} \subseteq db.nodes
        BY <1>c, <2>1, RefsAssumption DEF Observed, Edge, RuntimeEdge, Provenance, Pair
      <4>2. db' = UpsertEdge(db, e)
        BY <1>11, <3>2 DEF WriteEdge
      <4> HIDE DEF e
      <4>3. QED
        BY <1>a, <4>1, <4>2, EdgeUpserted
    <3>3. QED
      BY <3>1, <3>2
  <2>4. QED
    BY <1>a, <1>d, <2>1, <2>2, <2>3 DEF SessionInv, BuildInv, ReconcileInv
<1>12. CASE WriteFails
  <2>1. /\ job.kind = "reconcile" /\ job.at # "read" /\ job.todo # {} /\ report' = report /\ db' = db
    BY <1>12 DEF WriteFails
  <2>2. job \in [kind : {"reconcile"}, env : Envs, todo : SUBSET RuntimeEdge,
                 at : {"from", "to", "edge"}, report : ReportType]
    BY <1>c, <2>1
  <2>3. /\ job'.kind = "reconcile" /\ job'.todo = job.todo \ {Current} /\ job'.at = "from"
        /\ job'.report = [job.report EXCEPT !.unwritten = job.report.unwritten \cup {Pair(Current)}]
    BY <1>12, <2>2 DEF WriteFails
  <2>4. /\ job'.report.runtime = job.report.runtime
        /\ job'.report.unwritten = job.report.unwritten \cup {Pair(Current)}
    BY <2>2, <2>3 DEF ReportType
  <2>5. QED
    BY <1>d, <2>1, <2>3, <2>4 DEF SessionInv, BuildInv, ReconcileInv
<1>13. CASE Report
  BY <1>13 DEF Report, Idle, SessionInv, BuildInv, ReconcileInv, ObservedStored
<1>14. CASE Crash
  BY <1>14, <1>d DEF Crash, Idle, SessionInv, BuildInv, ReconcileInv
<1>15. CASE UNCHANGED vars
  <2>1. db' = db /\ job' = job /\ report' = report
    BY <1>15 DEF vars
  <2>2. QED
    BY <2>1 DEF SessionInv, BuildInv, ReconcileInv, ObservedStored, Current
<1>16. QED
  BY <1>1, <1>2, <1>3, <1>4, <1>5, <1>6, <1>7, <1>8, <1>9, <1>10, <1>11, <1>12, <1>13, <1>14, <1>15
     DEF Next, Start, Work

\* So it holds throughout.
LEMMA Kept == Spec => []SessionInv
<1>1. Init => SessionInv
  BY DEF Init, Idle, NoReport, SessionInv, BuildInv, ReconcileInv, ObservedStored
<1>2. QED
  BY <1>1, NextKept, Typed, PTL DEF Spec

\* A build that runs to its end has stored an edge for every pair it found,
\* whatever ran, failed or was killed before it.
THEOREM BuildKept == Spec => []BuildStored
<1>1. TypeOK /\ SessionInv => BuildStored
  BY DEF SessionInv, BuildInv, BuildStored, Persisted
<1>2. QED
  BY <1>1, Kept, Typed, PTL

\* What a reconciliation observed is stored or reported as unwritten.
THEOREM ObservedKept == Spec => []ObservedStored
<1>1. SessionInv => ObservedStored
  BY DEF SessionInv
<1>2. QED
  BY <1>1, Kept, PTL
=============================================================================
