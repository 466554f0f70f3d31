----------------------------- MODULE QueryEngine -----------------------------
(***************************************************************************)
(* The questions that are asked of a stored graph (QueryEngine in          *)
(* tendril/query/engine.py).  find_relevant_repos, impact_analysis and     *)
(* dependency_path are one breadth-first search with different starts,     *)
(* directions, limits and ends; env_diff and explain_edge look at single   *)
(* edges.  The store returns rows in any order.  All who write the graph   *)
(* give a Deployable its repository's id, so the two ids are one here.     *)
(***************************************************************************)
EXTENDS KuzuStore, SequencesExt

CONSTANTS Nodes,          \* repositories in the graph
          Envs,
          Refs,           \* deployed refs; "" is none
          MaxImpactHops,  \* 5 in the code
          Graphs,         \* the databases a run tries
          Questions       \* the questions it asks

\* Most trusted first: what the schema of a question admits as its minimum.
Confidence == <<"high", "medium", "low">>
Provenance == <<"declared", "injected", "observed", "llm-judged">>

Edge == [from : Nodes, to : Nodes, env : Envs, provenance : ToSet(Provenance),
         confidence : ToSet(Confidence) \cup {"very-high", "very-low"}, ref : Refs]

\* `starts' are the repositories that match the task, or the one named.
Question ==
  [op : {"find"}, starts : SUBSET Nodes, env : Envs, hops : Int, min : ToSet(Confidence)]
    \cup [op : {"impact"}, starts : {{n} : n \in Nodes}, env : Envs, min : ToSet(Confidence)]
    \cup [op : {"path"}, starts : {{n} : n \in Nodes}, goal : Nodes, env : Envs]
    \cup [op : {"explain"}, starts : {{n} : n \in Nodes}, goal : Nodes, env : Envs]
    \cup [op : {"diff"}, starts : {{n} : n \in Nodes}, env : Envs, other : Envs]

ASSUME NodesAssumption     == IsFiniteSet(Nodes) /\ "" \notin Nodes
ASSUME HopsAssumption      == MaxImpactHops \in Nat /\ "" \in Refs
ASSUME GraphsAssumption    == Graphs \subseteq [nodes : {Nodes}, edges : Seq(Edge)]
ASSUME QuestionsAssumption == Questions \subseteq Question

VARIABLES
  db,        \* the graph, which no question changes
  question,
  queue,     \* what the search has still to look at, with the way to it
  current,   \* what it is looking at
  rows,      \* the edges of `current' it has still to look at
  visited,
  results,
  refs,      \* deployed_refs
  answer

vars == <<db, question, queue, current, rows, visited, results, refs, answer>>

Unanswered == [kind |-> "none"]
Nobody     == [node |-> "", path |-> <<>>]

-----------------------------------------------------------------------------
\* A confidence the table does not list has the rank of "low".
Rank(confidence) == CASE confidence = "high" -> 2 [] confidence = "medium" -> 1 [] OTHER -> 0

Passes(e) == question.op \in {"find", "impact"} => Rank(e.confidence) >= Rank(question.min)

Here(e)  == IF question.op = "impact" THEN e.to ELSE e.from
There(e) == IF question.op = "impact" THEN e.from ELSE e.to

\* The weakest, or least trusted, of what is listed, and the best of nothing.
Weakest(order, present) == order[Max({1} \cup {i \in DOMAIN order : order[i] \in present})]

Labelled(confidence) == IF confidence \in {"high", "medium"} THEN confidence ELSE "low"

Answer(found, used, unknown) ==
  [kind |-> "result", results |-> found, refs |-> refs,
   confidence |-> Weakest(Confidence, {Labelled(e.confidence) : e \in used}),
   provenance |-> Weakest(Provenance, {e.provenance : e \in used}), unknown |-> unknown]

Init ==
  /\ db \in Graphs
  /\ question \in Questions
  /\ \E order \in SetToSeqs(question.starts) :
       queue = [i \in DOMAIN order |-> [node |-> order[i], path |-> <<>>]]
  /\ current = Nobody
  /\ rows = {}
  /\ visited = question.starts
  /\ results = <<>>
  /\ refs = [n \in Nodes |-> ""]
  /\ answer = Unanswered

Searching == answer = Unanswered /\ question.op \in {"find", "impact", "path"}

-----------------------------------------------------------------------------
(***************************************************************************)
(* The search.                                                             *)
(***************************************************************************)
\* Mutant: whatever environment the edge is of.
OwnRef_Anywhere(n) ==
  LET own == {e.ref : e \in {f \in Stored(db) : f.from = n}}
  IN  IF own = {} THEN {""} ELSE own

\* The deployed ref of some edge that starts at the repository.
OwnRef(n) ==
  LET own == {e.ref : e \in {f \in InEnv(db, question.env) : f.from = n}}
  IN  IF own = {} THEN {""} ELSE own

\* Mutant: the limit is tested one hop late.
AtLimit_Late(path) ==
  CASE question.op = "find"   -> Len(path) > question.hops
    [] question.op = "impact" -> Len(path) > MaxImpactHops
    [] question.op = "path"   -> FALSE

AtLimit(path) ==
  CASE question.op = "find"   -> Len(path) >= question.hops
    [] question.op = "impact" -> Len(path) >= MaxImpactHops
    [] question.op = "path"   -> FALSE

\* find_relevant_repos adds a repository when it is taken from the queue.
Take ==
  /\ Searching
  /\ rows = {}
  /\ queue # <<>>
  /\ current' = Head(queue)
  /\ queue' = Tail(queue)
  /\ rows' = IF AtLimit(current'.path) THEN {}
             ELSE {e \in InEnv(db, question.env) : Here(e) = current'.node}
  /\ IF question.op = "find"
     THEN /\ results' = Append(results, current')
          /\ \E ref \in OwnRef(current'.node) :
               refs' = IF ref = "" THEN refs ELSE [refs EXCEPT ![current'.node] = ref]
     ELSE UNCHANGED <<results, refs>>
  /\ UNCHANGED <<db, question, visited, answer>>

PassOver(e) ==
  /\ Searching
  /\ e \in rows
  /\ ~Passes(e) \/ There(e) \in visited
  /\ rows' = rows \ {e}
  /\ UNCHANGED <<db, question, queue, current, visited, results, refs, answer>>

\* The ref of an edge is kept under the repository that was found by it.
Noted(e) == IF e.ref = "" THEN refs ELSE [refs EXCEPT ![There(e)] = e.ref]

Reached(e) == [node |-> There(e), path |-> Append(current.path, e)]

\* Mutant: what was found last is looked at first.
Visit_Stack(e) ==
  /\ Searching
  /\ e \in rows
  /\ Passes(e) /\ There(e) \notin visited
  /\ question.op = "path" => There(e) # question.goal
  /\ visited' = visited \cup {There(e)}
  /\ rows' = rows \ {e}
  /\ queue' = <<Reached(e)>> \o queue
  /\ results' = IF question.op = "impact" THEN Append(results, Reached(e)) ELSE results
  /\ refs' = IF question.op = "path" THEN refs ELSE Noted(e)
  /\ UNCHANGED <<db, question, current, answer>>

Visit(e) ==
  /\ Searching
  /\ e \in rows
  /\ Passes(e) /\ There(e) \notin visited
  /\ question.op = "path" => There(e) # question.goal
  /\ visited' = visited \cup {There(e)}
  /\ rows' = rows \ {e}
  /\ queue' = Append(queue, Reached(e))
  /\ results' = IF question.op = "impact" THEN Append(results, Reached(e)) ELSE results
  /\ refs' = IF question.op = "path" THEN refs ELSE Noted(e)
  /\ UNCHANGED <<db, question, current, answer>>

\* The refs of a path's edges, each under the repository the edge leads to.
RefsAlong(path) ==
  [n \in Nodes |-> IF \E i \in DOMAIN path : path[i].to = n
                   THEN path[CHOOSE i \in DOMAIN path : path[i].to = n].ref ELSE ""]

\* Mutant: only the last hop is weighed.
Arrive_Last(e) ==
  /\ Searching /\ question.op = "path"
  /\ e \in rows
  /\ There(e) = question.goal /\ There(e) \notin visited
  /\ answer' = [Answer(<<Reached(e)>>, {e}, "") EXCEPT !.refs = RefsAlong(Reached(e).path)]
  /\ UNCHANGED <<db, question, queue, current, rows, visited, results, refs>>

\* dependency_path returns as soon as it meets its goal.
Arrive(e) ==
  /\ Searching /\ question.op = "path"
  /\ e \in rows
  /\ There(e) = question.goal /\ There(e) \notin visited
  /\ answer' = [Answer(<<Reached(e)>>, ToSet(Reached(e).path), "")
                  EXCEPT !.refs = RefsAlong(Reached(e).path)]
  /\ UNCHANGED <<db, question, queue, current, rows, visited, results, refs>>

\* The edge by which each result was found.
Discovering == {Last(r.path) : r \in {s \in ToSet(results) : s.path # <<>>}}

Finish ==
  /\ Searching
  /\ rows = {} /\ queue = <<>>
  /\ answer' = Answer(results, Discovering,
                      IF results # <<>> THEN "" ELSE IF question.op = "path" THEN "no-source" ELSE "no-match")
  /\ UNCHANGED <<db, question, queue, current, rows, visited, results, refs>>

-----------------------------------------------------------------------------
(***************************************************************************)
(* env_diff: what the repository depends on in one environment and not, or *)
(* with another confidence, in the other.                                  *)
(***************************************************************************)
Outbound(env) == {e \in InEnv(db, env) : e.from \in question.starts}
To(edges)     == {e.to : e \in edges}

\* Of several rows that lead to one repository the last one counts.
LastRow(edges) == {row \in [To(edges) -> edges] : \A n \in To(edges) : row[n].to = n}

\* The last ref of an edge to the repository, those of the other environment last.
LastRefs(a, b) ==
  {all \in [Nodes -> Refs] :
     \A n \in Nodes :
       LET leading(edges) == {e.ref : e \in {f \in edges : f.to = n}} \ {""}
       IN  \/ all[n] \in leading(b)
           \/ leading(b) = {} /\ all[n] \in leading(a)
           \/ leading(a) \cup leading(b) = {} /\ all[n] = ""}

Compare ==
  /\ answer = Unanswered /\ question.op = "diff"
  /\ LET a == Outbound(question.env)
         b == Outbound(question.other)
     IN  \E x \in LastRow(a), y \in LastRow(b), all \in LastRefs(a, b) :
           answer' = [kind |-> "diff", removed |-> To(a) \ To(b), added |-> To(b) \ To(a),
                      changed |-> {n \in To(a) \cap To(b) : x[n].confidence # y[n].confidence},
                      refs |-> all]
  /\ UNCHANGED <<db, question, queue, current, rows, visited, results, refs>>

\* explain_edge: the row of one edge, without its evidence and its trace.
Explain ==
  /\ answer = Unanswered /\ question.op = "explain"
  /\ LET asked == {e \in Outbound(question.env) : e.to = question.goal}
     IN  \/ /\ asked = {}
            /\ answer' = Answer(<<>>, {}, "no-source")
         \/ \E e \in asked :
              answer' = [Answer(<<[node |-> e.to, path |-> <<e>>]>>, {e}, "") EXCEPT
                           !.confidence = e.confidence, !.refs = RefsAlong(<<e>>)]
  /\ UNCHANGED <<db, question, queue, current, rows, visited, results, refs>>

Next ==
  \/ Take \/ Finish \/ Compare \/ Explain
  \/ \E e \in rows : PassOver(e) \/ Visit(e) \/ Arrive(e)

Spec == Init /\ [][Next]_vars

-----------------------------------------------------------------------------
(***************************************************************************)
(* What an answer must say of the graph.                                   *)
(***************************************************************************)
Entry == [node : Nodes, path : Seq(Edge)]

\* A way from a start over edges of the environment to a repository.
IsWay(r) ==
  /\ \A i \in DOMAIN r.path : r.path[i] \in InEnv(db, question.env)
  /\ \A i \in 1 .. Len(r.path) - 1 : There(r.path[i]) = Here(r.path[i + 1])
  /\ IF r.path = <<>> THEN r.node \in question.starts
     ELSE Here(r.path[1]) \in question.starts /\ There(Last(r.path)) = r.node

TypeOK ==
  /\ db \in [nodes : {Nodes}, edges : Seq(Edge)]
  /\ question \in Question
  /\ queue \in Seq(Entry) /\ results \in Seq(Entry)
  /\ current = Nobody \/ current \in Entry
  /\ rows \subseteq Edge
  /\ visited \subseteq Nodes /\ {r.node : r \in ToSet(queue) \cup ToSet(results)} \subseteq visited
  /\ refs \in [Nodes -> Refs]
  /\ \A r \in ToSet(queue) \cup ToSet(results) : IsWay(r)

\* The repositories within so many hops, over edges of the confidence asked for.
Trusted(e) ==
  question.op \in {"find", "impact"} =>
    \/ question.min = "low" \/ e.confidence = "high"
    \/ question.min = "medium" /\ e.confidence = "medium"

Within[k \in Nat] ==
  IF k = 0 THEN question.starts
  ELSE LET near == Within[k - 1]
       IN  near \cup {There(e) : e \in {f \in InEnv(db, question.env) : Here(f) \in near /\ Trusted(f)}}

\* No way without a cycle is longer than this.
Farthest == Cardinality(Nodes)

Limit ==
  CASE question.op = "find"   -> IF question.hops > 0 THEN question.hops ELSE 0
    [] question.op = "impact" -> MaxImpactHops
    [] question.op = "path"   -> Farthest

Answered(ops) == answer # Unanswered /\ question.op \in ops

\* find_relevant_repos and impact_analysis return every repository within
\* the limit once, at its true distance, and no others, in whatever order the
\* store lists its rows and whichever ways there are.
ExactlyWithin ==
  Answered({"find", "impact"}) =>
    /\ {r.node : r \in ToSet(answer.results)} =
         Within[Limit] \ (IF question.op = "impact" THEN question.starts ELSE {})
    /\ \A i, j \in DOMAIN answer.results : answer.results[i].node = answer.results[j].node => i = j
    /\ \A r \in ToSet(answer.results) :
         r.path = <<>> \/ r.node \in Within[Len(r.path)] \ Within[Len(r.path) - 1]

\* dependency_path returns a way to the goal than which none is shorter, and
\* says that there is none only when there is none.
ShortestPath ==
  Answered({"path"}) =>
    IF question.goal \in question.starts \/ question.goal \notin Within[Farthest]
    THEN answer.results = <<>> /\ answer.unknown = "no-source"
    ELSE /\ Len(answer.results) = 1
         /\ LET r == answer.results[1]
            IN  IsWay(r) /\ r.node = question.goal /\ r.node \notin Within[Len(r.path) - 1]

\* The confidence and the provenance of an answer are no better than those of
\* any edge on the way to any of its results.
NoBetterThan(order, best, value) ==
  \A i, j \in DOMAIN order : order[i] = best /\ order[j] = value => i >= j

WeakestLink ==
  Answered({"find", "impact", "path"}) =>
    \A r \in ToSet(answer.results) : \A e \in ToSet(r.path) :
      /\ NoBetterThan(Confidence, answer.confidence, e.confidence)
      /\ NoBetterThan(Provenance, answer.provenance, e.provenance)

\* The ref that any of the five answers gives a repository is that of an edge of
\* an environment asked for that starts or ends there (deployed_refs).
RefsOfEnvironment ==
  answer # Unanswered =>
    \A n \in Nodes : answer.refs[n] # "" =>
      \E e \in InEnv(db, question.env)
                \cup (IF question.op = "diff" THEN InEnv(db, question.other) ELSE {}) :
        n \in {e.from, e.to} /\ e.ref = answer.refs[n]
=============================================================================
