---------------------------- MODULE GraphSessions ----------------------------
(***************************************************************************)
(* The commands that write the dependency graph, one after the other on    *)
(* one database: `tendril graph build' persists what a traversal found,    *)
(* then reconciles with telemetry; `tendril telemetry reconcile' does only *)
(* that (tendril/cli/main.py, tendril/core/cross_validate.py).  A command  *)
(* may be killed between any two calls of the store, and a call may fail.  *)
(***************************************************************************)
EXTENDS KuzuStore, CrossValidator

CONSTANTS
  Builds,       \* what the builds of a run persist
  Telemetries,  \* what telemetry may deliver
  Refs,         \* deployed refs, "" among them
  Silent        \* no telemetry: no credentials and no fixtures

Provenance == {"declared", "injected", "llm-judged", "observed"}

Edge == [from : Repos, to : Repos, env : Envs, provenance : Provenance,
         confidence : {"very-high", "high", "medium", "low"}, ref : Refs, signals : SUBSET Capability]

\* A build: its environment, the repositories listed, the edges found (in
\* the order of from, to and env) and the index it was found with.
Build == [env : Envs, repos : SUBSET Repos, found : Seq(Edge), index : SUBSET Entry]

ASSUME BuildsAssumption ==
  /\ Builds \subseteq Build
  /\ \A b \in Builds : \A i \in DOMAIN b.found :
       b.found[i].env = b.env /\ b.found[i].provenance # "observed"
ASSUME TelemetriesAssumption == Telemetries \subseteq Telemetry \cup {Silent}
ASSUME RefsAssumption == "" \in Refs

VARIABLES
  db,
  job,     \* the command that is running, or Idle
  report   \* the report of the last reconciliation, until the next command

vars == <<db, job, report>>

Idle     == [kind |-> "idle"]
NoReport == [kind |-> "none"]

Init == db = EmptyDb /\ job = Idle /\ report = NoReport

-----------------------------------------------------------------------------
(***************************************************************************)
(* tendril graph build.                                                    *)
(***************************************************************************)
StartBuild(b) ==
  /\ job = Idle
  /\ job' = [kind |-> "build", input |-> b, left |-> b.repos, todo |-> b.found, at |-> "from"]
  /\ report' = NoReport
  /\ UNCHANGED db

AddRepo(r) ==
  /\ job.kind = "build"
  /\ r \in job.left
  /\ db' = UpsertNode(db, r)
  /\ job' = [job EXCEPT !.left = @ \ {r}]
  /\ UNCHANGED report

Persisting(at) == job.kind = "build" /\ job.left = {} /\ job.todo # <<>> /\ job.at = at

\* Mutant: the caller is taken to be a repository of the list.
AddFrom_Skip ==
  /\ Persisting("from")
  /\ job' = [job EXCEPT !.at = "to"]
  /\ UNCHANGED <<db, report>>

AddFrom ==
  /\ Persisting("from")
  /\ db' = UpsertNode(db, Head(job.todo).from)
  /\ job' = [job EXCEPT !.at = "to"]
  /\ UNCHANGED report

AddTo ==
  /\ Persisting("to")
  /\ db' = UpsertNode(db, Head(job.todo).to)
  /\ job' = [job EXCEPT !.at = "edge"]
  /\ UNCHANGED report

AddFound ==
  /\ Persisting("edge")
  /\ db' = UpsertEdge(db, Head(job.todo))
  /\ job' = [job EXCEPT !.at = "from", !.todo = Tail(@)]
  /\ UNCHANGED report

Persisted == job.kind = "build" /\ job.left = {} /\ job.todo = <<>>

Reconcile(env, index, t) ==
  [kind |-> "reconcile", env |-> env, index |-> index, telemetry |-> t, todo |-> {}, at |-> "read"]

\* With telemetry, a build goes on in the same process and with its index.
FinishBuild(t) ==
  /\ Persisted
  /\ job' = IF t = Silent THEN Idle ELSE Reconcile(job.input.env, job.input.index, t)
  /\ UNCHANGED <<db, report>>

-----------------------------------------------------------------------------
(***************************************************************************)
(* tendril telemetry reconcile, whose index is new and empty.              *)
(***************************************************************************)
StartReconcile(env, t) ==
  /\ job = Idle
  /\ t # Silent
  /\ job' = Reconcile(env, {}, t)
  /\ report' = NoReport
  /\ UNCHANGED db

\* Everything up to the writes.  The graph is read in one query; when that
\* raises the static set is empty.  `runtime' is not part of the report.
ReadGraph(raises) ==
  /\ job.kind = "reconcile" /\ job.at = "read"
  /\ LET static  == IF raises THEN {} ELSE InEnv(db, job.env)
         runtime == RuntimeEdges(job.index, job.env, job.telemetry)
     IN  job' = [kind |-> "reconcile", env |-> job.env, at |-> "from",
                 todo   |-> RuntimeOnly(static, runtime),
                 report |-> [kind |-> "report", env |-> job.env,
                             confirmed    |-> Confirmed(static, runtime),
                             static_only  |-> StaticOnly(static, runtime),
                             runtime_only |-> RuntimeOnly(static, runtime),
                             runtime      |-> runtime,
                             unknowns     |-> Unknowns(job.index, job.env, job.telemetry),
                             notices      |-> FetchNotices(job.telemetry),
                             unwritten    |-> {}]]
  /\ UNCHANGED <<db, report>>

\* The edge being written is the least of those left: sorted() by ids, which
\* here is any order that does not change between the steps of one edge.
Writing(at) == job.kind = "reconcile" /\ job.at = at /\ job.todo # {}
Current     == CHOOSE e \in job.todo : TRUE

WriteFrom ==
  /\ Writing("from")
  /\ db' = UpsertNode(db, Current.from)
  /\ job' = [job EXCEPT !.at = "to"]
  /\ UNCHANGED report

WriteTo ==
  /\ Writing("to")
  /\ db' = UpsertNode(db, Current.to)
  /\ job' = [job EXCEPT !.at = "edge"]
  /\ UNCHANGED report

\* Nothing in the repository creates the DEPLOYED_AS edges from which the
\* deployed ref would be taken.
Observed(e, env) ==
  [from |-> e.from, to |-> e.to, env |-> env, provenance |-> "observed",
   confidence |-> e.confidence, ref |-> "", signals |-> e.signals]

AlreadyObserved(e, env) ==
  \E f \in InEnv(db, env) : Pair(f) = Pair(e) /\ f.provenance = "observed"

NextEdge == job' = [job EXCEPT !.at = "from", !.todo = @ \ {Current}]

WriteEdge ==
  /\ Writing("edge")
  /\ db' = IF AlreadyObserved(Current, job.env) THEN db ELSE UpsertEdge(db, Observed(Current, job.env))
  /\ NextEdge
  /\ UNCHANGED report

\* Mutant: an edge that could not be written is passed over in silence.
WriteFails_Quiet ==
  /\ job.kind = "reconcile" /\ job.at \in {"from", "to", "edge"} /\ job.todo # {}
  /\ NextEdge
  /\ UNCHANGED <<db, report>>

\* Mutant: an edge that could not be written is tried again.
WriteFails_Retry ==
  /\ job.kind = "reconcile" /\ job.at \in {"from", "to", "edge"} /\ job.todo # {}
  /\ job' = [job EXCEPT !.at = "from", !.report.unwritten = @ \cup {Pair(Current)}]
  /\ UNCHANGED <<db, report>>

\* A call of the store raised: the edge is given up, with a notice.
WriteFails ==
  /\ job.kind = "reconcile" /\ job.at \in {"from", "to", "edge"} /\ job.todo # {}
  /\ job' = [job EXCEPT !.at = "from", !.todo = @ \ {Current},
                        !.report.unwritten = @ \cup {Pair(Current)}]
  /\ UNCHANGED <<db, report>>

Report ==
  /\ job.kind = "reconcile" /\ job.at = "from" /\ job.todo = {}
  /\ report' = job.report
  /\ job' = Idle
  /\ UNCHANGED db

\* The command is killed, or a build stops at a call of the store that raises.
Crash ==
  /\ job # Idle
  /\ job' = Idle
  /\ UNCHANGED <<db, report>>

-----------------------------------------------------------------------------
Start ==
  \/ \E b \in Builds : StartBuild(b)
  \/ \E env \in Envs, t \in Telemetries : StartReconcile(env, t)

Work ==
  \/ \E r \in Repos : AddRepo(r)
  \/ AddFrom \/ AddTo \/ AddFound
  \/ \E t \in Telemetries : FinishBuild(t)
  \/ \E raises \in BOOLEAN : ReadGraph(raises)
  \/ WriteFrom \/ WriteTo \/ WriteEdge \/ WriteFails \/ Report

Next == Start \/ Work \/ Crash

Spec == Init /\ [][Next]_vars

\* A command that runs is scheduled; nothing makes anybody start one.
FairSpec == Spec /\ WF_vars(Work)

-----------------------------------------------------------------------------
RuntimeEdge == [from : Repos, to : Repos, signals : SUBSET Capability, confidence : {"high", "medium"}]

ReportType ==
  [kind : {"report"}, env : Envs,
   confirmed : SUBSET Edge, static_only : SUBSET Edge,
   runtime_only : SUBSET RuntimeEdge, runtime : SUBSET RuntimeEdge,
   unknowns : SUBSET [service : ServiceName, reason : {"no-index-match", "ambiguous-match"}],
   notices : SUBSET [cap : Capability, reason : {"error", "inactive"}],
   unwritten : SUBSET (Repos \X Repos)]

TypeOK ==
  /\ db \in [nodes : SUBSET Repos, edges : Seq(Edge)]
  /\ \/ job = Idle
     \/ /\ job \in [kind : {"build"}, input : Builds, left : SUBSET Repos, todo : Seq(Edge),
                    at : {"from", "to", "edge"}]
        /\ job.at # "from" => job.left = {} /\ job.todo # <<>>
     \/ job \in [kind : {"reconcile"}, env : Envs, index : SUBSET Entry,
                 telemetry : Telemetries \ {Silent}, todo : {{}}, at : {"read"}]
     \/ /\ job \in [kind : {"reconcile"}, env : Envs, todo : SUBSET RuntimeEdge,
                    at : {"from", "to", "edge"}, report : ReportType]
        /\ job.at # "from" => job.todo # {}
  /\ report = NoReport \/ report \in ReportType

\* However builds and reconciliations are repeated, killed and repeated, none
\* stores a dependency twice: for one environment and from one source there is one
\* edge between two repositories at most.
OneEdge == \A i, j \in DOMAIN db.edges : Key(db.edges[i]) = Key(db.edges[j]) => i = j

\* A build that runs to its end, after any number that did not, has an edge in
\* the graph for every pair it found.
BuildStored == Persisted => \A i \in DOMAIN job.input.found : Pair(job.input.found[i]) \in Pairs(db)

\* What was observed is in the graph when the report is given, unless the
\* report says that it could not be written.
ObservedStored ==
  report # NoReport =>
    \A e \in report.runtime : Pair(e) \in Pairs(db) \cup report.unwritten

\* What a build has found for an environment stays found, whatever is built,
\* observed, killed or fails later; and telemetry leaves the edge itself as it is
\* (005 FR-005, FR-017), which is not to say that it may not see to its own.
StaticStays ==
  [][\A e \in Static(db) : \E f \in Static(db') :
       /\ Pair(f) = Pair(e) /\ f.env = e.env
       /\ job.kind = "reconcile" => f = e]_vars

\* Whatever fails in it, a reconciliation ends.
ReconcileEnds == job.kind = "reconcile" ~> job.kind # "reconcile"

-----------------------------------------------------------------------------
\* The edges that a build found are in the graph, in its environment
\* (specs/001-m0-m4-verify/spec.md:330: each environment has its own edges).
EnvironmentsIndependent ==
  Persisted => \A i \in DOMAIN job.input.found : \E e \in InEnv(db, job.input.env) :
                 Pair(e) = Pair(job.input.found[i])
=============================================================================
