# Tendril-Graph: a TLA+ verification project

Tendril-Graph builds a graph of the dependencies between the repositories of an
organisation.  It reads repositories, CI/CD servers and telemetry through
connectors, resolves what a repository's configuration refers to, stores the
result in an embedded Kùzu database and answers questions about it.  This
directory models the parts of it that decide what ends up in the graph, checks
them with TLC and proves the central invariants with TLAPS.  Paths below are
relative to `src/tendril/` unless they begin with `specs/`.

- [1. The system](#1-the-system)
- [2. Modules](#2-modules)
- [3. Runs](#3-runs)
- [4. Fairness](#4-fairness)
- [5. Proofs](#5-proofs)
- [6. What is left out](#6-what-is-left-out)
- [7. Where the code and its documents disagree](#7-where-the-code-and-its-documents-disagree)
- [8. Plan](#8-plan)

## 1. The system

### Components, state and operations

| component | state it keeps | operations | correct when |
|---|---|---|---|
| `connectors/intra/subprocess_bridge.py`, `SubprocessBridge` | the child process, a lock | `call`, `_close`; inside: start, handshake, send, read with a timeout, kill, restart once | a result is the answer to the request it is returned for; one child at most; every call ends; what the child can do makes it fail with `SubprocessError`, but for lines that cannot be decoded or taken apart |
| `analyzers/roslyn/` (C#) | none between requests | read a line, answer a line, leave on end of file | it answers in order |
| `connectors/intra/roslyn_subprocess.py`, `RoslynIntraRepoProvider` | a bridge, made on first use | `capabilities`, `analyze`, `resolve_value`, `close` | raises over nothing but what the server wrote; leaves no server behind; keeps secret keys |
| `core/traversal.py`, `TraversalEngine` | worklist, expanded set, edges, unresolved references | `traverse` | expands what resolved references reach, once each; forgets no reference; picks no candidate |
| `core/resolver.py`, `Resolver` | none | `acquire`: rungs 0 to 3 | never passes a secret on; stops at the first rung that decides |
| `core/index.py`, `ReverseIndex` | exact and normalised tables | `add`, `lookup` | no stranger is returned, no claim is hidden by its like |
| `core/deployed_ref.py`, `core/environment.py` | a cache; a table of aliases | `resolve`, `resolve_from_fixture`; `canonicalize` | configuration is read at the commit deployed during this build |
| `core/attribution.py` | none; it shares lists of roles with the bindings it is given | `attribute` | a provider that only deploys is the owner, whatever order the evidence came in |
| `core/cross_validate.py`, `CrossValidator` | a report | `reconcile`: probe, fetch, resolve names, compare, write | every observed pair is stored or reported; static edges stay |
| `connectors/telemetry/datadog_provider.py` | fixtures | `probe` and one method per capability | |
| `store/kuzu_store.py` | the database | `upsert_node`, `upsert_edge`, `query`, `neighbors` | repeating a write changes nothing |
| `cli/main.py` | none; a process per command | `graph build`, `telemetry reconcile`, `query`, `serve` | a command that is killed can be repeated |
| `query/engine.py`, `QueryEngine` | none | three searches, `env_diff`, `explain_edge` | exactly what is within the limit, at its distance |
| `llm/`, `connectors/llm/` | a cache of answers and traces, on disk | `LLMJudge.run`: budget, redaction, gate, cache, question, validation, grounding | nothing is lost, no flagged secret and no personal word is sent in a value, no edge without a match in the index, a second build says the same |
| `connectors/cicd/octopus.py`, `OctopusProvider` | none; the server it asks changes between requests | `discover_for_repo`, `read_variable_store`, `read_effective_value`, `resolve_deployed_ref` | a value is one for the environment asked about; a ref was deployed while it was asked for |
| `connectors/cicd/`, the other connectors | none | `discover_for_repo`, `read_variable_store` | what they find adds up, in any order |
| `connectors/vcs/`, `extractors/`, `plugins/`, `mcp/` | none | translate inputs; a registry; HTTP to `QueryEngine` | |

### How they interact

`graph build` lists repositories, fills the `ReverseIndex` from their home pages,
runs one `TraversalEngine`, in hybrid mode puts what that left unresolved to
`LLMJudge`, stores nodes and edges one call at a time and, when
telemetry is configured, calls `CrossValidator.reconcile` in the same process
with the same index.  `telemetry reconcile` does only the last step, in a process
of its own.  `TraversalEngine` calls extractors, `DeployedRefResolver`, `Resolver`
and the index, and takes what `RoslynIntraRepoProvider` found as rung 0; that
provider talks to the analysis server through `SubprocessBridge`.  CI/CD connectors find
bindings of a repository to pipelines and projects; `AttributionEngine` weighs them
with the files in the tree (`traverse` passes it none, tests do), and rung 3 of the
ladder asks the provider that deploys.  `QueryEngine` reads what was stored.  Kùzu locks its database, so two processes never share one.

### What is hard

- *Threads and a child process.*  Threads queue on the bridge's lock; `_close()`
  does not take it.  The child may crash, hang, answer late or write something
  that is no answer; the bridge tries once more.  (`SubprocessBridge`)
- *A worklist over a cyclic graph* with seven ways out of its loop body, filled
  with repositories that may already be there.  (`Traversal`)
- *Layered lookups*: exact or normalised key, environment or none or any, tag or
  host; rungs, stores and variables in an order that decides.  (`ReverseIndex`,
  `ServiceNames`, `AcquisitionLadder`)
- *Writes without a transaction*, commands that are killed and repeated, an
  existence check in place of a MERGE, and telemetry that reads back what it wrote.
  (`GraphSessions`)
- *Threads on one provider*, which makes its bridge on first use and forgets it in
  `close()`, without a lock.  (`RoslynProvider`)
- *A deployment server that goes on*: a ref takes three requests, evidence comes from
  several servers of which some do not answer, variables overlap, and caches and
  shared lists outlive the question they were filled for.  (`DeployPlane`)
- *Cut-offs*: hops, confidence and rows in any order.  (`QueryEngine`)
- *A model that may answer anything*, a cache that is filled before an answer is
  looked at and outlives the index it was given for, builds that are killed in
  between, secrets that overlap.  (`LLMJudge`)

`PROJECT.json` lists these at their lines under "hazards".

## 2. Modules

| module | models | |
|---|---|---|
| `RoslynServer` | the child process with its pipes, as the bridge sees it | extended by `SubprocessBridge` |
| `SubprocessBridge` | threads, lock, attempts and `_close()` | implements `RpcService` |
| `RpcService` | abstract: one call served at a time, tried twice at most, answered or failed in one of the ways `Failures` names | |
| `SubprocessBridgeProofs` | theorems | for `close()` at any time, then for `close()` between calls |
| `RoslynProvider` | threads on `RoslynIntraRepoProvider` | above what `RpcService` promises, and what `_close()` during a call leaves of it |
| `RoslynProviderProofs` | theorems | |
| `ReverseIndex` | identities, normalisation, lookup | operators only |
| `ServiceNames` | `_resolve_service_name` | operators only |
| `IndexLookups` | an index that grows and is asked | extends the two above |
| `IndexLookupsProofs` | theorems | |
| `AcquisitionLadder` | `Resolver.acquire` | operators only |
| `Traversal` | `traverse` | composes ladder and index |
| `Reachability` | abstract: reach what links lead to | |
| `TraversalReachability` | `Traversal` with its links as a history variable | implements `Reachability` |
| `TraversalProofs` | theorems | |
| `Attribution` | what connectors discover, `attribute` | operators only |
| `OctopusVariables` | scopes and their ranking, variable stores | operators only, on top of `AcquisitionLadder` |
| `DeployPlane` | discovery, deployed refs and values on a server that changes | composes the two above |
| `DeployPlaneProofs` | theorems | |
| `KuzuStore` | `upsert_node`, `upsert_edge`, reading an environment | operators only |
| `CrossValidator` | what `reconcile` computes | operators only |
| `GraphSessions` | the commands on one database | composes the two above and `ServiceNames` |
| `GraphSessionsProofs` | theorems | |
| `QueryEngine` | the five questions | on top of `KuzuStore` |
| `QueryEngineProofs` | theorems | |
| `Redaction` | `SecretRedactor`, `ResidencyGate` | operators only |
| `PromptContracts` | what the contracts make of a response | operators only |
| `LLMJudge` | the hybrid pass, in builds that follow one another | composes the two above |
| `LLMJudgeProofs` | theorems | |
| `MC...` | inputs for TLC | |

Definitions keep the names of the code where they can; `PROJECT.json` gives the
lines of each under "map".

**Bridge.**  `pc[c]` says before which access to `self._proc` thread `c` is:
`check` (line 208), `spawn` (98), `send` (141), `read` (157, the reader thread's
own evaluation) and `recv` (blocked in `readline`).  `phase` and `attempt` say
which exchange that is: the handshake or the request, before or after the
restart.  `Raise` is the `except` clauses of `_call_locked`.  `Close`,
`CloseStdin`, `CloseWait` and `CloseClear` are the accesses of `_close()`.
The server may at any time serve a request, crash or do nothing; `Faults` adds
error responses, an incompatible version, lines that are no JSON (`garbage`), bytes
that are not UTF-8 (`undecodable`), JSON in which the client does not find the objects
it looks for (`malformed`) and an unreadable line *before* a response (`noise`).

**Provider.**  `pc[t]` says before which access to `self._bridge` thread `t` is: the
test and the assignment of `_get_bridge` (lines 157 and 159) and its return value
(164), the three in `close()` (168 to 170).  `Enter` to `Answer`, `Garble`, `Fail` or `Escape` is
a call of the bridge, which `SubprocessBridge` models in detail: here it serves one
caller at a time and ends with a result, a `SubprocessError`, or, over a line or a result
that cannot be taken apart, with an exception that the provider lets out (`Garbled`).  `stirred[t]` says that
a `_close()` of the same bridge overlapped it, after which the call may end with
another exception and a child may be lost, as `bridge_concurrent_close` shows.

**Deploy plane.**  `world.setup` is what does not change about a repository: its files,
the deploy jobs in them, how Octopus and TeamCity could tell that a project is its.
GitHub workflows are judged file by file: those with deploy jobs and a `plain` one beside
them give bindings of both roles, in either order, so that lists of roles grow and are
shared.
`Release`, `Deploy` and `AddVariable` are the server going on between any two requests;
`walk` stands between the three requests of `resolve_deployed_ref`.  `Discover` is
`discover_for_repo` of one connector, in any order; `Attribute` may come at any time
and more than once, since the lists of roles it appends to belong to the bindings.
`Resolve` and `ResolveAnew` are the two ways into the cache of `DeployedRefResolver`,
`NewBuild` a new process.  A variable has a set of environments and of other
dimensions as its scope; `AcquireValue` is the ladder over the Octopus store, another
connector's store and the preview of the deploy owner, any of which may fail.

**Traversal.**  Connectors are the input, `world`: references by commit,
deployments, stores, declared tokens, rung 0 and rung 3 values, confidence of the
profile, index.  `pos` stands in the nested loops; each way out of the body is an
action: `SkipUndeclared`, `UseIntraRepo`, `GiveUp`, `NoIndexMatch`, `UseLadder`,
`UseLiteral`.  What was found is in `found`, and `AddEdge` is the loop over its
candidates.  A text is a record of what code looks at: scheme or not, host,
spelling, port, path.

**Sessions.**  `db` is the database; `job` the command that runs, with one step per
call of the store; `Crash` ends it anywhere.  `ReadGraph` is everything of
`reconcile` between the read and the first write, `WriteFails` a store call that
raises.

**Questions.**  `find_relevant_repos`, `impact_analysis` and `dependency_path` are
one breadth-first search with different directions, limits and ends.  `path`, the
way to each repository, is what the code keeps in the last two and a history
variable in the first, whose `hop_depth` is its length.  `env_diff` and `explain_edge`
(`Compare`, `Explain`) are one read of the graph and are checked for the refs they give.

**Judge.**  `build` is the running command with the items it found, its index and
whether its disk works; `next` is the item at hand.  Each way through
`_process_item` is an action that keeps the item with a reason, or `Accept`.  `Ask`
and `Respond` (or `Refuse`) are apart, since a build may be killed between them, and
`KillInPut` leaves a half-written file.  A value is the set of the words that occur in
it (`Redaction`), so that replacing a secret and matching a personal word can be told
from replacing the whole; a locator stands for all
fields of an entry that are sent as they are.  `request` is what is sent: the goal and
every entry.  A response is a record of what a contract looks at, and may have no choice
in it at all (`NoChoice`), which ends the build (`Raise`).
`last` and `request` record what the properties compare.

## 3. Runs

| run | checks | shows |
|---|---|---|
| `bridge_faults` | `OneInFlight` `NoOrphan` `OnlyBadLinesEscape` `CloseKills` `ImplementsFairService` | with `_close()` between calls only and a child with every fault but `noise`: every call returns, nobody waits for ever on a child that hangs, and only a line that cannot be decoded or taken apart ends a call otherwise than with a result or a `SubprocessError` |
| `bridge_concurrent_close` | `AnswersMatch` `HandshakeFirst` `LostByClose` | what is left of that when `_close()` comes at any time: each one loses a child at most, which keeps its stdin open until the parent exits |
| `bridge_noise` | `AnswersMatch`, violated | one superfluous line, twice, and a caller gets another call's answer |
| `roslyn` | `OnlyAnswersRaise` `OneServer` `SecretKeysStay` | two threads in any operation of the provider: only a `close()` during a call or what the server writes makes one raise, and only such a `close()` or first calls that race leave a server behind |
| `index_lookups` | `NoStranger` `OwnClaims` `NoOwnerPicked` | what lookups and service names promise for any two identities |
| `traversal` | `TargetsWait` `EvaluatedOnce` `NoAutoPick` `TokensAccounted` `SecretFloor` `FromDeployedRef` `ImplementsReachability` `Terminates` | 793 graphs (cycles, loops, diamonds, an ambiguous host; 18 of them in two environments) and 648 ways from one token to its value |
| `deploy_plane` | `OwnerIsRight` `RefIsDeployed` `RefsOfThisBuild` `ForThisEnvironment` `OthersDontMatter` | 556 repositories, in what tells who deploys them, on a server that releases, deploys and adds variables between any two requests |
| `graph_sessions` | `OneEdge` `BuildStored` `ObservedStored` `StaticStays` `ReconcileEnds` | any sequence of commands, killed and failing anywhere; `OneEdge` is per environment and source of an edge, and `StaticStays` about edges of builds: telemetry may change its own |
| `graph_environments` | `EnvironmentsIndependent`, violated | an edge of one environment hides that of another |
| `queries` | `ExactlyWithin` `ShortestPath` `WeakestLink` `RefsOfEnvironment` | ten questions of 3328 graphs, rows in any order |
| `judge` | `Accounted` `ValuesAreClean` `Grounded` `Repeatable` | up to four builds over one or two items, each build with its index, its disk and its order of evidence |
| `judge_traversal` | `AcceptedIsStored`, violated | an accepted proposal for what the traversal leaves is refused by the store |

Every property of a passing run has a mutant: an operator beside the definition it
replaces, changed as a plausible mistake would, under which TLC finds the property
violated.

**Bounds.**

- Bridge: two threads with `MaxCalls` 2, so that a call follows one that failed, with
  the other thread queued; `MaxCloses` 1.  `Procs` are slots for processes that live
  or are referred to, and are used again: two suffice without concurrent closing
  (the current child and the one just killed), three with it, where an orphan may
  live beside them; a missing slot would show as a thread that can only fail.
- Index: `MaxEntries` 2.  A lookup compares entries with the text and with each
  other's environment; every way one entry hides another takes two.
- Provider: two threads, three slots for bridges (the one that is current, and one that
  each thread still holds), which are used again; `MaxCloses` 2, so that a `close()`
  meets a call, another `close()`, and a bridge made after the first.  Without closes
  three threads give nothing new (2.1 million states).
- Traversal: three repositories, of which one has up to two references and the others
  up to one, for shapes; two environments, two stores, three commits and every rung
  for one token.  Shapes do not depend on how a token was resolved, so the two are not
  multiplied.  What an earlier store or rung decides is tried with one or two values
  of the later ones.
- Deploy plane: a world's `left` bounds releases, deployments, variables and builds, since
  refs, values and owners do not touch each other's state: two releases and three
  deployments over two builds, in which a ref can become old in either; three variables,
  so that one is added to two that compete; any evidence with no changes but the release
  that discovery traces.  `Sampled` is 1 where the code looks at 5 releases.
- Sessions: three repositories, two environments, three builds (two that find the
  same pair in different environments; one whose anchor is not listed) and four
  deliveries of telemetry (none, a probe that raises, one capability that raises,
  ambiguous and unknown names).  The number of commands is *not* bounded: the
  state space is finite.
- Questions: `MaxImpactHops` is 2 where the code has 5, so that five repositories
  reach beyond it.
- Judge: every item is the plain one with one thing changed that some guard looks at
  (type, reason, budget, environment, a secret, a nested secret, a personal word), alone
  or followed by one of three others, of which one has the same key; `MaxJudged` 4 is
  four builds of one item or two of a pair, and three builds are what a clean one, a
  killed one and the one that is compared take.  `MaxFiles` and `MaxBytes` are the
  budget, at its edge.  An item with two nested secrets and a personal word is not among
  them: see section 7.

Deadlock is not checked where the modelled program ends or a bound stops it (bridge,
provider, index, traversal, deploy plane, queries, judge); it is checked for `graph_sessions` and
`graph_environments`, where a command can always be started.

## 4. Fairness

- Bridge: weak fairness of `Acquire` and of `Exchange` per thread, and of `Closing`.
  The operating system schedules threads, a released lock goes to a waiting thread
  for which it stays free, and `join(timeout)`, `wait(timeout=5)` return.  `Acquire`
  is weakly fair only: with two threads and bounded calls the lock is in the end
  free for good.  The server is owed nothing: it may hang for ever, and nobody is
  forced to call or close.
- Traversal: weak fairness of `Next`: one thread, which is scheduled.
- Judge, provider, deploy plane: none; their properties are about what may not happen.
- Sessions: weak fairness of `Work`.  Nothing makes anybody start a command, and a
  crash is never fair.

## 5. Proofs

All theorems hold for every value of the constants allowed by the named
assumptions of the modules: any number of threads, processes, repositories,
environments, entries, items and words, and any input of the stated type.  `DeployPlane`
assumes in addition that its worlds, variables and values are of that type
(`WorldsAssumption`, `VariablesAssumption`, `ValuesAssumption`) and that environments are
finitely many (`EnvsAssumption`), so that a theorem about
it speaks of every world.  A theorem that needs a condition states it as an
`ASSUME ... PROVE`; there are six such conditions, explained below.

**`SubprocessBridgeProofs`.**  With `close()` at any time:

- `TypeCorrect` (`TypeOK`), and `MutualExclusion`: the threads between acquiring and
  releasing are exactly the one that `lock` names (`ControlInv`).
- `AnswersCorrect` (`AnswersMatch`) and `OneExchange` (`OneInFlight`), *if*
  `"noise" \notin Faults`; the run `bridge_noise` shows that the condition is needed.
  `AnswersMatch` is not inductive: that a line is the answer to the request of its reader
  holds because the pipes of the process it reads from hold at most that one exchange.
  `PipeInv` says so for every process that is still referred to: requests and answers in
  its pipes belong to the thread that is blocked on it, and between exchanges they are
  empty, which every path that abandons an exchange keeps by killing the child first.
- `ChildrenKept` (`LostByClose`), from `LostInv`: a `close()` that is under way has
  lost no child yet, and a child is started only where none runs (`SpawnFree`), since
  every path that forgets one kills it first.
- `HandshakesFirst` (`HandshakeFirst`), *if* no server writes a line that cannot be read
  as a response (`Illegible` are the kinds of these, and
  `Faults \cap Illegible = {}`): such a handshake response in the second attempt leaves a
  child that was never greeted (section 7, line 239), and the property is false.  The run
  `bridge_concurrent_close` has the same condition.  `GreetInv`: a child that a request can
  be written to was greeted, or
  a handshake with it is under way.

With `close()` between calls only (`~ConcurrentClose`), the last part of the module:
`NoChildLost` (`NoOrphan`), `FailuresNamed` (`OnlyBadLinesEscape`, with faults of every
kind: the step that ends a call with another exception is the one that reads a line which
cannot be decoded or taken apart, and in the second attempt that line answers the request
itself) and `ServiceRefinement`, that the bridge implements `RpcService!Spec`, a failure
being one of `Failures`.  `ServiceInv` has
`ClosingAlone` (no call while somebody closes, and the closer's child is the current
one), from which follows that a child in use was never told to stop and that an access to
`self._proc` finds a child.  The refinement is step by step: `Acquire` maps to serving
the call, what returns to its answer or failure, the restart to the second try, and
everything else to a stutter.  That the answer is to the call served is `AnswerInv`,
hence it needs `"noise" \notin Faults`.
`bridge_faults` checks the stronger `ImplementsFairService`, with every call
returning, which needs fairness.

**`RoslynProviderProofs`.**
`TypeCorrect`; `RaisingBounded` (`OnlyAnswersRaise`); `ServersBounded` (`OneServer`);
`SecretsKept` (`SecretKeysStay`), for any finite number of threads and bridges.
`CalmInv` is what holds until a `close()` meets anything: whoever closes is the only
thread that is not idle, so the bridge it evaluates twice is one and the same, and a
thread that passed the test finds a bridge.  `OneServer` speaks of servers that run and
is not inductive: a thread that passed the test will replace the bridge whatever it is
by then.  `StaleInv` counts these threads (`Makers`) together with the bridges
already forgotten (`Stale`): the first of a round replaces nothing, each of the others
one bridge, so a round adds one less than there are threads, and only a `close()` begins
another round.

**`TraversalProofs`.**
`Typed`; `Waiting` (`TargetsWait`): the target of an edge is expanded or queued, where
the candidates still in `found` are what a step has in hand;
`Refinement` (`ImplementsReachability`): `LinkInv` adds to the type that `links` are
the links of `world`, that the candidates in hand are linked from `repo` (`InHand`),
and that what repositories behind the current position lead to is reached (`Closed`).
A step of `Traversal` maps to `Reach` when it queues something new, to `Stop` when it
empties the worklist, and to a stutter otherwise.
`Once` (`EvaluatedOnce`), `AllCandidates` (`NoAutoPick`), `TokensHold`
(`TokensAccounted`), `SecretsMakeNoEdge` (`SecretFloor`) and `FoundWhereDeployed`
(`FromDeployedRef`) rest on one invariant, `EdgeInv`: an edge, or the candidate in hand, was found at a position the loops have
passed and as references, stores and ladder have it there (`EdgesSourced`,
`HandSourced`); candidates in hand have no edge yet (`Fresh`), and each of those of
an ambiguous reference has one or waits for it (`Branches`); and every declared token that
was passed is recorded or in hand (`PassedRecorded`).  Positions are ordered, and no
repository is taken up again once it is expanded.

**`IndexLookupsProofs`.**
`NoStrangers` (`NoStranger`), `ClaimsReturned` (`OwnClaims`) and `NobodyPicked`
(`NoOwnerPicked`).  `AnswerInv` ties the answer on record to the index as it is; the rest
is about the operators: two texts with one key name one place (`KeysNamePlaces`), what
is found was under the text or its key (`FoundUnder`).  `NobodyPicked` has the
condition that no service tag is written like the key of a URL (a host and a slash):
such a tag is found by the normalised key of a name but not by the name, and its claim can
be passed over.  Tags are names of services; TLC's inputs have none like that either.

**`DeployPlaneProofs`.**
`Typed`; `FoundWhileDeployed` (`RefIsDeployed`), from `WalkInv`: the release that the
walk follows was current when it was read or became so since, whatever is released and
deployed between its three requests; `Remembered` (`RefsOfThisBuild`), from
`CacheInv`: what the records say now is among what they said during this build, and so is
the cache.  `ValueForEnvironment` (`ForThisEnvironment`), from `VarInv`: a value tells its
variable, so a value that is read back is that of an entry that is no secret and is
among the best ranked, and a scoped variable outranks every unscoped one
(`ScopedFirst`).  `OthersStayOut` (`OthersDontMatter`) is an action property: an added
variable for other environments is not among the best where one suits, so what the
stores resolve is the same before and after.
`OwnersTold` (`OwnerIsRight`): `attribute` is a fold over bindings whose lists of roles
grow while they are read, and may have grown in an earlier call.  `BindingsOK` says of
the bindings that a list has the role it was made with, and none that no binding of its
provider says; it is kept by discovery (`MoreBindings`) and by attribution
(`GrownBindings`).  `DraftOK` is the invariant of the fold: one entry for each provider
met so far, a borrowed list belongs to an earlier binding of that provider, and the roles
of an entry lie between what files and the bindings so far say and what files and all
bindings say.  At the end the two meet (`LastDraft`), so the roles no longer depend on the
order, and the owners are read off them (`OwnersFit`).

**`GraphSessionsProofs`.**
`Typed`; `NoDuplicates` (`OneEdge`); `Permanent` (`StaticStays`); `BuildKept`
(`BuildStored`); `ObservedKept` (`ObservedStored`).  The last two rest on `SessionInv`:
of a build in progress, what is no longer in `todo` is stored and the endpoints of
the edge at hand exist (`BuildInv`); of a reconciliation, what was observed is
stored, unwritten or still to do, and what a write needs was just created
(`ReconcileInv`).

**`QueryEngineProofs`.**
`Typed`; `EveryoneWithin` (`ExactlyWithin`), `NoShorterWay` (`ShortestPath`),
`NoStrongerThanItsWeakest` (`WeakestLink`) and `RefsAreThere` (`RefsOfEnvironment`), for any
finite set of repositories, any graph and question, and whatever order rows come in.  The first three rest on
`SearchHolds`, the invariant `SearchInv` of a breadth-first search:
- what is queued is a shortest way to a repository that was visited, nearest first, and at
  most one hop farther than the entry at hand (`QueueOK`, `Placed`);
- what is as near as the entry at hand was visited, what is farther and was visited still
  waits, and whatever has had its turn has its neighbours visited, unless it is at the limit
  (`VisitedOK`);
- results are what left the queue (`find`) or what was found (`impact`), each once
  (`ResultsOK`), and every edge on the way to one is the last edge of one, except the last
  edge of what `find` has still in the queue (`WaysOK`).  Hence weighing the discovering
  edges alone is enough.

None of these is inductive: they speak of answers only.  `RefsAreThere` has an invariant of
its own, `RefInv`: each ref collected so far is that of an edge, at its repository, of an
environment asked for (`Backed`).
Distances are defined by recursion over the number of hops; that the recursion
has a solution is `WithinExists`, that it grows and stays where a hop adds nothing are
`WithinGrows` and `Saturated`, and `NotSoFar` concludes that no repository is farther than there are
repositories, which `ShortestPath` takes as its horizon.  `NodesAssumption` (finitely many
repositories, none with an empty name) is what a database and its ids grant.

**`LLMJudgeProofs`.**
`Typed`; `EveryItem` (`Accounted`), from `CountInv`: the items before `next` were
consumed, each once, and no other was; `IndexSaysSo` (`Grounded`), from `GroundInv`;
`ValuesSentClean` (`ValuesAreClean`).  All of them rest on `Steps`: however an item is
handled, the build moves within it, keeps it, or makes it an edge to an owner that the index
names.  The last one needs that replacing the known secrets one after the other leaves
none of them (`Cleared`), in any order (`Ordered`), and that what was replaced does not come
back (`StaysGone`).  It has the condition `NoPlaceholder`: no known secret contains the
placeholder.  If one did, replacing another could put it together after its own turn,
in the code as in the model (`llm/redactor.py:92`).  It is a theorem about the values that are
sent, the words for which the gate looks and the secrets that are flagged: locators, and
copies of a secret that only its key tells, are sent (section 7).

`SameAgain` (`Repeatable`) has the condition `Settled`: for every item, each order in which
its secrets may be replaced leaves the same decision to the residency gate.  The order is
that of a Python set, so where it matters two builds differ, in the code as in the model;
the inputs of the run `judge` grant it.
`Repeatable` relates a build to one that may lie any number of killed builds back, and
`RepeatInv` is what survives in between.  `Verdict` says, as a function of the item, the
index and the cache, what becomes of an item.  `RunOK`: unless a question was refused, what the
running build has is the list of verdicts up to `next` (`Follows`), and its items are those of
the input in all that a verdict, a cache key or the gate looks at (`Alike`), in whatever order
evidence was found (`Turned`).  `LastOK`: the cache still has every answer that the last clean
build had its result from.  It keeps them because a build writes only where it found nothing
that can be read (`Grows`), also when it is killed within the write.  `FreshOK`: after a clean build
nothing is asked or refused.  Two lists that follow the same verdicts are equal (`OneList`).

Some lemmas are an induction over numbers: the k-th of a set of numbers (`NthIsIn`), the
course of a redaction (`Replacing`), the drafts of a profile (`LastDraft`), two lists of the same entries (`OneList`) and all that is said of
distances.  The library's induction theorems have an operator as parameter, which the provers
cannot instantiate; `Least` takes their place: a set of numbers that is not empty has a
least member, by the well-foundedness of strict inclusion between finite sets.
A recursion is therefore written as a function, and the proof looks at the least number at
which it fails.

Only model-checked:

- liveness: `CloseKills`, `ImplementsFairService`, `Terminates`, `ReconcileEnds`.

The type invariants (`Typed`, `TypeCorrect`) are proved and not among the runs.

## 6. What is left out

- Bridge: the two evaluations of `self._proc` at 87-88 and at 208 are one step each.
- Provider: `matches`, a test on file names.
- Traversal: `result.profiles` and `result.deployed_refs` (parts of the input);
  the tree is listed at the default branch and read at the deployed commit, here
  references are given per commit; the cache of `DeployedRefResolver`; rung 4
  (`core/resolver.py:126`), which reads deploy logs that no caller passes.
- Deploy plane: how a URL is matched with a project, machine and tenant identities, task
  and deploy logs, variables of other names (each name is treated by itself),
  deployments that failed (the code counts them, so they are deployments here), the
  detectors of providers without a connector (circleci, azure-devops, jenkins), and the
  wording of signatures of deploy steps: `signs` is the set of providers that have one.
- Sessions: evidence lists, locators and their redaction, notices but for their
  reason, `Repo` nodes, Kùzu's own atomicity of a statement (assumed), two processes on
  one database (excluded by its lock), `:memory:` databases.
- Questions: the evidence and the trace file of `explain_edge`, the text of unknowns.
- Judge: the text of prompts and traces; structured edges that a response may carry
  (FR-016); evidence is at most two entries long.  The index is given (`Index`), as `ReverseIndex` has a
  run of its own.
- Not modelled: extractors and the Roslyn analyzers (regular expressions and syntax
  trees over file contents; what they yield is the input of `Traversal`), VCS connectors
  (they read fixtures), the plugin registry (a dictionary filled at import) and the
  MCP server (it validates a request and calls one method of `QueryEngine`).

## 7. Where the code and its documents disagree

Three disagreements have a run that shows them (`bridge_noise`, `graph_environments`,
`judge_traversal`).  The others were met while modelling; the modules follow the code.

*Bridge* (`connectors/intra/subprocess_bridge.py`)
- Line 239: an unreadable handshake response in the second attempt
  leaves the child current, and the next call sends its request without a handshake;
  `specs/003-roslyn-intrarepo/spec.md:104` has "Handshake (first exchange on every new
  subprocess)", and 188 says the bridge "kills and restarts the subprocess".
- Line 179 (run `bridge_noise`): after an unreadable line in the second attempt the response
  itself is still in the pipe and becomes that of the next call;
  `specs/003-roslyn-intrarepo/spec.md:124` says the bridge "correlates by `id`".
- Lines 248, 115 and 179: a response that is a list or null, or whose error
  is no object, raises `AttributeError` or `TypeError`, bytes that are not UTF-8 raise
  `UnicodeDecodeError`; line 189 says "Raises SubprocessError on unrecoverable failure.",
  `specs/003-roslyn-intrarepo/spec.md:188` "raises `SubprocessError(code=-32700)`" and 160
  "No unhandled exception propagates".  `OnlyBadLinesEscape` says when, and that nothing else does.
- Line 141: `_close()` between two steps of a call makes it raise `AssertionError`,
  `AttributeError` or `ValueError`; line 189 says "Raises SubprocessError on
  unrecoverable failure."
- Line 244: every `SubprocessError` has `restarted=False`; line 30 says "True if the
  bridge attempted a restart before failing."
- Line 208: a thread that was queued while a restart failed starts a child itself;
  `specs/003-roslyn-intrarepo/spec.md:195` says "all queued callers receive
  `SubprocessError(restarted=False)`".

*Roslyn provider* (`connectors/intra/roslyn_subprocess.py`)
- Line 157: two threads that make the first call together make a bridge each, and the
  server of one runs until the build ends; line 4 says "Thread-safe via
  SubprocessBridge's internal lock" and
  `specs/003-roslyn-intrarepo/contracts/intra_repo_provider.md:22` "Thread-safe; one
  SubprocessBridge instance per provider instance".  `OneServer` allows for it.
- Line 122: the handlers here, at 90 and at 147 catch `SubprocessError` and
  `OSError` only; what the bridge lets out, and a result that is no object (`.get` at 85, 185
  and 205), leaves the operation, although 76 and 113 say "Never raises".  `OnlyAnswersRaise` says that
  nothing else does.
- Line 90: a `close()` during a call lets `AssertionError`, `AttributeError` or `ValueError`
  out of an operation; lines 76 and 113 say "Never raises (Principle V —
  NON-NEGOTIABLE)".

*Index* (`core/index.py`)
- Line 67: an exact match of another environment hides a normalised one of the
  environment asked for, and one of two claims in different spellings hides the
  other; `specs/000-initial-plan/SPEC.md:96` says "Colliding aliases emit *both*
  candidates".
- Line 107: a logical name with a dot is stored in lower case and looked up as a URL.
- Line 97: ports are dropped; SPEC.md:96 asks for "exact host/URL" for high confidence.

*Traversal*
- `core/traversal.py:264`: the targets of references without tokens are not queued;
  SPEC.md:335 says "if not expanded(cand.repo): enqueue(cand.repo)".
- `core/traversal.py:252`: such a reference that the index does not know is in no list;
  `specs/001-m0-m4-verify/spec.md:297` says it is "recorded in the graph build's
  unknowns[] output set".
- `core/traversal.py:144` and `222`: edges of rung 0 and of literals are never marked
  ambiguous, and ambiguous ones keep their confidence; spec.md:303 says
  "ambiguous=true, confidence=low (regardless of identity class)".
- `core/traversal.py:109`: without a deployment record the edge says `HEAD` and is not
  stale; spec.md:293 says "degrade to deployed_ref=null with a stale flag on the edge".
- `core/resolver.py:161`: an unscoped variable listed first beats a scoped one;
  `specs/002-query-mcp-oss-cicd/spec.md:73` says "the environment-scoped value takes
  precedence over the project default".
- `core/traversal.py:340`: rung 1 returns the reference's own text, placeholder
  included; SPEC.md:288 says "literal values committed".
- `core/traversal.py:320`: only `{token}` is replaced, not the other syntaxes that
  `specs/000-initial-plan/implementation-plan.md:116` lists.
- `core/traversal.py:251`: a URL of `appsettings.staging.json` makes edges in every
  environment; spec.md:328 says "each environment produces an independent edge set".

*Deploy plane* (`connectors/cicd/`, `core/attribution.py`, `core/deployed_ref.py`)
- `octopus.py:371` and `core/resolver.py:153`: tied variables are marked `_ambiguous`, and
  the resolver takes the first; `specs/002-query-mcp-oss-cicd/spec.md:99` says "the system
  MUST NOT auto-select one".
- `octopus.py:287`: when no variable is for the environment and none is unscoped, those
  of other environments are returned, and the resolver, which reads the key `env` and
  not `environment`, uses them.  `ForThisEnvironment` asks for a fitting variable only
  when there is one.
- `octopus.py:571`: without inline build information the endpoint is asked by the name
  of an action, for the builds of any release, and the first is taken; line 522 says
  "Resolve the currently deployed VCS ref".  `RefIsDeployed` holds for releases that
  carry their build information.
- `octopus.py:532`: the newest deployment counts whether it succeeded or not.
- `deployed_ref.py:84`: a release without build information has its version for a commit,
  and a record that says nothing is passed over for an older one.
- `attribution.py:35`: `.octopus/` makes Octopus a builder (its intrinsic role), so that
  with a deploy binding it both builds and deploys, is not "dedicated", and a workflow
  with a deploy step comes before it; the docstring at 232 has "TC builds, Octopus deploys".
- `attribution.py:109`: the entry shares the list of roles with its binding, so a later
  attribution with more bindings changes an earlier profile.
- `attribution.py:248`: a repository that nobody deploys gets no flag;
  `specs/001-m0-m4-verify/spec.md:255` says "records an `unattributed-deploy` flag".

*Reconciliation and store*
- `core/cross_validate.py:354`: "static" edges include those an earlier reconciliation
  wrote, so the second one confirms telemetry by itself;
  `specs/005-m10-telemetry-datadog/spec.md:227` says "confirmed = static ∩ runtime".
- `core/cross_validate.py:408`: evidence of an observed edge is never merged; spec.md:373
  says it "MUST update its evidence".
- `core/cross_validate.py:363`: a graph that cannot be read is an empty one and the
  report does not say so.
- `core/cross_validate.py:141`: an unknown callee of an unknown caller is in no list;
  spec.md:298 says "not silently dropped".
- `core/cross_validate.py:299`: a tag without environment is hidden by another identity
  of the same name that has one.
- `core/cross_validate.py:371`: `DEPLOYED_AS`, from which an observed edge should get its
  deployed ref, is written nowhere.
- `store/kuzu_store.py:86` (run `graph_environments`): an edge is not stored when the pair is
  stored for another environment; `specs/001-m0-m4-verify/spec.md:330` says "each environment
  produces an independent edge set".
- `store/kuzu_store.py:93`: likewise a runtime-only edge; spec.md:252 says "MUST write every `runtime_only` edge".
- `cli/main.py:476`: the standalone command reconciles with an empty index, although 475
  says "load existing identity mappings".
- `connectors/telemetry/datadog_provider.py:149`: every event counts once, so a pair
  seen often stays "medium"; spec.md:259 says "more than one span/log line" make it high.

*Judge* (`llm/`; documents in `specs/004-m9-llm-hybrid-mode/spec.md`)
- `llm/judge.py:268` (run `judge_traversal`): nothing that the traversal leaves has a
  `from_id`, a name or evidence, so all of it is one question to the cache, and one
  accepted answer stops the build at the store; FR-008 (spec.md:174) says "an edge MUST
  be written".
- `llm/judge.py:148`: the secrets looked for are the values of entries with
  `is_secret`; an entry whose key says that it is secret loses its value, but copies of it in
  other values are sent.  FR-004 (spec.md:170) includes "occurrences of that value embedded
  within non-secret fields".
- `llm/redactor.py:135`: locators are neither redacted nor searched for
  personal words, and the goal is not redacted, but both are sent
  (`connectors/llm/openai_provider.py:114`); SC-002 (spec.md:233) says "Zero secret values or
  PII-marked fields appear in any captured LLM request payload".  `ValuesAreClean` is what is left
  of it, and of FR-004.
- `connectors/llm/openai_provider.py:97`: an answer without choices raises `IndexError`,
  `KeyError` or `TypeError` and not `LLMError`, which ends the build.
- `llm/grounding.py:54`: an edge leads to `deployable_id`, which the command line fills
  with the short name (`cli/main.py:280`), while every other edge uses the full one.
- `llm/grounding.py:50`: of several owners the first is taken; FR-009 says "MUST NOT
  auto-pick among candidates".
- `llm/contracts/ambiguous_match.py:38`: the candidates become lines of a prompt that
  is not sent; FR-019 says "Input MUST include [...] the list of candidate identities".
- `llm/cache.py:46`: the key has no contract version; `llm/contracts/base.py:4` says
  "The version string is part of the cache key".  It has no environment either, so one
  answer serves all of them; each is grounded in its own.
- `llm/judge.py:194`: an answer is cached before it is validated.  A malformed one is
  replayed for ever, and one that validation does not expect (no object, a number for
  a text) ends this build and every later one at the same item.
- `llm/judge.py:336`: every accepted or still ambiguous item gets a new trace in every
  build; FR-015 says "traces MUST NOT accumulate across builds".
- `llm/redactor.py:92`: known secrets are replaced in the order of a Python set.  Where
  one is part of another the order decides whether a personal word in the longer one is
  left for the gate to find, so two builds of one input may differ; SC-004 says
  "Two consecutive hybrid-mode builds against the same fixture produce identical edge
  sets".

*Questions* (`query/engine.py`)
- Line 121: every result of `find_relevant_repos` has confidence "high", while the
  answer as a whole may be "low"; `specs/002-query-mcp-oss-cicd/contracts/` calls it "the
  weakest across all results".
- Line 153: a repository without dependencies of its own is given the ref of an edge that
  leads to it, which is its caller's commit (`core/traversal.py:222`);
  `specs/002-query-mcp-oss-cicd/data-model.md:44` says "SHA for this repo in this env".
- Line 401: of a pair that changed, only the confidence in the first environment counts for that
  of the answer; `specs/002-query-mcp-oss-cicd/spec.md:108` says "weakest link across all
  results".
- Line 391: `env_diff` reports "changed" when a pair is stored for both environments,
  which `upsert_edge` never does.
- `mcp/server.py` passes no `cache_path` to `explain_edge`, so over HTTP `llm_trace` is
  always null.

## 8. Plan

Order of work, most important behaviour first.  Done: the bridge and its service (1),
index, ladder and traversal with reachability (2), store, reconciliation and sessions
(3), questions (4), the judge (5), the Octopus connector with the resolver (6), the
Roslyn provider above the bridge (7), attribution and deployed refs over several builds
(8), and the theorems of section 5.

Could be modelled next: telemetry that carries environments of its own
(`connectors/telemetry/datadog_provider.py:120`), and repositories of one name in a run
of `Traversal` (`core/traversal.py:93`), which `NameOf` provides for.

Every safety property of the passing runs is proved; what could be proved next are properties of
such extensions, and of a corrected store or redactor, for which the violated properties are there.
