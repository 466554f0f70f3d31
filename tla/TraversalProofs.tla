--------------------------- MODULE TraversalProofs ---------------------------
(***************************************************************************)
(* Proofs about the traversal: its type invariant, and that it reaches     *)
(* exactly what the resolved references lead to, for every input.          *)
(***************************************************************************)
EXTENDS TraversalReachability, FiniteSetTheorems, WellFoundedInduction, TLAPS

-----------------------------------------------------------------------------
(***************************************************************************)
(* Reading the input.                                                      *)
(***************************************************************************)
\* A set of numbers has a least element: the intervals up to its members are
\* finite, and strict inclusion is well founded on them.
LEMMA Least ==
  ASSUME NEW T, T \subseteq Nat, T # {}
  PROVE  \E x \in T : \A y \in T : x <= y
<1> DEFINE F == {1 .. i : i \in T}
<1>1. F \subseteq FiniteSubsetsOf(Nat)
  <2>1. \A i \in T : IsFiniteSet(1 .. i) /\ 1 .. i \in SUBSET Nat
    BY FS_Interval
  <2>2. QED
    BY <2>1 DEF FiniteSubsetsOf
<1>2. F # {}
  OBVIOUS
<1>3. \E X \in F : \A Y \in F : ~ (<<Y, X>> \in StrictSubsetOrdering(Nat))
  <2> HIDE DEF F
  <2> QED
    BY <1>1, <1>2, FS_StrictSubsetOrderingWellFounded, WFMin, Zenon
<1>4. PICK x \in T : \A y \in T : ~ (<<1 .. y, 1 .. x>> \in StrictSubsetOrdering(Nat))
  BY <1>3
<1>5. ASSUME NEW y \in T, y < x PROVE FALSE
  <2>1. 1 .. y \in SUBSET Nat /\ 1 .. x \in SUBSET Nat
    OBVIOUS
  <2>2. 1 .. y \subseteq 1 .. x
    BY <1>5
  <2>3. x \in 1 .. x /\ x \notin 1 .. y
    BY <1>5
  <2>4. QED
    BY <1>4, <2>1, <2>2, <2>3 DEF StrictSubsetOrdering
<1>6. QED
  BY <1>5

\* The parts of the input.
LEMMA Inputs ==
  ASSUME world \in World
  PROVE  /\ world.envs \in Seq(Envs)
         /\ world.anchor \in Repos
         /\ world.refs \in [Names -> [Commits -> Seq(ConsumerRef)]]
         /\ world.deployments \in [Names -> Seq([env : Envs, sha : Shas \cup {""}])]
         /\ world.profile \in [Repos -> 1 .. 5]
         /\ world.index \in SUBSET Entry
BY DEF World

\* The domain and the entries of a sequence.
LEMMA SeqDomain ==
  ASSUME NEW S, NEW s \in Seq(S)
  PROVE  /\ Len(s) \in Nat
         /\ DOMAIN s = 1 .. Len(s)
         /\ \A i \in DOMAIN s : s[i] \in S
OBVIOUS

\* The deployed ref of a repository is a commit that was deployed, or HEAD.
LEMMA DeployedRefType ==
  ASSUME world \in World, NEW r \in Repos, NEW env
  PROVE  DeployedRef(r, env) \in Commits
<1> DEFINE D == Deployments(r)
           T == {i \in DOMAIN D : HasDeployment(r, env, i)}
<1>1. D \in Seq([env : Envs, sha : Shas \cup {""}])
  BY NamesAssumption, Inputs DEF Deployments
<1>5. /\ DOMAIN D = 1 .. Len(D) /\ Len(D) \in Nat
      /\ \A i \in DOMAIN D : D[i] \in [env : Envs, sha : Shas \cup {""}]
  BY <1>1, SeqDomain
<1>2. CASE T = {}
  BY <1>2 DEF DeployedRef, Commits
<1>3. CASE T # {}
  <2>1. T \subseteq Nat /\ \A x \in T : \A j \in 1 .. x - 1 : j \in DOMAIN D
    <3>1. T \subseteq 1 .. Len(D)
      BY <1>5
    <3>2. ASSUME NEW n \in Nat, T \subseteq 1 .. n
          PROVE  T \subseteq Nat /\ \A x \in T : \A j \in 1 .. x - 1 : j \in 1 .. n
      <4> HIDE DEF T
      <4> QED BY <3>2
    <3>3. QED
      BY <1>5, <3>1, <3>2
  <2>2. PICK x \in T : \A y \in T : x <= y
    BY <1>3, <2>1, Least
  <2>3. \A j \in 1 .. x - 1 : ~HasDeployment(r, env, j)
    BY <2>1, <2>2
  <2> DEFINE i == CHOOSE i \in DOMAIN D : HasDeployment(r, env, i)
                                         /\ \A j \in 1 .. i - 1 : ~HasDeployment(r, env, j)
  <2>4. i \in DOMAIN D /\ HasDeployment(r, env, i)
    BY <2>2, <2>3
  <2>5. DeployedRef(r, env) = D[i].sha
    BY <1>3 DEF DeployedRef
  <2>6. D[i].sha \in Shas
    BY <1>5, <2>4 DEF HasDeployment
  <2>7. QED
    BY <2>5, <2>6 DEF Commits
<1>4. QED
  BY <1>2, <1>3

\* What a repository refers to in an environment is a list of references.
LEMMA RefsType ==
  ASSUME world \in World, NEW r \in Repos, NEW env
  PROVE  Refs(r, env) \in Seq(ConsumerRef)
BY DeployedRefType, NamesAssumption, Inputs DEF Refs

\* A lookup returns entries of the index.
LEMMA LookupSubset ==
  ASSUME NEW index, NEW t, NEW env
  PROVE  Candidates(index, t, env) \subseteq index /\ Lookup(index, t, env) \subseteq index
<1>1. \A s : Lookup(index, s, env) \subseteq index
  BY DEF Lookup, ForEnv, Exact, Normalized
<1>2. QED
  BY <1>1 DEF Candidates

\* So does the union of several.
LEMMA TargetsSubset ==
  ASSUME NEW texts, NEW at
  PROVE  Targets(texts, at) \subseteq world.index
BY LookupSubset DEF Targets

\* What the ladder returns is resolved by one of the three rungs in use, or a
\* secret, or exhausted.
LEMMA AcquireRung ==
  ASSUME NEW token, NEW env, NEW static, NEW stores, NEW preview
  PROVE  LET a == Acquire(token, env, static, stores, preview)
         IN  /\ a.resolved => a.rung \in {"static", "store_api", "preview_api"}
             /\ ~a.resolved => a.secret \/ a.rung = "exhausted"
<1> DEFINE a == Acquire(token, env, static, stores, preview)
<1>1. CASE static # NoText
  BY <1>1 DEF Acquire, Acquired
<1>2. CASE static = NoText /\ Decisive(stores, token, env) # {}
  <2>1. a = FromStores(stores, token, env)
    BY <1>2 DEF Acquire
  <2>2. QED
    BY <2>1 DEF FromStores, Acquired, Missing
<1>3. CASE static = NoText /\ Decisive(stores, token, env) = {} /\ preview # NoText
  <2>1. a = Acquired(preview, "preview_api")
    BY <1>3 DEF Acquire
  <2>2. QED
    BY <2>1 DEF Acquired
<1>4. CASE static = NoText /\ Decisive(stores, token, env) = {} /\ preview = NoText
  <2>1. a = Missing("exhausted", FALSE)
    BY <1>4 DEF Acquire
  <2>2. QED
    BY <2>1 DEF Missing
<1>5. QED
  BY <1>1, <1>2, <1>3, <1>4

-----------------------------------------------------------------------------
(***************************************************************************)
(* Type correctness.                                                       *)
(***************************************************************************)
Reasons == {"secret", "no-index-match", "exhausted"}

\* What is listed as unresolved.
UnresolvedType == [repo : Repos, env : Envs, at : Position, reason : Reasons]

\* The environment at hand is one.
LEMMA EnvAtType ==
  ASSUME TypeOK, AtEnv
  PROVE  EnvAt(pos) \in Envs
<1>1. world.envs \in Seq(Envs) /\ pos.env \in Nat \ {0} /\ pos.env <= Len(world.envs)
  BY Inputs DEF TypeOK, AtEnv, Position
<1>2. pos.env \in DOMAIN world.envs
  BY <1>1, SeqDomain
<1>3. QED
  BY <1>1, <1>2, SeqDomain, CanonAssumption DEF EnvAt

\* What is found at a position is of the right type.
LEMMA FoundHasType ==
  ASSUME TypeOK, AtEnv,
         NEW cands \in SUBSET world.index,
         NEW provenance \in {"declared", "injected"}, NEW rung \in Rung, NEW cap \in 1 .. 5,
         NEW ambiguous \in BOOLEAN, NEW follow \in BOOLEAN
  PROVE  Found(cands, provenance, rung, cap, ambiguous, follow) \in FoundType \cup {Nothing}
<1>1. cands \in SUBSET Entry
  BY Inputs DEF TypeOK
<1>2. EnvAt(pos) \in Envs /\ pos \in Position
  BY EnvAtType DEF TypeOK
<1>3. {c.repo : c \in cands} \in SUBSET Repos
  BY <1>1 DEF Entry
<1>4. QED
  BY <1>1, <1>2, <1>3 DEF Found, FoundType

\* The positions that the loops move to are positions.
LEMMA NextPosition ==
  ASSUME NEW p \in Position
  PROVE  /\ Start \in Position
         /\ [p EXCEPT !.tok = @ + 1] \in Position
         /\ [p EXCEPT !.ref = @ + 1, !.tok = 1] \in Position
         /\ [env |-> p.env + 1, ref |-> 1, tok |-> 1] \in Position
<1>1. Start \in Position
  BY DEF Position, Start
<1>2. [p EXCEPT !.tok = @ + 1] \in Position
  BY DEF Position
<1>3. [p EXCEPT !.ref = @ + 1, !.tok = 1] \in Position
  <2>1. p.ref + 1 \in Nat \ {0} /\ 1 \in Nat \ {0}
    BY DEF Position
  <2>2. \A m, n \in Nat \ {0} : [p EXCEPT !.ref = m, !.tok = n] \in Position
    BY DEF Position
  <2>3. QED
    BY <2>1, <2>2
<1>4. [env |-> p.env + 1, ref |-> 1, tok |-> 1] \in Position
  BY DEF Position
<1>5. QED
  BY <1>1, <1>2, <1>3, <1>4

\* What is added to the unresolved is of their type.
LEMMA UnresolvedHasType ==
  ASSUME TypeOK, AtEnv, NEW reason \in Reasons, Unresolved(reason)
  PROVE  unresolved' \subseteq UnresolvedType
<1>1. EnvAt(pos) \in Envs /\ pos \in Position /\ repo \in Repos
  BY EnvAtType DEF TypeOK, AtEnv
<1>2. unresolved \subseteq UnresolvedType
  BY DEF TypeOK, UnresolvedType, Reasons
<1>3. QED
  BY <1>1, <1>2 DEF Unresolved, UnresolvedType

\* What is added to the edges is an edge.
LEMMA EdgeHasType ==
  ASSUME TypeOK, NEW cand \in found.cands
  PROVE  Edge(cand) \in EdgeType /\ cand.repo \in Repos
<1>1. found \in FoundType /\ repo \in Repos
  BY DEF TypeOK, Nothing
<1>2. cand \in Entry
  BY <1>1 DEF FoundType
<1>3. EdgeConfidence(cand) \in 1 .. 5
  <2>1. ClassConfidence(cand.class) \in 1 .. 5
    BY DEF ClassConfidence
  <2>2. QED
    BY <1>1, <2>1 DEF EdgeConfidence, FoundType
<1>4. DeployedRef(repo, found.env) \in Commits
  BY <1>1, DeployedRefType DEF TypeOK
<1>5. QED
  BY <1>1, <1>2, <1>3, <1>4 DEF Edge, EdgeType, FoundType, Entry

\* The type invariant of the traversal, for every input: no exit of its loop body
\* leaves a variable outside its range.
THEOREM Typed == Spec => []TypeOK
<1>1. Init => TypeOK
  <2> SUFFICES ASSUME Init PROVE TypeOK
    OBVIOUS
  <2>1. world \in World
    BY WorldsAssumption DEF Init
  <2>2. queue \in Seq(Repos)
    <3>1. world.anchor \in Repos
      BY <2>1, Inputs
    <3>2. QED
      BY <3>1 DEF Init
  <2>3. QED
    BY <2>1, <2>2 DEF Init, TypeOK, Start, Position
<1>2. TypeOK /\ [Next]_vars => TypeOK'
  <2> SUFFICES ASSUME TypeOK, [Next]_vars PROVE TypeOK'
    OBVIOUS
  <2>0. /\ Start \in Position
        /\ [pos EXCEPT !.tok = @ + 1] \in Position
        /\ [pos EXCEPT !.ref = @ + 1, !.tok = 1] \in Position
        /\ [env |-> pos.env + 1, ref |-> 1, tok |-> 1] \in Position
    BY NextPosition DEF TypeOK
  <2> USE <2>0
  <2>1. CASE Expand
    <3>1. Head(queue) \in Repos /\ Tail(queue) \in Seq(Repos)
      BY <2>1 DEF Expand, TypeOK
    <3>2. QED
      BY <2>1, <3>1 DEF Expand, TypeOK
  <2>2. CASE Revisit
    <3>1. Tail(queue) \in Seq(Repos)
      BY <2>2 DEF Revisit, TypeOK
    <3>2. QED
      BY <2>2, <3>1 DEF Revisit, TypeOK
  <2>3. CASE SkipUndeclared
    BY <2>3 DEF SkipUndeclared, NextToken, TypeOK
  <2>4. CASE UseIntraRepo
    <3>1. AtEnv /\ IntraTargets(repo, pos) \subseteq world.index
      BY <2>4, TargetsSubset DEF UseIntraRepo, AtToken, AtRef, IntraTargets
    <3>2. found' \in FoundType \cup {Nothing}
      <4>1. \A a, f \in BOOLEAN :
              Found(IntraTargets(repo, pos), "declared", "intra-repo", 4, a, f) \in FoundType \cup {Nothing}
        BY <3>1, FoundHasType DEF Rung
      <4>2. QED
        BY <2>4, <4>1 DEF UseIntraRepo
    <3>3. QED
      BY <2>4, <3>1, <3>2 DEF UseIntraRepo, NextToken, TypeOK, AtEnv
  <2>5. CASE GiveUp
    <3>1. AtEnv
      BY <2>5 DEF GiveUp, OnLadder, AtToken, AtRef
    <3>2. Acquisition(repo, pos).secret \/ Acquisition(repo, pos).rung = "exhausted"
      BY <2>5, AcquireRung DEF GiveUp, Acquisition
    <3>3. unresolved' \subseteq UnresolvedType
      BY <2>5, <3>1, <3>2, UnresolvedHasType DEF GiveUp, Reasons
    <3>4. QED
      BY <2>5, <3>3 DEF GiveUp, NextToken, TypeOK, UnresolvedType, Reasons
  <2>6. CASE NoIndexMatch
    <3>1. AtEnv
      BY <2>6 DEF NoIndexMatch, OnLadder, AtToken, AtRef
    <3>2. unresolved' \subseteq UnresolvedType
      BY <2>6, <3>1, UnresolvedHasType DEF NoIndexMatch, Reasons
    <3>3. QED
      BY <2>6, <3>2 DEF NoIndexMatch, NextToken, TypeOK, UnresolvedType, Reasons
  <2>7. CASE UseLadder
    <3>1. AtEnv /\ LadderTargets(repo, pos) \subseteq world.index
      BY <2>7, TargetsSubset DEF UseLadder, OnLadder, AtToken, AtRef, LadderTargets
    <3>2. Acquisition(repo, pos).rung \in {"static", "store_api", "preview_api"}
      BY <2>7, AcquireRung DEF UseLadder, Acquisition
    <3>3. world.profile[repo] \in 1 .. 5
      BY <3>1, Inputs DEF TypeOK, AtEnv
    <3>4. found' \in FoundType \cup {Nothing}
      <4> DEFINE provenance == IF Acquisition(repo, pos).rung = "static" THEN "declared" ELSE "injected"
      <4>1. ASSUME NEW a \in BOOLEAN
            PROVE  Found(LadderTargets(repo, pos), provenance, Acquisition(repo, pos).rung,
                         world.profile[repo], a, TRUE) \in FoundType \cup {Nothing}
        <5>1. provenance \in {"declared", "injected"} /\ Acquisition(repo, pos).rung \in Rung
          BY <3>2 DEF Rung
        <5> HIDE DEF provenance
        <5>2. QED
          BY <3>1, <3>3, <5>1, FoundHasType
      <4>2. (Cardinality(LadderTargets(repo, pos)) > 1) \in BOOLEAN
        OBVIOUS
      <4>3. QED
        BY <2>7, <4>1, <4>2 DEF UseLadder
    <3>5. QED
      BY <2>7, <3>1, <3>4 DEF UseLadder, NextToken, TypeOK, AtEnv
  <2>8. CASE UseLiteral
    <3>1. AtEnv /\ LiteralTargets(repo, pos) \subseteq world.index
      BY <2>8, LookupSubset DEF UseLiteral, AtRef, LiteralTargets
    <3>2. found' \in FoundType \cup {Nothing}
      <4>1. \A a, f \in BOOLEAN :
              Found(LiteralTargets(repo, pos), "declared", "literal", 5, a, f) \in FoundType \cup {Nothing}
        BY <3>1, FoundHasType DEF Rung
      <4>2. QED
        BY <2>8, <4>1 DEF UseLiteral
    <3>3. QED
      BY <2>8, <3>1, <3>2 DEF UseLiteral, NextRef, TypeOK, AtEnv
  <2>9. CASE TokensDone
    BY <2>9 DEF TokensDone, NextRef, TypeOK
  <2>10. CASE RefsDone
    BY <2>10 DEF RefsDone, TypeOK
  <2>11. CASE EnvsDone
    BY <2>11 DEF EnvsDone, TypeOK
  <2>12. ASSUME NEW cand \in found.cands, AddEdge(cand) PROVE TypeOK'
    <3>1. found \in FoundType /\ repo \in Repos
      BY DEF TypeOK, Nothing
    <3>2. edges' \in Seq(EdgeType)
      BY <2>12, EdgeHasType DEF AddEdge, TypeOK
    <3>3. queue' \in Seq(Repos)
      BY <2>12, EdgeHasType DEF AddEdge, TypeOK
    <3>4. found' = Nothing \/ found' \in FoundType
      <4>1. \/ found' = Nothing
            \/ found' = [found EXCEPT !.cands = found.cands \ {cand}] /\ found.cands # {cand}
        BY <2>12 DEF AddEdge
      <4>2. found.cands # {cand} => found.cands \ {cand} \in (SUBSET Entry) \ {{}}
        BY <3>1 DEF FoundType
      <4>3. \A rest \in (SUBSET Entry) \ {{}} : [found EXCEPT !.cands = rest] \in FoundType
        BY <3>1 DEF FoundType
      <4> QED BY <4>1, <4>2, <4>3
    <3>5. QED
      <4>1. UNCHANGED <<world, expanded, repo, pos, unresolved>> /\ repo # NoRepo
        BY <2>12, <3>1, NoRepoAssumption DEF AddEdge
      <4>2. QED
        BY <4>1, <3>2, <3>3, <3>4 DEF TypeOK
  <2>13. CASE UNCHANGED vars
    BY <2>13 DEF vars, TypeOK
  <2>14. QED
    BY <2>1, <2>2, <2>3, <2>4, <2>5, <2>6, <2>7, <2>8, <2>9, <2>10, <2>11, <2>12, <2>13
    DEF Next
<1>3. QED
  BY <1>1, <1>2, PTL DEF Spec

-----------------------------------------------------------------------------
(***************************************************************************)
(* The refinement.                                                         *)
(***************************************************************************)
LEMMA ElementsAppend ==
  ASSUME NEW S, NEW s \in Seq(S), NEW e \in S
  PROVE  Elements(Append(s, e)) = Elements(s) \cup {e}
<1>1. /\ DOMAIN Append(s, e) = 1 .. Len(s) + 1 /\ DOMAIN s = 1 .. Len(s) /\ Len(s) \in Nat
      /\ \A i \in 1 .. Len(s) : Append(s, e)[i] = s[i]
      /\ Append(s, e)[Len(s) + 1] = e
  OBVIOUS
<1>2. QED
  BY <1>1 DEF Elements

\* What a queue without its head holds.
LEMMA ElementsTail ==
  ASSUME NEW S, NEW s \in Seq(S), s # <<>>
  PROVE  Elements(s) = {Head(s)} \cup Elements(Tail(s))
<1>1. /\ DOMAIN s = 1 .. Len(s) /\ Len(s) \in Nat \ {0} /\ Head(s) = s[1]
      /\ DOMAIN Tail(s) = 1 .. Len(s) - 1
      /\ \A i \in 1 .. Len(s) - 1 : Tail(s)[i] = s[i + 1]
  OBVIOUS
<1>2. ASSUME NEW i \in 1 .. Len(s), i # 1 PROVE s[i] \in Elements(Tail(s))
  <2>1. i - 1 \in 1 .. Len(s) - 1 /\ Tail(s)[i - 1] = s[i]
    BY <1>1, <1>2
  <2>2. QED
    BY <1>1, <2>1 DEF Elements
<1>3. ASSUME NEW i \in 1 .. Len(s) - 1 PROVE Tail(s)[i] \in Elements(s)
  BY <1>1 DEF Elements
<1>4. QED
  BY <1>1, <1>2, <1>3 DEF Elements

\* The target of a resolved reference is expanded or waits to be, at every
\* step: nothing that was queued is lost, in any graph.
THEOREM Waiting == Spec => []TargetsWait
<1>1. Init => TargetsWait
  BY DEF Init, TargetsWait, Elements
<1>2. TypeOK /\ TargetsWait /\ [Next]_vars => TargetsWait'
  <2> SUFFICES ASSUME TypeOK, TargetsWait, [Next]_vars PROVE TargetsWait'
    OBVIOUS
  <2> DEFINE Here == expanded \cup Elements(queue)
  <2>1. ASSUME Elements(edges') = Elements(edges), Here \subseteq Here' PROVE TargetsWait'
    <3>1. Elements(edges)' = Elements(edges)
      BY <2>1 DEF Elements
    <3>2. QED
      BY <2>1, <3>1 DEF TargetsWait
  <2>2. CASE Expand \/ Revisit
    <3>1. /\ queue \in Seq(Repos) /\ queue # <<>> /\ queue' = Tail(queue) /\ edges' = edges
          /\ expanded' = expanded \cup {Head(queue)}
      BY <2>2 DEF TypeOK, Expand, Revisit
    <3>2. Elements(queue) = {Head(queue)} \cup Elements(queue')
      BY <3>1, ElementsTail
    <3>3. Here \subseteq Here'
      BY <3>1, <3>2 DEF Elements
    <3>4. QED
      BY <2>1, <3>1, <3>3
  <2>3. ASSUME NEW cand \in found.cands, AddEdge(cand) PROVE TargetsWait'
    <3>1. /\ edges \in Seq(EdgeType) /\ queue \in Seq(Repos) /\ expanded' = expanded
          /\ cand.repo \in Repos /\ Edge(cand) \in EdgeType
      BY <2>3, EdgeHasType DEF TypeOK, AddEdge
    <3>2. Elements(edges') = Elements(edges) \cup {Edge(cand)}
      BY <2>3, <3>1, ElementsAppend DEF AddEdge
    <3>3. Elements(queue') = Elements(queue) \/ Elements(queue') = Elements(queue) \cup {cand.repo}
      BY <2>3, <3>1, ElementsAppend DEF AddEdge
    <3>4. found.follow /\ cand.repo \in WellNamed => cand.repo \in expanded \cup Elements(queue')
      BY <2>3, <3>1, ElementsAppend DEF AddEdge
    <3>5. Edge(cand).follow = found.follow /\ Edge(cand).to = cand.repo
      BY DEF Edge
    <3>6. Elements(edges)' = Elements(edges') /\ Elements(queue)' = Elements(queue')
      BY DEF Elements
    <3>7. QED
      BY <3>1, <3>2, <3>3, <3>4, <3>5, <3>6 DEF TargetsWait
  <2>4. CASE UNCHANGED <<queue, expanded, edges>>
    BY <2>1, <2>4 DEF Elements
  <2>5. QED
    BY <2>2, <2>3, <2>4 DEF Next, vars, SkipUndeclared, UseIntraRepo, GiveUp, NoIndexMatch,
       UseLadder, UseLiteral, TokensDone, RefsDone, EnvsDone
<1>3. QED
  BY <1>1, <1>2, Typed, PTL DEF Spec

\* What the references lead to depends on the input alone.
LEMMA InputOnly ==
  ASSUME world' = world, NEW r, NEW at
  PROVE  /\ FollowedTargets(r, at)' = FollowedTargets(r, at)
         /\ Positions(r)' = Positions(r)
         /\ EnvAt(at)' = EnvAt(at)
         /\ IsLiteral(r, at)' = IsLiteral(r, at) /\ IsDeclared(r, at)' = IsDeclared(r, at)
         /\ Acquisition(r, at)' = Acquisition(r, at)
         /\ LiteralTargets(r, at)' = LiteralTargets(r, at)
         /\ \A env : DeployedRef(r, env)' = DeployedRef(r, env)
<1>0. \A env : DeployedRef(r, env)' = DeployedRef(r, env)
  BY DEF DeployedRef, HasDeployment, Deployments
<1>1. \A env : Refs(r, env)' = Refs(r, env)
  BY <1>0 DEF Refs
<1>2. EnvAt(at)' = EnvAt(at)
  BY DEF EnvAt
<1>3. RefAt(r, at)' = RefAt(r, at)
  BY <1>1, <1>2 DEF RefAt
<1>4. TokenAt(r, at)' = TokenAt(r, at) /\ IsLiteral(r, at)' = IsLiteral(r, at)
  BY <1>3 DEF TokenAt, IsLiteral
<1>5. IsDeclared(r, at)' = IsDeclared(r, at)
  BY <1>4 DEF IsDeclared
<1>6. IntraTargets(r, at)' = IntraTargets(r, at)
  BY <1>2, <1>3, <1>4 DEF IntraTargets, IntraTexts, Targets
<1>7. Acquisition(r, at)' = Acquisition(r, at)
  BY <1>1, <1>2, <1>4 DEF Acquisition
<1>8. LadderTargets(r, at)' = LadderTargets(r, at)
  BY <1>2, <1>3, <1>4, <1>7 DEF LadderTargets, LadderTexts, Targets
<1>9. FollowedTargets(r, at)' = FollowedTargets(r, at)
  BY <1>4, <1>5, <1>6, <1>8 DEF FollowedTargets
<1>10. Positions(r)' = Positions(r)
  BY <1>1 DEF Positions
<1>11. LiteralTargets(r, at)' = LiteralTargets(r, at)
  BY <1>2, <1>3 DEF LiteralTargets
<1>12. QED
  BY <1>0, <1>2, <1>4, <1>5, <1>7, <1>9, <1>10, <1>11

\* The order in which the loops pass their positions.
Before(at, p) ==
  \/ at.env < p.env
  \/ at.env = p.env /\ at.ref < p.ref
  \/ at.env = p.env /\ at.ref = p.ref /\ at.tok < p.tok

\* What is expanded or waits to be.
Reached == expanded \cup Elements(queue)

\* A target that is still to be turned into an edge.
Pending(r, at, c) ==
  found # Nothing /\ found.follow /\ r = repo /\ at = found.at /\ c \in found.cands

\* The positions that the loops have passed lead only to what is reached, or
\* to a candidate in hand.
Closed ==
  \A r \in expanded : \A at \in Positions(r) : (r = repo => Before(at, pos)) =>
    \A c \in FollowedTargets(r, at) :
      c.repo \in WellNamed => c.repo \in Reached \/ Pending(r, at, c)

\* The candidates in hand are those of a position of the current repository.
InHand ==
  /\ repo # NoRepo => repo \in expanded
  /\ found # Nothing /\ found.follow =>
       found.at \in Positions(repo) /\ found.cands \subseteq FollowedTargets(repo, found.at)

\* What makes the refinement inductive.
LinkInv == TypeOK /\ links = Links /\ InHand /\ Closed

\* The positions of a repository, bound by bound.
LEMMA InPositions ==
  ASSUME world \in World, NEW r \in Repos, NEW at
  PROVE  at \in Positions(r) <=>
           /\ at \in Position
           /\ at.env \in DOMAIN world.envs
           /\ at.ref \in DOMAIN Refs(r, EnvAt(at))
           /\ at.tok \in 1 .. (IF IsLiteral(r, at) THEN 1 ELSE Len(RefAt(r, at).tokens))
<1>1. \A i \in DOMAIN world.envs : i \in Nat \ {0}
  <2>1. world.envs \in Seq(Envs)
    BY Inputs
  <2>2. Len(world.envs) \in Nat /\ DOMAIN world.envs = 1 .. Len(world.envs)
    BY <2>1, SeqDomain
  <2>3. QED
    BY <2>2
<1>2. ASSUME NEW env, NEW j \in DOMAIN Refs(r, env)
      PROVE  j \in Nat \ {0} /\ Refs(r, env)[j].tokens \in Seq(Tokens)
  <2>1. Refs(r, env) \in Seq(ConsumerRef)
    BY RefsType
  <2>2. /\ Len(Refs(r, env)) \in Nat /\ DOMAIN Refs(r, env) = 1 .. Len(Refs(r, env))
        /\ Refs(r, env)[j] \in ConsumerRef
    BY <2>1, SeqDomain
  <2>3. j \in 1 .. Len(Refs(r, env))
    BY <2>2
  <2>4. j \in Nat \ {0}
    BY <2>2, <2>3
  <2>5. QED
    BY <2>2, <2>4 DEF ConsumerRef
<1>3. ASSUME at \in Positions(r)
      PROVE  /\ at \in Position
             /\ at.env \in DOMAIN world.envs
             /\ at.ref \in DOMAIN Refs(r, EnvAt(at))
             /\ at.tok \in 1 .. (IF IsLiteral(r, at) THEN 1 ELSE Len(RefAt(r, at).tokens))
  <2>1. PICK i \in DOMAIN world.envs :
          \E j \in DOMAIN Refs(r, Canon[world.envs[i]]) :
            at \in PositionsOf(r, Refs(r, Canon[world.envs[i]])[j], i, j)
    BY <1>3 DEF Positions
  <2> DEFINE refs == Refs(r, Canon[world.envs[i]])
  <2>2. PICK j \in DOMAIN refs : at \in PositionsOf(r, refs[j], i, j)
    BY <2>1
  <2>3. PICK k \in 1 .. (IF refs[j].tokens = <<>> THEN 1 ELSE Len(refs[j].tokens)) :
          at = [env |-> i, ref |-> j, tok |-> k]
    BY <2>2 DEF PositionsOf
  <2>4. EnvAt(at) = Canon[world.envs[i]]
    BY <2>3 DEF EnvAt
  <2>5. RefAt(r, at) = refs[j]
    BY <2>3, <2>4 DEF RefAt
  <2>6. refs[j].tokens \in Seq(Tokens) /\ j \in Nat \ {0} /\ i \in Nat \ {0}
    BY <1>1, <1>2
  <2>7. at \in Position
    BY <2>3, <2>6 DEF Position
  <2> HIDE DEF refs
  <2>8. at.ref \in DOMAIN Refs(r, EnvAt(at)) /\ at.env = i
    BY <2>3, <2>4 DEF refs
  <2>9. at.tok \in 1 .. (IF IsLiteral(r, at) THEN 1 ELSE Len(RefAt(r, at).tokens))
    BY <2>3, <2>5 DEF IsLiteral
  <2>10. QED
    BY <2>7, <2>8, <2>9
<1>4. ASSUME at \in Position, at.env \in DOMAIN world.envs, at.ref \in DOMAIN Refs(r, EnvAt(at)),
             at.tok \in 1 .. (IF IsLiteral(r, at) THEN 1 ELSE Len(RefAt(r, at).tokens))
      PROVE  at \in Positions(r)
  <2>1. at = [env |-> at.env, ref |-> at.ref, tok |-> at.tok]
    BY <1>4 DEF Position
  <2>2. at \in PositionsOf(r, RefAt(r, at), at.env, at.ref)
    BY <1>4, <2>1 DEF PositionsOf, IsLiteral
  <2>3. EnvAt(at) = Canon[world.envs[at.env]]
    BY DEF EnvAt
  <2>4. RefAt(r, at) = Refs(r, Canon[world.envs[at.env]])[at.ref]
    BY <2>3 DEF RefAt
  <2>5. at.ref \in DOMAIN Refs(r, Canon[world.envs[at.env]])
    BY <1>4, <2>3
  <2>6. at \in PositionsOf(r, Refs(r, Canon[world.envs[at.env]])[at.ref], at.env, at.ref)
    BY <2>2, <2>4
  <2>7. at \in UNION {PositionsOf(r, Refs(r, Canon[world.envs[at.env]])[j], at.env, j) :
                        j \in DOMAIN Refs(r, Canon[world.envs[at.env]])}
    BY <2>5, <2>6
  <2>8. QED
    BY <1>4, <2>7 DEF Positions
<1>5. QED
  BY <1>3, <1>4

\* A step of the loops keeps Closed when all the targets of the positions it
\* passes are in hand afterwards.
LEMMA Passing ==
  ASSUME LinkInv, found = Nothing, UNCHANGED <<world, queue, expanded, repo>>,
         \A at \in Positions(repo) : Before(at, pos') /\ ~Before(at, pos) =>
           \A c \in FollowedTargets(repo, at) :
             found' # Nothing /\ found'.follow /\ at = found'.at /\ c \in found'.cands
  PROVE  Closed'
<1> SUFFICES ASSUME NEW r \in expanded', NEW at \in Positions(r)', r = repo' => Before(at, pos'),
                    NEW c \in FollowedTargets(r, at)', c.repo \in WellNamed
             PROVE  (c.repo \in Reached \/ Pending(r, at, c))'
  BY DEF Closed
<1>1. at \in Positions(r) /\ c \in FollowedTargets(r, at)
  BY InputOnly
<1>2. r \in expanded /\ repo' = repo /\ Reached' = Reached
  BY DEF Reached, Elements
<1>3. ~Pending(r, at, c)
  BY DEF Pending
<1>4. CASE r = repo => Before(at, pos)
  BY <1>1, <1>2, <1>3, <1>4 DEF LinkInv, Closed
<1>5. CASE r = repo /\ ~Before(at, pos)
  BY <1>1, <1>2, <1>5 DEF Pending
<1>6. QED
  BY <1>4, <1>5

\* What the loops pass by one step.
LEMMA Passed ==
  ASSUME NEW at \in Position, NEW p \in Position, ~Before(at, p)
  PROVE  /\ Before(at, [p EXCEPT !.tok = @ + 1]) => at = p
         /\ Before(at, [p EXCEPT !.ref = @ + 1, !.tok = 1]) =>
              at.env = p.env /\ at.ref = p.ref /\ at.tok >= p.tok
         /\ Before(at, [env |-> p.env + 1, ref |-> 1, tok |-> 1]) =>
              at.env = p.env /\ at.ref >= p.ref
<1>1. ASSUME Before(at, [p EXCEPT !.tok = @ + 1]) PROVE at = p
  <2>1. at.env = p.env /\ at.ref = p.ref /\ at.tok = p.tok
    BY <1>1 DEF Before, Position
  <2>2. QED
    BY <2>1 DEF Position
<1>2. ASSUME Before(at, [p EXCEPT !.ref = @ + 1, !.tok = 1])
      PROVE  at.env = p.env /\ at.ref = p.ref /\ at.tok >= p.tok
  <2> DEFINE q == [p EXCEPT !.ref = @ + 1, !.tok = 1]
  <2>1. q.env = p.env /\ q.ref = p.ref + 1 /\ q.tok = 1
    BY DEF Position
  <2>2. Before(at, q)
    BY <1>2
  <2> HIDE DEF q
  <2>3. QED
    BY <2>1, <2>2 DEF Before, Position
<1>3. ASSUME Before(at, [env |-> p.env + 1, ref |-> 1, tok |-> 1])
      PROVE  at.env = p.env /\ at.ref >= p.ref
  BY <1>3 DEF Before, Position
<1>4. QED
  BY <1>1, <1>2, <1>3

\* The loop stands at a token of its repository.
LEMMA AtPosition ==
  ASSUME TypeOK, AtToken
  PROVE  repo \in Repos /\ pos \in Positions(repo) /\ ~IsLiteral(repo, pos)
<1>1. repo \in Repos /\ pos \in Position /\ found = Nothing /\ world \in World
  BY DEF TypeOK, AtToken, AtRef, AtEnv
<1>2. pos.env \in DOMAIN world.envs
  <2>1. world.envs \in Seq(Envs) /\ pos.env <= Len(world.envs)
    BY <1>1, Inputs DEF AtToken, AtRef, AtEnv
  <2>2. QED
    BY <1>1, <2>1 DEF Position
<1>3. pos.ref \in DOMAIN Refs(repo, EnvAt(pos))
  <2>1. Refs(repo, EnvAt(pos)) \in Seq(ConsumerRef) /\ pos.ref <= Len(Refs(repo, EnvAt(pos)))
    BY <1>1, RefsType DEF AtToken, AtRef
  <2>2. QED
    BY <1>1, <2>1 DEF Position
<1>4. pos.tok \in 1 .. Len(RefAt(repo, pos).tokens) /\ ~IsLiteral(repo, pos)
  <2>1. RefAt(repo, pos) \in ConsumerRef
    <3>1. Refs(repo, EnvAt(pos)) \in Seq(ConsumerRef)
      BY <1>1, RefsType
    <3>2. QED
      BY <1>3, <3>1 DEF RefAt
  <2>2. RefAt(repo, pos).tokens \in Seq(Tokens) /\ pos.tok <= Len(RefAt(repo, pos).tokens)
    BY <2>1 DEF ConsumerRef, AtToken
  <2>3. pos.tok \in Nat \ {0}
    BY <1>1 DEF Position
  <2>4. QED
    BY <2>2, <2>3 DEF IsLiteral
<1>5. QED
  BY <1>1, <1>2, <1>3, <1>4, InPositions

\* Past a token: what it leads to is in hand.
LEMMA TokenPassed ==
  ASSUME LinkInv, AtToken, NextToken, UNCHANGED <<world, queue, expanded, repo>>,
         \A c \in FollowedTargets(repo, pos) :
           found' # Nothing /\ found'.follow /\ pos = found'.at /\ c \in found'.cands
  PROVE  Closed'
<1>1. found = Nothing /\ TypeOK /\ pos \in Position /\ world \in World
  BY DEF AtToken, AtRef, AtEnv, LinkInv, TypeOK
<1>2. ASSUME NEW at \in Positions(repo), Before(at, pos'), ~Before(at, pos)
      PROVE  at = pos
  <2>1. at \in Position
    BY <1>1, AtPosition, InPositions
  <2>2. QED
    BY <1>1, <1>2, <2>1, Passed DEF NextToken
<1>3. QED
  BY <1>1, <1>2, Passing

\* Past a reference or an environment: what the loops leave behind are the
\* references without tokens.
LEMMA RefPassed ==
  ASSUME TypeOK, UseLiteral \/ TokensDone \/ RefsDone,
         NEW at \in Positions(repo), Before(at, pos'), ~Before(at, pos)
  PROVE  UseLiteral /\ IsLiteral(repo, at)
<1>0. world \in World /\ pos \in Position /\ repo \in Repos
  BY DEF TypeOK, UseLiteral, TokensDone, RefsDone, AtRef, AtEnv
<1>1. /\ at \in Position /\ at.env \in DOMAIN world.envs
      /\ at.ref \in DOMAIN Refs(repo, EnvAt(at))
      /\ at.tok \in 1 .. (IF IsLiteral(repo, at) THEN 1 ELSE Len(RefAt(repo, at).tokens))
  BY <1>0, InPositions
<1>2. CASE UseLiteral \/ TokensDone
  <2>1. at.env = pos.env /\ at.ref = pos.ref /\ at.tok >= pos.tok
    BY <1>0, <1>1, <1>2, Passed DEF UseLiteral, TokensDone, NextRef
  <2>2. EnvAt(at) = EnvAt(pos) /\ RefAt(repo, at) = RefAt(repo, pos)
    BY <2>1 DEF EnvAt, RefAt
  <2>3. CASE UseLiteral
    BY <2>2, <2>3 DEF UseLiteral, IsLiteral
  <2>4. CASE TokensDone
    <3>1. ~IsLiteral(repo, at) /\ pos.tok > Len(RefAt(repo, at).tokens)
      BY <2>2, <2>4 DEF TokensDone, IsLiteral
    <3>2. RefAt(repo, at) \in ConsumerRef
      BY <1>0, <1>1, RefsType, SeqDomain DEF RefAt
    <3>3. Len(RefAt(repo, at).tokens) \in Nat
      BY <3>2 DEF ConsumerRef
    <3> QED BY <1>0, <1>1, <2>1, <3>1, <3>3 DEF Position
  <2> QED BY <1>2, <2>3, <2>4
<1>3. CASE RefsDone
  <2>1. at.env = pos.env /\ at.ref >= pos.ref
    BY <1>0, <1>1, <1>3, Passed DEF RefsDone
  <2>2. EnvAt(at) = EnvAt(pos)
    BY <2>1 DEF EnvAt
  <2>3. Refs(repo, EnvAt(at)) \in Seq(ConsumerRef)
    BY <1>0, RefsType
  <2>4. Len(Refs(repo, EnvAt(at))) \in Nat /\ at.ref \in 1 .. Len(Refs(repo, EnvAt(at)))
    BY <1>1, <2>3, SeqDomain
  <2>5. pos.ref > Len(Refs(repo, EnvAt(at)))
    BY <1>3, <2>2 DEF RefsDone
  <2> QED BY <1>0, <2>1, <2>4, <2>5 DEF Position
<1> QED BY <1>2, <1>3

\* The exits of the loop body reach nothing and lose nothing.
LEMMA LoopSteps ==
  ASSUME LinkInv,
         \/ SkipUndeclared \/ UseIntraRepo \/ GiveUp \/ NoIndexMatch \/ UseLadder
         \/ UseLiteral \/ TokensDone \/ RefsDone
  PROVE  /\ Closed' /\ InHand'
         /\ Reached' = Reached /\ Done' = Done
<1>1. TypeOK /\ world \in World /\ pos \in Position
  BY DEF LinkInv, TypeOK
<1>2. /\ UNCHANGED <<world, queue, expanded, repo>>
      /\ AtEnv
  BY DEF SkipUndeclared, UseIntraRepo, GiveUp, NoIndexMatch, UseLadder, UseLiteral, TokensDone,
         RefsDone, OnLadder, AtToken, AtRef
<1>3. Reached' = Reached /\ Done' = Done /\ repo \in Repos /\ repo \in expanded
  BY <1>1, <1>2 DEF Reached, Elements, Done, AtEnv, TypeOK, LinkInv, InHand
<1>4. found = Nothing
  BY <1>2 DEF AtEnv
<1>5. CASE SkipUndeclared
  <2>1. FollowedTargets(repo, pos) = {}
    BY <1>5 DEF SkipUndeclared, FollowedTargets
  <2>2. Closed'
    BY <1>2, <1>5, <2>1, TokenPassed DEF SkipUndeclared
  <2>3. InHand'
    BY <1>2, <1>3, <1>4, <1>5 DEF SkipUndeclared, InHand
  <2>4. QED
    BY <1>3, <2>2, <2>3
<1>6. CASE UseIntraRepo \/ UseLadder
  <2>1. AtToken /\ NextToken
    BY <1>6 DEF UseIntraRepo, UseLadder, OnLadder
  <2>2. pos \in Positions(repo) /\ ~IsLiteral(repo, pos)
    BY <1>1, <2>1, AtPosition
  <2>3. found'.follow /\ found'.at = pos /\ found'.cands = FollowedTargets(repo, pos)
        /\ FollowedTargets(repo, pos) # {}
    <3>1. CASE UseIntraRepo
      BY <2>2, <3>1 DEF UseIntraRepo, FollowedTargets, Found
    <3>2. CASE UseLadder
      BY <2>2, <3>2 DEF UseLadder, OnLadder, FollowedTargets, Found
    <3>3. QED
      BY <1>6, <3>1, <3>2
  <2>4. found' # Nothing
    BY <2>3 DEF Nothing
  <2>5. Closed'
    BY <1>2, <2>1, <2>3, <2>4, TokenPassed
  <2>6. InHand'
    <3>1. PICK r, at : r = repo /\ at = pos
      OBVIOUS
    <3>2. Positions(r)' = Positions(r) /\ FollowedTargets(r, at)' = FollowedTargets(r, at)
      BY <1>2, InputOnly
    <3>3. repo' = r /\ found'.at = at /\ r \in expanded'
      BY <1>2, <1>3, <2>3, <3>1
    <3>4. at \in Positions(r)' /\ found'.cands \subseteq FollowedTargets(r, at)'
      BY <2>2, <2>3, <3>1, <3>2
    <3>5. QED
      BY <3>3, <3>4 DEF InHand
  <2>7. QED
    BY <1>3, <2>5, <2>6
<1>7. CASE GiveUp \/ NoIndexMatch
  <2>1. AtToken /\ NextToken /\ UNCHANGED found
    BY <1>7 DEF GiveUp, NoIndexMatch, OnLadder
  <2>2. FollowedTargets(repo, pos) = {}
    <3>1. IntraTargets(repo, pos) = {} /\ LadderTargets(repo, pos) = {}
      <4>1. CASE GiveUp
        BY <4>1 DEF GiveUp, OnLadder, LadderTargets, LadderTexts, Targets
      <4>2. CASE NoIndexMatch
        BY <4>2 DEF NoIndexMatch, OnLadder
      <4>3. QED
        BY <1>7, <4>1, <4>2
    <3>2. QED
      BY <3>1 DEF FollowedTargets
  <2>3. Closed'
    BY <1>2, <2>1, <2>2, TokenPassed
  <2>4. InHand'
    BY <1>2, <1>3, <1>4, <2>1 DEF InHand
  <2>5. QED
    BY <1>3, <2>3, <2>4
<1>8. CASE UseLiteral \/ TokensDone \/ RefsDone
  <2>1. ASSUME NEW at \in Positions(repo), Before(at, pos'), ~Before(at, pos)
        PROVE  FollowedTargets(repo, at) = {}
    BY <1>1, <1>8, <2>1, RefPassed DEF FollowedTargets
  <2>2. Closed'
    BY <1>2, <1>4, <2>1, Passing
  <2>3. ~(found'.follow /\ found' # Nothing)
    <3>1. CASE UseLiteral
      BY <3>1 DEF UseLiteral, Found
    <3>2. CASE TokensDone \/ RefsDone
      BY <1>4, <3>2 DEF TokensDone, RefsDone
    <3>3. QED
      BY <1>8, <3>1, <3>2
  <2>4. InHand'
    BY <1>2, <1>3, <2>3 DEF InHand
  <2>5. QED
    BY <1>3, <2>2, <2>4
<1>9. QED
  BY <1>5, <1>6, <1>7, <1>8

\* What every step does to reachability: a step of its own, or nothing.
Follow == \/ Reachable!Next \/ (Reached' = Reached /\ Done' = Done /\ links' = links)

\* Taking a repository from the queue stops or stutters.
LEMMA ExpandSteps ==
  ASSUME LinkInv, Expand \/ Revisit, links' = links
  PROVE  Closed' /\ InHand' /\ Follow
<1>1. /\ TypeOK /\ queue \in Seq(Repos) /\ queue # <<>> /\ repo = NoRepo /\ found = Nothing
      /\ queue' = Tail(queue) /\ UNCHANGED <<world, found>>
      /\ expanded' = expanded \cup {Head(queue)}
  BY DEF LinkInv, TypeOK, Expand, Revisit
<1>2. Elements(queue) = {Head(queue)} \cup Elements(queue') /\ Head(queue) \in Repos
  BY <1>1, ElementsTail
<1>3. Reached' = Reached
  <2>1. Elements(queue)' = Elements(queue')
    BY DEF Elements
  <2>2. QED
    BY <1>1, <1>2, <2>1 DEF Reached
<1>4. repo' # NoRepo => repo' = Head(queue) /\ pos' = Start /\ Expand
  BY <1>1, <1>2 DEF Expand, Revisit
<1>5. InHand'
  BY <1>1, <1>4 DEF InHand
<1>6. \A r, at, c : ~Pending(r, at, c) /\ ~Pending(r, at, c)'
  BY <1>1 DEF Pending
<1>7. Closed'
  <2> SUFFICES ASSUME NEW r \in expanded', NEW at \in Positions(r)', r = repo' => Before(at, pos'),
                      NEW c \in FollowedTargets(r, at)', c.repo \in WellNamed
               PROVE  (c.repo \in Reached \/ Pending(r, at, c))'
    BY DEF Closed
  <2>1. at \in Positions(r) /\ c \in FollowedTargets(r, at) /\ r \in Repos /\ world \in World
    BY <1>1, <1>2, InputOnly DEF TypeOK
  <2>2. at \in Position
    BY <2>1, InPositions
  <2>3. ~Before(at, Start)
    BY <2>2 DEF Before, Start, Position
  <2>4. r # repo
    BY <1>1, <2>1, NoRepoAssumption
  <2>5. r \in expanded
    <3>1. CASE Expand
      <4>1. repo' = Head(queue) /\ pos' = Start
        BY <3>1 DEF Expand
      <4>2. QED
        BY <1>1, <2>3, <4>1
    <3>2. CASE Revisit
      BY <3>2 DEF Revisit
    <3>3. QED
      BY <3>1, <3>2
  <2>6. c.repo \in Reached \/ Pending(r, at, c)
    BY <2>1, <2>4, <2>5 DEF LinkInv, Closed
  <2>7. QED
    BY <1>3, <1>6, <2>6
<1>8. Follow
  <2>1. CASE Done'
    <3>1. Revisit /\ queue' = <<>>
      BY <1>1, <1>2, <2>1, NoRepoAssumption DEF Done, Expand
    <3>2. Elements(queue') = {}
      BY <3>1 DEF Elements
    <3>3. Reached = expanded
      BY <1>2, <3>1, <3>2 DEF Reached, Revisit
    <3>4. ASSUME NEW n \in Reached, NEW m \in Repos, <<n, m>> \in links PROVE m \in Reached
      <4>1. n \in expanded /\ n # repo
        BY <1>1, <3>3, NoRepoAssumption DEF TypeOK
      <4>2. Leads(n, m)
        BY <3>4 DEF LinkInv, Links
      <4>3. PICK at \in Positions(n) : \E c \in FollowedTargets(n, at) : c.repo = m
        BY <4>2 DEF Leads
      <4>4. PICK c \in FollowedTargets(n, at) : c.repo = m /\ m \in WellNamed
        BY <4>2, <4>3 DEF Leads
      <4>5. c.repo \in Reached \/ Pending(n, at, c)
        BY <4>1, <4>4 DEF LinkInv, Closed
      <4>6. QED
        BY <1>6, <4>4, <4>5
    <3>5. ~Done
      BY <1>1 DEF Done
    <3>6. Reachable!Stop
      BY <1>3, <2>1, <3>4, <3>5 DEF Reachable!Stop, Reached
    <3>7. QED
      BY <3>6 DEF Follow, Reachable!Next
  <2>2. CASE ~Done'
    BY <1>1, <1>3, <2>2 DEF Follow, Done
  <2>3. QED
    BY <2>1, <2>2
<1>9. QED
  BY <1>5, <1>7, <1>8

\* So does leaving one.
LEMMA EnvsDoneStep ==
  ASSUME LinkInv, EnvsDone, links' = links
  PROVE  Closed' /\ InHand' /\ Follow
<1>1. /\ TypeOK /\ world \in World /\ repo \in Repos /\ repo' = NoRepo /\ found = Nothing
      /\ UNCHANGED <<world, queue, expanded, pos, found>>
      /\ pos.env > Len(world.envs) /\ pos \in Position /\ Reached' = Reached
  BY DEF LinkInv, TypeOK, EnvsDone, Reached, Elements
<1>2. ASSUME NEW r \in expanded, NEW at \in Positions(r), NEW c \in FollowedTargets(r, at),
             c.repo \in WellNamed
      PROVE  c.repo \in Reached
  <2>1. r \in Repos
    BY <1>1 DEF TypeOK
  <2>2. at \in Position /\ at.env \in DOMAIN world.envs
    BY <1>1, <2>1, InPositions
  <2>3. Before(at, pos)
    <3>1. world.envs \in Seq(Envs)
      BY <1>1, Inputs
    <3>2. at.env \in 1 .. Len(world.envs) /\ Len(world.envs) \in Nat
      BY <2>2, <3>1, SeqDomain
    <3>3. at.env < pos.env
      BY <1>1, <3>2 DEF Position
    <3>4. QED
      BY <3>3 DEF Before
  <2>4. QED
    BY <1>1, <1>2, <2>3 DEF LinkInv, Closed, Pending
<1>3. InHand'
  BY <1>1 DEF InHand
<1>4. Closed'
  <2> SUFFICES ASSUME NEW r \in expanded', NEW at \in Positions(r)',
                      NEW c \in FollowedTargets(r, at)', c.repo \in WellNamed
               PROVE  (c.repo \in Reached)'
    BY DEF Closed
  <2>1. QED
    BY <1>1, <1>2, InputOnly
<1>5. Follow
  <2>1. CASE Done'
    <3>1. queue = <<>> /\ ~Done
      BY <1>1, <2>1, NoRepoAssumption DEF Done
    <3>2. Reached = expanded
      BY <3>1 DEF Reached, Elements
    <3>3. ASSUME NEW n \in Reached, NEW m \in Repos, <<n, m>> \in links PROVE m \in Reached
      <4>1. Leads(n, m)
        BY <3>3 DEF LinkInv, Links
      <4>2. QED
        BY <1>2, <3>2, <4>1 DEF Leads
    <3>4. Reachable!Stop
      BY <1>1, <2>1, <3>1, <3>3 DEF Reachable!Stop, Reached
    <3>5. QED
      BY <3>4 DEF Follow, Reachable!Next
  <2>2. CASE ~Done'
    BY <1>1, <2>2, NoRepoAssumption DEF Follow, Done
  <2>3. QED
    BY <2>1, <2>2
<1>6. QED
  BY <1>3, <1>4, <1>5

\* An edge reaches its target when that is new.
LEMMA AddEdgeStep ==
  ASSUME LinkInv, NEW cand \in found.cands, AddEdge(cand), links' = links
  PROVE  Closed' /\ InHand' /\ Follow
<1> DEFINE Queued == found.follow /\ cand.repo \in WellNamed /\ cand.repo \notin expanded
<1>1. /\ TypeOK /\ found \in FoundType /\ repo \in Repos /\ repo # NoRepo /\ found # Nothing
      /\ UNCHANGED <<world, expanded, repo, pos>>
  BY NoRepoAssumption DEF LinkInv, TypeOK, AddEdge, Nothing
<1>2. cand.repo \in Repos /\ queue \in Seq(Repos) /\ repo \in expanded
  BY <1>1, EdgeHasType DEF TypeOK, LinkInv, InHand
<1>3. Reached' = IF Queued THEN Reached \cup {cand.repo} ELSE Reached
  <2>1. Elements(queue)' = Elements(queue')
    BY DEF Elements
  <2>2. CASE Queued
    BY <1>1, <1>2, <2>1, <2>2, ElementsAppend DEF AddEdge, Reached
  <2>3. CASE ~Queued
    BY <1>1, <2>1, <2>3 DEF AddEdge, Reached
  <2>4. QED
    BY <2>2, <2>3
<1>4. \A c \in found.cands : c # cand =>
        /\ found' # Nothing /\ c \in found'.cands
        /\ found'.follow = found.follow /\ found'.at = found.at
  <2> SUFFICES ASSUME NEW c \in found.cands, c # cand
               PROVE  /\ found' # Nothing /\ c \in found'.cands
                      /\ found'.follow = found.follow /\ found'.at = found.at
    OBVIOUS
  <2>1. found' = [found EXCEPT !.cands = @ \ {cand}]
    BY DEF AddEdge
  <2>2. found'.cands = found.cands \ {cand} /\ found'.follow = found.follow /\ found'.at = found.at
    BY <1>1, <2>1 DEF FoundType
  <2>3. QED
    BY <2>2 DEF Nothing
<1>5. InHand'
  <2>1. found' # Nothing => found'.follow = found.follow /\ found'.at = found.at
                              /\ found'.cands \subseteq found.cands
    BY <1>1 DEF AddEdge, FoundType
  <2>2. CASE found' # Nothing /\ found'.follow
    <3>1. found.at \in Positions(repo) /\ found.cands \subseteq FollowedTargets(repo, found.at)
      BY <1>1, <2>1, <2>2 DEF LinkInv, InHand
    <3>2. PICK r, at : r = repo /\ at = found.at
      OBVIOUS
    <3>3. Positions(r)' = Positions(r) /\ FollowedTargets(r, at)' = FollowedTargets(r, at)
      BY <1>1, InputOnly
    <3>4. repo' = r /\ found'.at = at /\ r \in expanded'
      BY <1>1, <1>2, <2>1, <2>2, <3>2
    <3>5. at \in Positions(r)' /\ found'.cands \subseteq FollowedTargets(r, at)'
      BY <2>1, <2>2, <3>1, <3>2, <3>3
    <3>6. QED
      BY <3>4, <3>5 DEF InHand
  <2>3. CASE ~(found' # Nothing /\ found'.follow)
    BY <1>1, <1>2, <2>3 DEF InHand
  <2>4. QED
    BY <2>2, <2>3
<1>6. Closed'
  <2> SUFFICES ASSUME NEW r \in expanded', NEW at \in Positions(r)', r = repo' => Before(at, pos'),
                      NEW c \in FollowedTargets(r, at)', c.repo \in WellNamed
               PROVE  (c.repo \in Reached \/ Pending(r, at, c))'
    BY DEF Closed
  <2>1. c.repo \in Reached \/ Pending(r, at, c)
    BY <1>1, InputOnly DEF LinkInv, Closed
  <2>2. CASE c.repo \in Reached
    BY <1>3, <2>2
  <2>3. CASE Pending(r, at, c) /\ c = cand
    <3>1. found.follow /\ (cand.repo \in expanded \/ Queued)
      BY <2>3 DEF Pending
    <3>2. QED
      BY <1>3, <2>3, <3>1 DEF Reached
  <2>4. CASE Pending(r, at, c) /\ c # cand
    BY <1>1, <1>4, <2>4 DEF Pending
  <2>5. QED
    BY <2>1, <2>2, <2>3, <2>4
<1>7. Follow
  <2>1. ~Done /\ Done' = Done
    BY <1>1 DEF Done
  <2>2. CASE Queued /\ cand.repo \notin Reached
    <3>1. Leads(repo, cand.repo)
      BY <1>1, <2>2 DEF Leads, LinkInv, InHand
    <3>2. <<repo, cand.repo>> \in links /\ repo \in Reached
      BY <1>1, <1>2, <3>1 DEF LinkInv, Links, Reached
    <3>3. Reachable!Reach(cand.repo)
      BY <1>3, <2>1, <2>2, <3>2 DEF Reachable!Reach, Reached
    <3>4. QED
      BY <1>2, <3>3 DEF Follow, Reachable!Next
  <2>3. CASE ~(Queued /\ cand.repo \notin Reached)
    <3>1. Reached' = Reached
      <4> HIDE DEF Queued
      <4> QED BY <1>3, <2>3
    <3>2. QED
      BY <2>1, <3>1 DEF Follow
  <2>4. QED
    BY <2>2, <2>3
<1>8. QED
  BY <1>5, <1>6, <1>7

\* The invariant behind the refinement.
LEMMA LinkStep ==
  ASSUME LinkInv, TypeOK', [LinkedNext]_<<vars, links>>
  PROVE  LinkInv' /\ [Reachable!Next]_(Reachable!vars)
<1>1. world' = world /\ links' = links
  BY DEF LinkedNext, Next, vars, Expand, Revisit, SkipUndeclared, UseIntraRepo, GiveUp, NoIndexMatch,
         UseLadder, UseLiteral, TokensDone, RefsDone, EnvsDone, AddEdge
<1>2. (links = Links)'
  <2>1. \A r, m : Leads(r, m)' = Leads(r, m)
    BY <1>1, InputOnly DEF Leads
  <2>2. QED
    BY <1>1, <2>1 DEF Links, LinkInv
<1>3. Closed' /\ InHand' /\ Follow
  <2>1. CASE Expand \/ Revisit
    BY <1>1, <2>1, ExpandSteps
  <2>2. CASE \/ SkipUndeclared \/ UseIntraRepo \/ GiveUp \/ NoIndexMatch \/ UseLadder
             \/ UseLiteral \/ TokensDone \/ RefsDone
    BY <1>1, <2>2, LoopSteps DEF Follow
  <2>3. CASE EnvsDone
    BY <1>1, <2>3, EnvsDoneStep
  <2>4. ASSUME NEW cand \in found.cands, AddEdge(cand) PROVE Closed' /\ InHand' /\ Follow
    BY <1>1, <2>4, AddEdgeStep
  <2>5. CASE UNCHANGED vars
    <3>1. UNCHANGED <<world, queue, expanded, repo, pos, found>>
      BY <2>5 DEF vars
    <3>2. Reached' = Reached /\ Done' = Done
      BY <3>1 DEF Reached, Elements, Done
    <3>3. Closed'
      <4> SUFFICES ASSUME NEW r \in expanded', NEW at \in Positions(r)', r = repo' => Before(at, pos'),
                          NEW c \in FollowedTargets(r, at)', c.repo \in WellNamed
                   PROVE  (c.repo \in Reached \/ Pending(r, at, c))'
        BY DEF Closed
      <4>1. c.repo \in Reached \/ Pending(r, at, c)
        BY <3>1, InputOnly DEF LinkInv, Closed
      <4>2. QED
        BY <3>1, <3>2, <4>1 DEF Pending
    <3>4. InHand'
      <4>1. PICK r, at : r = repo /\ at = found.at
        OBVIOUS
      <4>2. Positions(r)' = Positions(r) /\ FollowedTargets(r, at)' = FollowedTargets(r, at)
        BY <3>1, InputOnly
      <4>3. /\ repo # NoRepo => r \in expanded
            /\ found # Nothing /\ found.follow =>
                 at \in Positions(r) /\ found.cands \subseteq FollowedTargets(r, at)
        BY <4>1 DEF LinkInv, InHand
      <4>4. repo' = r /\ found'.at = at
        BY <3>1, <4>1
      <4>5. QED
        BY <3>1, <4>2, <4>3, <4>4 DEF InHand
    <3>5. QED
      BY <1>1, <3>2, <3>3, <3>4 DEF Follow
  <2>6. QED
    BY <2>1, <2>2, <2>3, <2>4, <2>5 DEF LinkedNext, Next, vars
<1>4. [Reachable!Next]_(Reachable!vars)
  BY <1>3 DEF Follow, Reachable!vars, Reached
<1>5. QED
  BY <1>2, <1>3, <1>4 DEF LinkInv

\* The traversal reaches exactly what the references resolve to, from the
\* anchor, one repository at a time, and its worklist empties only when
\* nothing is left to reach: for every set of repositories, however their
\* references are linked.
THEOREM Refinement == LinkedSpec => ImplementsReachability
<1>1. LinkedSpec => []TypeOK
  <2>1. LinkedInit => Init
    BY DEF LinkedInit
  <2>2. [LinkedNext]_<<vars, links>> => [Next]_vars
    BY DEF LinkedNext
  <2>3. LinkedSpec => Spec
    BY <2>1, <2>2, PTL DEF LinkedSpec, Spec
  <2>4. QED
    BY <2>3, Typed, PTL
<1>2. LinkedInit /\ TypeOK => LinkInv /\ Reachable!Init
  <2> SUFFICES ASSUME LinkedInit, TypeOK PROVE LinkInv /\ Reachable!Init
    OBVIOUS
  <2>1. LinkInv
    BY DEF LinkedInit, Init, LinkInv, InHand, Closed
  <2>2. Reachable!Init
    <3>1. links \in SUBSET (Repos \X Repos)
      BY DEF LinkedInit, Links
    <3>2. world.anchor \in Repos /\ Elements(<<world.anchor>>) = {world.anchor}
      <4>1. world.anchor \in Repos
        BY Inputs DEF TypeOK
      <4>2. DOMAIN <<world.anchor>> = {1}
        OBVIOUS
      <4>3. QED
        BY <4>1, <4>2 DEF Elements
    <3>3. expanded \cup Elements(queue) = {world.anchor} /\ Done = FALSE
      BY <3>2 DEF LinkedInit, Init, Done
    <3>4. QED
      BY <3>1, <3>2, <3>3 DEF Reachable!Init
  <2>3. QED
    BY <2>1, <2>2
<1>3. LinkInv /\ TypeOK' /\ [LinkedNext]_<<vars, links>> => LinkInv' /\ [Reachable!Next]_(Reachable!vars)
  BY LinkStep
<1>4. QED
  BY <1>1, <1>2, <1>3, PTL DEF LinkedSpec, ImplementsReachability, Reachable!Spec
-----------------------------------------------------------------------------
(***************************************************************************)
(* What is known of an edge, and of a reference that makes none.           *)
(***************************************************************************)
\* What is known of where the candidates in hand, or an edge, were found.
Sourced(r, at, env, rung) ==
  /\ at \in Positions(r)
  /\ env = EnvAt(at)
  /\ (rung = "literal" <=> IsLiteral(r, at))
  /\ rung \in {"store_api", "preview_api"} =>
       Acquisition(r, at).resolved /\ Acquisition(r, at).rung = rung

\* Every edge was found at a position of an expanded repository that its
\* loops have passed.
EdgesSourced ==
  \A e \in Elements(edges) :
    /\ e.from \in expanded
    /\ e.from = repo => Before(e.at, pos)
    /\ Sourced(e.from, e.at, e.env, e.rung)
    /\ e.deployed_ref = DeployedRef(e.from, e.env)
    /\ e.rung = "literal" => e.of \in LiteralTargets(e.from, e.at)

\* The candidates in hand were found at the position passed last.
HandSourced ==
  /\ repo # NoRepo => repo \in expanded
  /\ found # Nothing =>
       /\ Before(found.at, pos)
       /\ Sourced(repo, found.at, found.env, found.rung)
       /\ found.rung = "literal" => found.cands \subseteq LiteralTargets(repo, found.at)

\* A candidate in hand has no edge yet.
Fresh ==
  found # Nothing =>
    \A e \in Elements(edges) : e.from = repo /\ e.at = found.at => e.of \notin found.cands

\* A repository has, at a position, an edge to another one.
HasEdge(r, at, m) == \E f \in Elements(edges) : f.from = r /\ f.at = at /\ f.to = m

\* A candidate for such an edge is in hand.
Waits(r, at, m) ==
  found # Nothing /\ r = repo /\ at = found.at /\ \E d \in found.cands : d.repo = m

\* Every candidate of an ambiguous reference has its edge or waits for it.
Branches ==
  /\ \A e \in Elements(edges) : \A m \in e.candidates :
       HasEdge(e.from, e.at, m) \/ Waits(e.from, e.at, m)
  /\ found # Nothing => \A m \in found.candidates :
       HasEdge(repo, found.at, m) \/ Waits(repo, found.at, m)

\* A declared token that the loops have passed is recorded or in hand.
PassedRecorded ==
  \A r \in expanded : \A at \in Positions(r) :
    (r = repo => Before(at, pos)) /\ ~IsLiteral(r, at) /\ IsDeclared(r, at) =>
      Recorded(r, at) \/ (found # Nothing /\ r = repo /\ at = found.at)

\* Only a reference with tokens has a second one.
PastFirst == repo # NoRepo /\ pos.tok # 1 => ~IsLiteral(repo, pos)

\* The inductive invariant: EvaluatedOnce needs Fresh and the order of the
\* positions, and what is said of an edge needs where it was found.
EdgeInv ==
  TypeOK /\ EdgesSourced /\ HandSourced /\ EvaluatedOnce /\ Fresh /\ Branches /\ PassedRecorded /\ PastFirst

\* Where something was found depends on the input alone.
LEMMA SourcedStays ==
  ASSUME world' = world, NEW r, NEW at, NEW env, NEW rung
  PROVE  Sourced(r, at, env, rung)' <=> Sourced(r, at, env, rung)
  BY InputOnly DEF Sourced

\* What is recorded stays recorded.
LEMMA RecordsStay ==
  ASSUME Elements(edges) \subseteq Elements(edges'), unresolved \subseteq unresolved',
         NEW r, NEW at
  PROVE  /\ Recorded(r, at) => Recorded(r, at)'
         /\ \A m : HasEdge(r, at, m) => HasEdge(r, at, m)'
<1>1. Elements(edges)' = Elements(edges')
  BY DEF Elements
<1> QED BY <1>1 DEF Recorded, HasEdge

\* Where one step of the loops leads.
Onward(p) ==
  {[p EXCEPT !.tok = @ + 1], [p EXCEPT !.ref = @ + 1, !.tok = 1],
   [env |-> p.env + 1, ref |-> 1, tok |-> 1]}

\* The loops only go forward.
LEMMA Onwards ==
  ASSUME NEW p \in Position, NEW q \in Onward(p)
  PROVE  Before(p, q) /\ ~Before(p, p) /\ \A at \in Position : Before(at, p) => Before(at, q)
<1>1. \/ q.env = p.env /\ q.ref = p.ref /\ q.tok = p.tok + 1
      \/ q.env = p.env /\ q.ref = p.ref + 1 /\ q.tok = 1
      \/ q.env = p.env + 1 /\ q.ref = 1 /\ q.tok = 1
  <2>1. CASE q = [p EXCEPT !.tok = @ + 1]
    BY <2>1 DEF Position
  <2>2. CASE q = [p EXCEPT !.ref = @ + 1, !.tok = 1]
    BY <2>2 DEF Position
  <2>3. CASE q = [env |-> p.env + 1, ref |-> 1, tok |-> 1]
    BY <2>3
  <2> QED BY <2>1, <2>2, <2>3 DEF Onward
<1>2. p.env \in Nat /\ p.ref \in Nat /\ p.tok \in Nat
  BY DEF Position
<1>3. ASSUME NEW at \in Position, Before(at, p) PROVE Before(at, q)
  <2>1. at.env \in Nat /\ at.ref \in Nat /\ at.tok \in Nat
    BY DEF Position
  <2> QED BY <1>1, <1>2, <1>3, <2>1 DEF Before
<1> QED BY <1>1, <1>2, <1>3 DEF Before

\* A step of the loops over one repository.  What it leaves behind is recorded
\* or in hand afterwards, and what it takes in hand was found where it stood.
LEMMA LoopEdges ==
  ASSUME EdgeInv, AtEnv, UNCHANGED <<world, queue, expanded, repo, edges>>,
         pos' \in Onward(pos),
         unresolved \subseteq unresolved',
         found' # Nothing =>
           /\ found'.at = pos
           /\ Sourced(repo, pos, found'.env, found'.rung)
           /\ found'.rung = "literal" => found'.cands \subseteq LiteralTargets(repo, pos)
           /\ found'.candidates \subseteq {c.repo : c \in found'.cands},
         \A at \in Positions(repo) :
           Before(at, pos') /\ ~Before(at, pos) /\ ~IsLiteral(repo, at) /\ IsDeclared(repo, at) =>
             /\ at = pos
             /\ found' # Nothing \/ \E u \in unresolved' : u.repo = repo /\ u.at = pos,
         TypeOK', PastFirst'
  PROVE  EdgeInv'
<1>1. /\ TypeOK /\ world \in World /\ pos \in Position /\ repo \in Repos
      /\ found = Nothing /\ repo \in expanded /\ expanded \subseteq Repos
  BY DEF EdgeInv, AtEnv, TypeOK, HandSourced
<1>2. Before(pos, pos') /\ ~Before(pos, pos) /\ \A at \in Position : Before(at, pos) => Before(at, pos')
  BY <1>1, Onwards
<1>3. Elements(edges)' = Elements(edges) /\ Elements(edges') = Elements(edges)
  BY DEF Elements
<1>4. \A r \in Repos : \A at \in Positions(r) : at \in Position
  BY <1>1, InPositions
<1>5. EdgesSourced'
  <2> SUFFICES ASSUME NEW e \in Elements(edges)
               PROVE  (/\ e.from \in expanded
                       /\ e.from = repo => Before(e.at, pos)
                       /\ Sourced(e.from, e.at, e.env, e.rung)
                       /\ e.deployed_ref = DeployedRef(e.from, e.env)
                       /\ e.rung = "literal" => e.of \in LiteralTargets(e.from, e.at))'
    BY <1>3 DEF EdgesSourced
  <2>1. /\ e.from \in expanded
        /\ e.from = repo => Before(e.at, pos)
        /\ Sourced(e.from, e.at, e.env, e.rung)
        /\ e.deployed_ref = DeployedRef(e.from, e.env)
        /\ e.rung = "literal" => e.of \in LiteralTargets(e.from, e.at)
    BY DEF EdgeInv, EdgesSourced
  <2>2. e.at \in Position
    <3>1. e.from \in Repos
      BY <1>1, <2>1
    <3>2. e.at \in Positions(e.from)
      BY <2>1 DEF Sourced
    <3> QED BY <1>4, <3>1, <3>2
  <2>3. e.from \in expanded' /\ (e.from = repo' => Before(e.at, pos'))
    <3>1. repo' = repo /\ expanded' = expanded
      OBVIOUS
    <3> QED BY <1>2, <2>1, <2>2, <3>1
  <2>4. Sourced(e.from, e.at, e.env, e.rung)'
    BY <2>1, SourcedStays
  <2>5. /\ DeployedRef(e.from, e.env)' = DeployedRef(e.from, e.env)
        /\ LiteralTargets(e.from, e.at)' = LiteralTargets(e.from, e.at)
    BY InputOnly
  <2> QED BY <2>1, <2>3, <2>4, <2>5
<1>6. HandSourced'
  <2>1. CASE found' = Nothing
    BY <1>1, <2>1 DEF HandSourced, Nothing
  <2>2. CASE found' # Nothing
    <3>1. PICK r, at, env, rung : r = repo /\ at = pos /\ env = found'.env /\ rung = found'.rung
      OBVIOUS
    <3>2. Sourced(r, at, env, rung)'
      BY <2>2, <3>1, SourcedStays
    <3>3. LiteralTargets(r, at)' = LiteralTargets(r, at)
      BY InputOnly
    <3>4. repo' = r /\ found'.at = at /\ Before(at, pos') /\ r \in expanded'
      BY <1>1, <1>2, <2>2, <3>1
    <3>5. Sourced(repo, found.at, found.env, found.rung)'
      BY <3>1, <3>2, <3>4
    <3>6. found'.rung = "literal" => found'.cands \subseteq LiteralTargets(repo, found.at)'
      BY <2>2, <3>1, <3>3, <3>4
    <3> QED BY <3>1, <3>4, <3>5, <3>6 DEF HandSourced
  <2> QED BY <2>1, <2>2
<1>7. EvaluatedOnce'
  BY DEF EdgeInv, EvaluatedOnce
<1>8. Fresh'
  <2> SUFFICES ASSUME found' # Nothing, NEW e \in Elements(edges), e.from = repo, e.at = found'.at
               PROVE  FALSE
    BY <1>3 DEF Fresh, Nothing
  <2> QED BY <1>2 DEF EdgeInv, EdgesSourced
<1>9. Branches'
  <2>1. ASSUME NEW e \in Elements(edges), NEW m \in e.candidates
        PROVE  HasEdge(e.from, e.at, m)'
    <3>1. HasEdge(e.from, e.at, m)
      BY <1>1, <2>1 DEF EdgeInv, Branches, Waits
    <3> QED BY <1>3, <3>1, RecordsStay
  <2>2. ASSUME found' # Nothing, NEW m \in found'.candidates
        PROVE  Waits(repo, found.at, m)'
    BY <2>2 DEF Waits, Nothing
  <2> QED BY <1>3, <2>1, <2>2 DEF Branches, Nothing
<1>10. PassedRecorded'
  <2> SUFFICES ASSUME NEW r \in expanded, NEW at \in Positions(r),
                      r = repo => Before(at, pos'), ~IsLiteral(r, at), IsDeclared(r, at)
               PROVE  (Recorded(r, at) \/ (found # Nothing /\ r = repo /\ at = found.at))'
    BY InputOnly DEF PassedRecorded
  <2>1. CASE r = repo => Before(at, pos)
    <3>1. Recorded(r, at)
      BY <1>1, <2>1 DEF EdgeInv, PassedRecorded
    <3> QED BY <1>3, <3>1, RecordsStay
  <2>2. CASE r = repo /\ ~Before(at, pos)
    BY <2>2 DEF Recorded, Nothing
  <2> QED BY <2>1, <2>2
<1> QED BY <1>5, <1>6, <1>7, <1>8, <1>9, <1>10 DEF EdgeInv

\* A reference without tokens has one position.
LEMMA AtLiteral ==
  ASSUME EdgeInv, UseLiteral
  PROVE  pos \in Positions(repo) /\ IsLiteral(repo, pos)
<1>1. /\ world \in World /\ pos \in Position /\ repo \in Repos /\ repo # NoRepo
      /\ pos.env <= Len(world.envs) /\ pos.ref <= Len(Refs(repo, EnvAt(pos)))
      /\ IsLiteral(repo, pos)
  BY DEF EdgeInv, TypeOK, UseLiteral, AtRef, AtEnv, IsLiteral
<1>2. pos.tok = 1
  BY <1>1 DEF EdgeInv, PastFirst
<1>3. world.envs \in Seq(Envs) /\ Refs(repo, EnvAt(pos)) \in Seq(ConsumerRef)
  BY <1>1, Inputs, RefsType
<1>4. pos.env \in DOMAIN world.envs /\ pos.ref \in DOMAIN Refs(repo, EnvAt(pos))
  BY <1>1, <1>3, SeqDomain DEF Position
<1> QED BY <1>1, <1>2, <1>4, InPositions

\* The loops count tokens only under a reference that has some.
LEMMA PastFirstStep ==
  ASSUME EdgeInv,
         \/ SkipUndeclared \/ UseIntraRepo \/ GiveUp \/ NoIndexMatch \/ UseLadder
         \/ UseLiteral \/ TokensDone \/ RefsDone
  PROVE  PastFirst'
<1>1. pos \in Position /\ UNCHANGED <<world, repo>>
  BY DEF EdgeInv, TypeOK, SkipUndeclared, UseIntraRepo, GiveUp, NoIndexMatch, UseLadder,
         UseLiteral, TokensDone, RefsDone
<1>2. CASE AtToken /\ pos' = [pos EXCEPT !.tok = @ + 1]
  <2>1. repo \in Repos /\ ~IsLiteral(repo, pos)
    BY <1>2, AtPosition DEF EdgeInv
  <2>2. pos'.env = pos.env /\ pos'.ref = pos.ref
    BY <1>1, <1>2 DEF Position
  <2>3. PICK r, at, next : r = repo /\ at = pos /\ next = pos'
    OBVIOUS
  <2>4. IsLiteral(r, next) <=> IsLiteral(r, at)
    BY <2>2, <2>3 DEF IsLiteral, RefAt, EnvAt
  <2>5. IsLiteral(r, next)' <=> IsLiteral(r, next)
    BY <1>1, InputOnly
  <2>6. IsLiteral(repo, pos)' <=> IsLiteral(r, next)'
    BY <1>1, <2>3 DEF IsLiteral, RefAt
  <2> QED BY <2>1, <2>3, <2>4, <2>5, <2>6 DEF PastFirst
<1>3. CASE pos'.tok = 1
  BY <1>3 DEF PastFirst
<1>4. \/ AtToken /\ pos' = [pos EXCEPT !.tok = @ + 1]
      \/ pos'.tok = 1
  <2>1. [pos EXCEPT !.ref = @ + 1, !.tok = 1].tok = 1
    BY <1>1 DEF Position
  <2>2. CASE SkipUndeclared \/ UseIntraRepo \/ GiveUp \/ NoIndexMatch \/ UseLadder
    BY <2>2 DEF SkipUndeclared, UseIntraRepo, GiveUp, NoIndexMatch, UseLadder, OnLadder, NextToken
  <2>3. CASE UseLiteral \/ TokensDone
    BY <2>1, <2>3 DEF UseLiteral, TokensDone, NextRef
  <2>4. CASE RefsDone
    BY <2>4 DEF RefsDone
  <2> QED BY <2>2, <2>3, <2>4
<1> QED BY <1>2, <1>3, <1>4

\* Each step of the loops over one repository keeps the invariant.
LEMMA LoopEdgeSteps ==
  ASSUME EdgeInv, TypeOK',
         \/ SkipUndeclared \/ UseIntraRepo \/ GiveUp \/ NoIndexMatch \/ UseLadder
         \/ UseLiteral \/ TokensDone \/ RefsDone
  PROVE  EdgeInv'
<1>1. TypeOK /\ world \in World /\ pos \in Position
  BY DEF EdgeInv, TypeOK
<1>2. UNCHANGED <<world, queue, expanded, repo, edges>> /\ AtEnv /\ found = Nothing
  BY DEF SkipUndeclared, UseIntraRepo, GiveUp, NoIndexMatch, UseLadder, UseLiteral, TokensDone,
         RefsDone, OnLadder, AtToken, AtRef, AtEnv
<1>3. repo \in Repos /\ PastFirst'
  BY <1>1, <1>2, PastFirstStep DEF AtEnv, TypeOK
<1>4. CASE SkipUndeclared \/ UseIntraRepo \/ GiveUp \/ NoIndexMatch \/ UseLadder
  <2>1. AtToken /\ pos' = [pos EXCEPT !.tok = @ + 1]
    BY <1>4 DEF SkipUndeclared, UseIntraRepo, GiveUp, NoIndexMatch, UseLadder, OnLadder, NextToken
  <2>2. pos' \in Onward(pos)
    BY <2>1 DEF Onward
  <2>3. pos \in Positions(repo) /\ ~IsLiteral(repo, pos)
    BY <1>1, <2>1, AtPosition
  <2>4. ASSUME NEW at \in Positions(repo), Before(at, pos'), ~Before(at, pos) PROVE at = pos
    <3>1. at \in Position
      BY <1>1, <1>3, InPositions
    <3> QED BY <1>1, <2>1, <2>4, <3>1, Passed
  <2>5. unresolved \subseteq unresolved'
    BY <1>4 DEF SkipUndeclared, UseIntraRepo, GiveUp, NoIndexMatch, UseLadder, Unresolved
  <2>6. CASE SkipUndeclared
    <3>1. found' = Nothing /\ ~IsDeclared(repo, pos)
      BY <1>2, <2>6 DEF SkipUndeclared
    <3> QED BY <1>2, <1>3, <2>2, <2>4, <2>5, <3>1, LoopEdges
  <2>7. CASE GiveUp \/ NoIndexMatch
    <3>1. found' = Nothing
      BY <1>2, <2>7 DEF GiveUp, NoIndexMatch
    <3>2. PICK reason : Unresolved(reason)
      BY <2>7 DEF GiveUp, NoIndexMatch
    <3>3. \E u \in unresolved' : u.repo = repo /\ u.at = pos
      <4> DEFINE u == [repo |-> repo, env |-> EnvAt(pos), at |-> pos, reason |-> reason]
      <4>1. u \in unresolved' /\ u.repo = repo /\ u.at = pos
        BY <3>2 DEF Unresolved
      <4> HIDE DEF u
      <4> QED BY <4>1
    <3> QED BY <1>2, <1>3, <2>2, <2>4, <2>5, <3>1, <3>3, LoopEdges
  <2>8. CASE UseIntraRepo
    <3>1. /\ found' # Nothing /\ found'.at = pos /\ found'.env = EnvAt(pos)
          /\ found'.rung = "intra-repo" /\ found'.candidates = {}
      BY <2>8 DEF UseIntraRepo, Found, Nothing
    <3>2. Sourced(repo, pos, found'.env, found'.rung)
      BY <2>3, <3>1 DEF Sourced
    <3> QED BY <1>2, <1>3, <2>2, <2>4, <2>5, <3>1, <3>2, LoopEdges
  <2>9. CASE UseLadder
    <3>1. /\ found' # Nothing /\ found'.at = pos /\ found'.env = EnvAt(pos)
          /\ found'.rung = Acquisition(repo, pos).rung /\ Acquisition(repo, pos).resolved
          /\ found'.candidates \subseteq {c.repo : c \in found'.cands}
      BY <2>9 DEF UseLadder, Found, Nothing
    <3>2. found'.rung \in {"static", "store_api", "preview_api"}
      BY <3>1, AcquireRung DEF Acquisition
    <3>3. Sourced(repo, pos, found'.env, found'.rung)
      BY <2>3, <3>1, <3>2 DEF Sourced
    <3> QED BY <1>2, <1>3, <2>2, <2>4, <2>5, <3>1, <3>2, <3>3, LoopEdges
  <2> QED BY <1>4, <2>6, <2>7, <2>8, <2>9
<1>5. CASE UseLiteral \/ TokensDone \/ RefsDone
  <2>1. pos' \in Onward(pos)
    BY <1>5 DEF UseLiteral, TokensDone, RefsDone, NextRef, Onward
  <2>2. unresolved \subseteq unresolved'
    BY <1>5 DEF UseLiteral, TokensDone, RefsDone
  <2>3. \A at \in Positions(repo) : Before(at, pos') /\ ~Before(at, pos) => IsLiteral(repo, at)
    BY <1>1, <1>5, RefPassed
  <2>4. CASE found' = Nothing
    BY <1>2, <1>3, <2>1, <2>2, <2>3, <2>4, LoopEdges
  <2>5. CASE found' # Nothing
    <3>1. UseLiteral
      BY <1>2, <1>5, <2>5 DEF TokensDone, RefsDone
    <3>2. /\ found'.at = pos /\ found'.env = EnvAt(pos) /\ found'.rung = "literal"
          /\ found'.cands = LiteralTargets(repo, pos) /\ found'.candidates = {}
      BY <2>5, <3>1 DEF UseLiteral, Found
    <3>3. pos \in Positions(repo) /\ IsLiteral(repo, pos)
      BY <3>1, AtLiteral
    <3>4. Sourced(repo, pos, found'.env, found'.rung)
      BY <3>2, <3>3 DEF Sourced
    <3> QED BY <1>2, <1>3, <2>1, <2>2, <2>3, <3>2, <3>4, LoopEdges
  <2> QED BY <2>4, <2>5
<1> QED BY <1>4, <1>5

\* A step that adds no edge and takes nothing in hand: it may only change
\* which repository the loops are over.
LEMMA QuietEdges ==
  ASSUME EdgeInv, TypeOK', PastFirst', UNCHANGED <<world, found, edges, unresolved>>,
         found # Nothing => repo' = repo /\ pos' = pos,
         expanded \subseteq expanded',
         repo' # NoRepo => repo' \in expanded',
         \A e \in Elements(edges) : e.from = repo' => Before(e.at, pos'),
         \A r \in expanded' : \A at \in Positions(r) :
           (r = repo' => Before(at, pos')) => r \in expanded /\ (r = repo => Before(at, pos))
  PROVE  EdgeInv'
<1>1. TypeOK /\ EdgesSourced /\ HandSourced /\ EvaluatedOnce /\ Fresh /\ Branches /\ PassedRecorded
  BY DEF EdgeInv
<1>2. Elements(edges)' = Elements(edges)
  BY DEF Elements
<1>3. EdgesSourced'
  <2> SUFFICES ASSUME NEW e \in Elements(edges)
               PROVE  (/\ e.from \in expanded
                       /\ e.from = repo => Before(e.at, pos)
                       /\ Sourced(e.from, e.at, e.env, e.rung)
                       /\ e.deployed_ref = DeployedRef(e.from, e.env)
                       /\ e.rung = "literal" => e.of \in LiteralTargets(e.from, e.at))'
    BY <1>2 DEF EdgesSourced
  <2>1. /\ e.from \in expanded'
        /\ Sourced(e.from, e.at, e.env, e.rung)
        /\ e.deployed_ref = DeployedRef(e.from, e.env)
        /\ e.rung = "literal" => e.of \in LiteralTargets(e.from, e.at)
    BY <1>1 DEF EdgesSourced
  <2>2. /\ DeployedRef(e.from, e.env)' = DeployedRef(e.from, e.env)
        /\ LiteralTargets(e.from, e.at)' = LiteralTargets(e.from, e.at)
        /\ Sourced(e.from, e.at, e.env, e.rung)' <=> Sourced(e.from, e.at, e.env, e.rung)
    BY InputOnly, SourcedStays
  <2> QED BY <2>1, <2>2
<1>4. HandSourced'
  <2>1. CASE found = Nothing
    BY <2>1 DEF HandSourced, Nothing
  <2>2. CASE found # Nothing
    <3>1. PICK r, at, env, rung : r = repo /\ at = found.at /\ env = found.env /\ rung = found.rung
      OBVIOUS
    <3>2. /\ Before(at, pos)
          /\ Sourced(r, at, env, rung)
          /\ rung = "literal" => found.cands \subseteq LiteralTargets(r, at)
      BY <1>1, <2>2, <3>1 DEF HandSourced
    <3>3. /\ LiteralTargets(r, at)' = LiteralTargets(r, at)
          /\ Sourced(r, at, env, rung)' <=> Sourced(r, at, env, rung)
      BY InputOnly, SourcedStays
    <3>4. repo' = r /\ pos' = pos /\ found'.at = at /\ found'.env = env /\ found'.rung = rung
          /\ found'.cands = found.cands
      BY <2>2, <3>1
    <3>5. Sourced(repo, found.at, found.env, found.rung)' /\ Before(found.at, pos)'
      BY <3>2, <3>3, <3>4
    <3>6. (found.rung = "literal" => found.cands \subseteq LiteralTargets(repo, found.at))'
      BY <3>2, <3>3, <3>4
    <3> QED BY <3>5, <3>6 DEF HandSourced
  <2> QED BY <2>1, <2>2
<1>5. EvaluatedOnce'
  BY <1>1 DEF EvaluatedOnce
<1>6. Fresh'
  BY <1>1, <1>2 DEF Fresh, Nothing
<1>7. ASSUME NEW r, NEW at, NEW m, HasEdge(r, at, m) \/ Waits(r, at, m)
      PROVE  (HasEdge(r, at, m) \/ Waits(r, at, m))'
  BY <1>2, <1>7 DEF HasEdge, Waits, Nothing
<1>8. Branches'
  BY <1>1, <1>2, <1>7 DEF Branches, Nothing
<1>9. PassedRecorded'
  <2> SUFFICES ASSUME NEW r \in expanded', NEW at \in Positions(r),
                      r = repo' => Before(at, pos'), ~IsLiteral(r, at), IsDeclared(r, at)
               PROVE  (Recorded(r, at) \/ (found # Nothing /\ r = repo /\ at = found.at))'
    BY InputOnly DEF PassedRecorded
  <2>1. Recorded(r, at) \/ (found # Nothing /\ r = repo /\ at = found.at)
    BY <1>1 DEF PassedRecorded
  <2>2. Recorded(r, at)' <=> Recorded(r, at)
    BY <1>2 DEF Recorded
  <2> QED BY <2>1, <2>2 DEF Nothing
<1> QED BY <1>3, <1>4, <1>5, <1>6, <1>8, <1>9 DEF EdgeInv

\* So does each step from one repository to the next.
LEMMA WorklistEdges ==
  ASSUME EdgeInv, TypeOK', Expand \/ Revisit \/ EnvsDone \/ UNCHANGED vars
  PROVE  EdgeInv'
<1>1. /\ TypeOK /\ world \in World /\ pos \in Position /\ expanded \subseteq Repos
      /\ UNCHANGED <<world, found, edges, unresolved>>
  BY DEF EdgeInv, TypeOK, Expand, Revisit, EnvsDone, vars
<1>2. \A e \in Elements(edges) : e.from \in expanded /\ (e.from = repo => Before(e.at, pos))
  BY DEF EdgeInv, EdgesSourced
<1>3. repo # NoRepo => repo \in expanded
  BY DEF EdgeInv, HandSourced
<1>4. CASE Expand
  <2>1. /\ repo = NoRepo /\ repo' = Head(queue) /\ Head(queue) \notin expanded /\ pos' = Start
        /\ expanded' = expanded \cup {Head(queue)} /\ queue \in Seq(Repos) /\ queue # <<>>
    BY <1>1, <1>4 DEF Expand, TypeOK
  <2>2. found = Nothing /\ Head(queue) \in Repos /\ expanded' \subseteq Repos /\ NoRepo \notin expanded
    BY <1>1, <2>1, NoRepoAssumption DEF TypeOK
  <2>3. PastFirst'
    BY <2>1 DEF PastFirst, Start
  <2>4. ASSUME NEW r \in expanded', NEW at \in Positions(r), r = repo' => Before(at, pos')
        PROVE  r \in expanded /\ (r = repo => Before(at, pos))
    <3>1. at \in Position
      BY <1>1, <2>2, InPositions
    <3>2. ~Before(at, Start)
      BY <3>1 DEF Before, Start, Position
    <3> QED BY <2>1, <2>2, <2>4, <3>2
  <2> QED BY <1>1, <1>2, <2>1, <2>2, <2>3, <2>4, QuietEdges
<1>5. CASE EnvsDone
  <2>1. repo # NoRepo /\ repo' = NoRepo /\ found = Nothing /\ pos' = pos /\ expanded' = expanded
        /\ pos.env > Len(world.envs)
    BY <1>5 DEF EnvsDone
  <2>2. NoRepo \notin expanded /\ PastFirst'
    BY <1>1, <2>1, NoRepoAssumption DEF PastFirst
  <2>3. ASSUME NEW r \in expanded', NEW at \in Positions(r) PROVE Before(at, pos)
    <3>1. at \in Position /\ at.env \in DOMAIN world.envs
      BY <1>1, <2>1, InPositions
    <3>2. at.env \in 1 .. Len(world.envs) /\ Len(world.envs) \in Nat
      BY <1>1, <3>1, Inputs, SeqDomain
    <3>3. at.env < pos.env
      BY <1>1, <2>1, <3>2 DEF Position
    <3> QED BY <3>3 DEF Before
  <2> QED BY <1>1, <1>2, <2>1, <2>2, <2>3, QuietEdges
<1>6. CASE Revisit \/ UNCHANGED vars
  <2>1. UNCHANGED <<world, expanded, repo, pos>>
    BY <1>6 DEF Revisit, vars
  <2>2. PastFirst'
    <3>1. PICK r, at : r = repo /\ at = pos
      OBVIOUS
    <3>2. IsLiteral(r, at)' <=> IsLiteral(r, at)
      BY <2>1, InputOnly
    <3>3. IsLiteral(repo, pos)' <=> IsLiteral(r, at)'
      BY <2>1, <3>1 DEF IsLiteral, RefAt
    <3>4. repo # NoRepo /\ pos.tok # 1 => ~IsLiteral(r, at)
      BY <3>1 DEF EdgeInv, PastFirst
    <3> QED BY <2>1, <3>2, <3>3, <3>4 DEF PastFirst
  <2> QED BY <1>1, <1>2, <1>3, <2>1, <2>2, QuietEdges
<1> QED BY <1>4, <1>5, <1>6

\* One candidate becomes an edge; the others stay in hand.
LEMMA AddEdgeEdges ==
  ASSUME EdgeInv, TypeOK', NEW cand \in found.cands, AddEdge(cand)
  PROVE  EdgeInv'
<1> DEFINE new == Edge(cand)
<1>1. /\ TypeOK /\ EdgesSourced /\ HandSourced /\ EvaluatedOnce /\ Fresh /\ Branches
      /\ PassedRecorded /\ PastFirst
  BY DEF EdgeInv
<1>2. /\ found \in FoundType /\ repo \in Repos /\ repo # NoRepo /\ found # Nothing
      /\ UNCHANGED <<world, expanded, repo, pos, unresolved>> /\ repo \in expanded
  BY <1>1, NoRepoAssumption DEF TypeOK, AddEdge, Nothing, HandSourced
<1>3. /\ Before(found.at, pos) /\ Sourced(repo, found.at, found.env, found.rung)
      /\ found.rung = "literal" => found.cands \subseteq LiteralTargets(repo, found.at)
  BY <1>1, <1>2 DEF HandSourced
<1>4. /\ new \in EdgeType /\ new.from = repo /\ new.at = found.at /\ new.env = found.env
      /\ new.rung = found.rung /\ new.of = cand /\ new.to = cand.repo
      /\ new.candidates = found.candidates /\ new.deployed_ref = DeployedRef(repo, found.env)
  BY <1>1, EdgeHasType DEF Edge
<1>5. edges \in Seq(EdgeType) /\ edges' = Append(edges, new)
  BY <1>1 DEF TypeOK, AddEdge
<1> HIDE DEF new
<1>6. Elements(edges)' = Elements(edges) \cup {new} /\ Elements(edges') = Elements(edges) \cup {new}
  <2>1. Elements(edges)' = Elements(edges')
    BY DEF Elements
  <2> QED BY <1>4, <1>5, <2>1, ElementsAppend
<1>7. \/ found' = Nothing /\ found.cands = {cand}
      \/ /\ found' # Nothing /\ found'.cands = found.cands \ {cand}
         /\ found'.at = found.at /\ found'.env = found.env /\ found'.rung = found.rung
         /\ found'.candidates = found.candidates
  <2>1. CASE found.cands = {cand}
    BY <2>1 DEF AddEdge
  <2>2. CASE found.cands # {cand}
    <3>1. found' = [found EXCEPT !.cands = found.cands \ {cand}]
      BY <2>2 DEF AddEdge
    <3>2. /\ found'.cands = found.cands \ {cand}
          /\ found'.at = found.at /\ found'.env = found.env /\ found'.rung = found.rung
          /\ found'.candidates = found.candidates
      BY <1>2, <3>1 DEF FoundType
    <3>3. found'.cands # {}
      BY <2>2, <3>2
    <3> QED BY <3>2, <3>3 DEF Nothing
  <2> QED BY <2>1, <2>2
<1>8. EdgesSourced'
  <2> SUFFICES ASSUME NEW e \in Elements(edges) \cup {new}
               PROVE  (/\ e.from \in expanded
                       /\ e.from = repo => Before(e.at, pos)
                       /\ Sourced(e.from, e.at, e.env, e.rung)
                       /\ e.deployed_ref = DeployedRef(e.from, e.env)
                       /\ e.rung = "literal" => e.of \in LiteralTargets(e.from, e.at))'
    BY <1>6 DEF EdgesSourced
  <2>1. /\ e.from \in expanded
        /\ e.from = repo => Before(e.at, pos)
        /\ Sourced(e.from, e.at, e.env, e.rung)
        /\ e.deployed_ref = DeployedRef(e.from, e.env)
        /\ e.rung = "literal" => e.of \in LiteralTargets(e.from, e.at)
    <3>1. CASE e \in Elements(edges)
      BY <1>1, <3>1 DEF EdgesSourced
    <3>2. CASE e = new
      BY <1>2, <1>3, <1>4, <3>2
    <3> QED BY <3>1, <3>2
  <2>2. /\ DeployedRef(e.from, e.env)' = DeployedRef(e.from, e.env)
        /\ LiteralTargets(e.from, e.at)' = LiteralTargets(e.from, e.at)
        /\ Sourced(e.from, e.at, e.env, e.rung)' <=> Sourced(e.from, e.at, e.env, e.rung)
    BY <1>2, InputOnly, SourcedStays
  <2>3. e.from \in expanded' /\ (e.from = repo' => Before(e.at, pos'))
    BY <1>2, <2>1
  <2> QED BY <2>1, <2>2, <2>3
<1>9. HandSourced'
  <2>1. CASE found' = Nothing
    BY <1>2, <2>1 DEF HandSourced, Nothing
  <2>2. CASE found' # Nothing
    <3>1. PICK r, at, env, rung : r = repo /\ at = found.at /\ env = found.env /\ rung = found.rung
      OBVIOUS
    <3>2. /\ LiteralTargets(r, at)' = LiteralTargets(r, at)
          /\ Sourced(r, at, env, rung)' <=> Sourced(r, at, env, rung)
      BY <1>2, InputOnly, SourcedStays
    <3>3. repo' = r /\ pos' = pos /\ found'.at = at /\ found'.env = env /\ found'.rung = rung
          /\ found'.cands \subseteq found.cands
      BY <1>2, <1>7, <2>2, <3>1
    <3>4. Sourced(repo, found.at, found.env, found.rung)' /\ Before(found.at, pos)'
      BY <1>3, <3>1, <3>2, <3>3
    <3>5. (found.rung = "literal" => found.cands \subseteq LiteralTargets(repo, found.at))'
      BY <1>3, <3>1, <3>2, <3>3
    <3> QED BY <1>2, <3>4, <3>5 DEF HandSourced
  <2> QED BY <2>1, <2>2
<1>10. EvaluatedOnce'
  <2>1. /\ DOMAIN edges' = 1 .. Len(edges) + 1 /\ DOMAIN edges = 1 .. Len(edges) /\ Len(edges) \in Nat
        /\ \A i \in 1 .. Len(edges) : edges'[i] = edges[i]
        /\ edges'[Len(edges) + 1] = new
    BY <1>4, <1>5
  <2>2. ASSUME NEW i \in 1 .. Len(edges), edges[i].from = new.from, edges[i].at = new.at,
               edges[i].of = new.of
        PROVE  FALSE
    <3>1. edges[i] \in Elements(edges)
      BY <2>1 DEF Elements
    <3>2. edges[i].of \notin found.cands
      BY <1>1, <1>2, <1>4, <2>2, <3>1 DEF Fresh
    <3> QED BY <1>4, <2>2, <3>2
  <2>3. ASSUME NEW i \in DOMAIN edges', NEW j \in DOMAIN edges',
               edges'[i].from = edges'[j].from, edges'[i].at = edges'[j].at,
               edges'[i].of = edges'[j].of
        PROVE  i = j
    <3>1. CASE i \in 1 .. Len(edges) /\ j \in 1 .. Len(edges)
      BY <1>1, <2>1, <2>3, <3>1 DEF EvaluatedOnce
    <3>2. CASE i \in 1 .. Len(edges) /\ j = Len(edges) + 1
      BY <2>1, <2>2, <2>3, <3>2
    <3>3. CASE i = Len(edges) + 1 /\ j \in 1 .. Len(edges)
      BY <2>1, <2>2, <2>3, <3>3
    <3> QED BY <2>1, <3>1, <3>2, <3>3
  <2> QED BY <2>3 DEF EvaluatedOnce
<1>11. Fresh'
  <2> SUFFICES ASSUME found' # Nothing, NEW e \in Elements(edges) \cup {new},
                      e.from = repo, e.at = found'.at
               PROVE  e.of \notin found'.cands
    BY <1>2, <1>6 DEF Fresh, Nothing
  <2>1. CASE e \in Elements(edges)
    BY <1>1, <1>2, <1>7, <2>1 DEF Fresh
  <2>2. CASE e = new
    BY <1>4, <1>7, <2>2
  <2> QED BY <2>1, <2>2
<1>12. ASSUME NEW r, NEW at, NEW m, HasEdge(r, at, m) \/ Waits(r, at, m)
       PROVE  (HasEdge(r, at, m) \/ Waits(r, at, m))'
  <2>1. CASE HasEdge(r, at, m)
    BY <1>6, <2>1 DEF HasEdge
  <2>2. CASE Waits(r, at, m)
    <3>1. r = repo /\ at = found.at
      BY <2>2 DEF Waits
    <3>2. PICK d \in found.cands : d.repo = m
      BY <2>2 DEF Waits
    <3>3. CASE d = cand
      BY <1>4, <1>6, <3>1, <3>2, <3>3 DEF HasEdge
    <3>4. CASE d # cand
      <4>1. found' # Nothing /\ d \in found'.cands /\ repo' = r /\ found'.at = at
        BY <1>2, <1>7, <3>1, <3>4
      <4> QED BY <3>2, <4>1 DEF Waits, Nothing
    <3> QED BY <3>3, <3>4
  <2> QED BY <1>12, <2>1, <2>2
<1>13. Branches'
  <2>1. \A e \in Elements(edges) \cup {new} : \A m \in e.candidates :
          HasEdge(e.from, e.at, m) \/ Waits(e.from, e.at, m)
    BY <1>1, <1>2, <1>4 DEF Branches
  <2>2. \A e \in Elements(edges)' : \A m \in e.candidates :
          (HasEdge(e.from, e.at, m) \/ Waits(e.from, e.at, m))'
    BY <1>6, <1>12, <2>1
  <2>3. ASSUME found' # Nothing, NEW m \in found'.candidates
        PROVE  (HasEdge(repo, found.at, m) \/ Waits(repo, found.at, m))'
    <3>1. PICK r, at : r = repo /\ at = found.at
      OBVIOUS
    <3>2. m \in found.candidates /\ repo' = r /\ found'.at = at
      BY <1>2, <1>7, <2>3, <3>1
    <3>3. HasEdge(r, at, m) \/ Waits(r, at, m)
      BY <1>1, <1>2, <3>1, <3>2 DEF Branches
    <3>4. (HasEdge(r, at, m) \/ Waits(r, at, m))'
      BY <1>12, <3>3
    <3> QED BY <3>2, <3>4 DEF HasEdge, Waits
  <2> QED BY <2>2, <2>3 DEF Branches, Nothing
<1>14. PassedRecorded'
  <2> SUFFICES ASSUME NEW r \in expanded, NEW at \in Positions(r),
                      r = repo => Before(at, pos), ~IsLiteral(r, at), IsDeclared(r, at)
               PROVE  Recorded(r, at)'
    BY <1>2, InputOnly DEF PassedRecorded
  <2>1. CASE Recorded(r, at)
    BY <1>2, <1>6, <2>1 DEF Recorded
  <2>2. CASE r = repo /\ at = found.at
    BY <1>4, <1>6, <2>2 DEF Recorded
  <2> QED BY <1>1, <2>1, <2>2 DEF PassedRecorded
<1>15. PastFirst'
  <2>1. PICK r, at : r = repo /\ at = pos
    OBVIOUS
  <2>2. IsLiteral(r, at)' <=> IsLiteral(r, at)
    BY <1>2, InputOnly
  <2>3. IsLiteral(repo, pos)' <=> IsLiteral(r, at)'
    BY <1>2, <2>1 DEF IsLiteral, RefAt
  <2>4. repo # NoRepo /\ pos.tok # 1 => ~IsLiteral(r, at)
    BY <1>1, <2>1 DEF PastFirst
  <2> QED BY <1>2, <2>2, <2>3, <2>4 DEF PastFirst
<1> QED BY <1>8, <1>9, <1>10, <1>11, <1>13, <1>14, <1>15 DEF EdgeInv

\* The invariant behind what is said of the edges.
LEMMA EdgesHold == Spec => []EdgeInv
<1>1. Init /\ TypeOK => EdgeInv
  BY DEF Init, EdgeInv, EdgesSourced, HandSourced, EvaluatedOnce, Fresh, Branches, PassedRecorded,
         PastFirst, Elements
<1>2. EdgeInv /\ TypeOK' /\ [Next]_vars => EdgeInv'
  <2> SUFFICES ASSUME EdgeInv, TypeOK', [Next]_vars PROVE EdgeInv'
    OBVIOUS
  <2>1. CASE Expand \/ Revisit \/ EnvsDone \/ UNCHANGED vars
    BY <2>1, WorklistEdges
  <2>2. CASE \/ SkipUndeclared \/ UseIntraRepo \/ GiveUp \/ NoIndexMatch \/ UseLadder
             \/ UseLiteral \/ TokensDone \/ RefsDone
    BY <2>2, LoopEdgeSteps
  <2>3. ASSUME NEW cand \in found.cands, AddEdge(cand) PROVE EdgeInv'
    BY <2>3, AddEdgeEdges
  <2> QED BY <2>1, <2>2, <2>3 DEF Next
<1> QED BY <1>1, <1>2, Typed, PTL DEF Spec

\* No reference is evaluated twice, however often its repository is queued
\* and however its references lead back to it.
THEOREM Once == Spec => []EvaluatedOnce
<1>1. EdgeInv => EvaluatedOnce
  BY DEF EdgeInv
<1> QED BY <1>1, EdgesHold, PTL

\* An ambiguous reference gets an edge to every one of its candidates.
THEOREM AllCandidates == Spec => []NoAutoPick
<1>1. EdgeInv => NoAutoPick
  BY DEF EdgeInv, Branches, HasEdge, Waits, NoAutoPick
<1> QED BY <1>1, EdgesHold, PTL

\* Every declared token of a repository that the loops have left is an edge
\* or is listed as unresolved.
THEOREM TokensHold == Spec => []TokensAccounted
<1>1. EdgeInv => TokensAccounted
  <2> SUFFICES ASSUME EdgeInv, NEW r \in expanded \ {repo}, NEW at \in Positions(r),
                      ~IsLiteral(r, at), IsDeclared(r, at)
               PROVE  Recorded(r, at)
    BY DEF TokensAccounted
  <2> QED BY DEF EdgeInv, PassedRecorded
<1> QED BY <1>1, EdgesHold, PTL

\* The first variable of a store that applies to a token does apply.
LEMMA FirstFound ==
  ASSUME NEW store \in Store, NEW token, NEW env, FoundIn(store, token, env)
  PROVE  /\ FindInStore(store, token, env) \in Elements(store)
         /\ Applies(FindInStore(store, token, env), token, env)
<1> DEFINE T == {i \in DOMAIN store : Applies(store[i], token, env)}
           First(i) == /\ Applies(store[i], token, env)
                       /\ \A j \in 1 .. i - 1 : ~Applies(store[j], token, env)
<1>1. DOMAIN store = 1 .. Len(store) /\ Len(store) \in Nat
  BY SeqDomain DEF Store
<1>2. T \subseteq Nat /\ T # {}
  BY <1>1 DEF FoundIn
<1>3. PICK i \in T : \A j \in T : i <= j
  BY <1>2, Least
<1>4. \A j \in 1 .. i - 1 : j \in DOMAIN store /\ ~(i <= j)
  BY <1>1
<1>5. First(i)
  BY <1>3, <1>4
<1>6. (CHOOSE k \in DOMAIN store : First(k)) \in DOMAIN store
      /\ First(CHOOSE k \in DOMAIN store : First(k))
  <2> HIDE DEF First
  <2> QED BY <1>5
<1> QED BY <1>6 DEF FindInStore, Elements

\* A value of the stores, or of a rung below them, is only had when none of
\* the variables that apply is a secret, or one that is not comes first.
LEMMA NotSecret ==
  ASSUME NEW token, NEW env, NEW static, NEW stores \in Seq(Store), NEW preview,
         Acquire(token, env, static, stores, preview).resolved,
         Acquire(token, env, static, stores, preview).rung \in {"store_api", "preview_api"},
         \E i \in DOMAIN stores : FoundIn(stores[i], token, env)
  PROVE  \E i \in DOMAIN stores : \E v \in Elements(stores[i]) : Applies(v, token, env) /\ ~v.secret
<1> DEFINE D == Decisive(stores, token, env)
           E(i) == FindInStore(stores[i], token, env)
<1>1. DOMAIN stores = 1 .. Len(stores) /\ Len(stores) \in Nat
      /\ \A i \in DOMAIN stores : stores[i] \in Store
  BY SeqDomain
<1>2. ASSUME NEW i \in DOMAIN stores, FoundIn(stores[i], token, env)
      PROVE  E(i) \in Elements(stores[i]) /\ Applies(E(i), token, env)
  BY <1>1, <1>2, FirstFound
<1>3. static = NoText
  BY DEF Acquire, Acquired
<1>4. CASE D = {}
  <2>1. PICK i \in DOMAIN stores : FoundIn(stores[i], token, env)
    OBVIOUS
  <2>2. ~E(i).secret
    BY <1>4, <2>1 DEF Decisive
  <2> QED BY <1>2, <2>1, <2>2
<1>5. CASE D # {}
  <2> DEFINE i == CHOOSE i \in D : \A j \in D : i <= j
  <2>1. D \subseteq DOMAIN stores /\ D \subseteq Nat
    BY <1>1 DEF Decisive
  <2>2. i \in D
    BY <1>5, <2>1, Least
  <2>3. FoundIn(stores[i], token, env) /\ i \in DOMAIN stores
    BY <2>2 DEF Decisive
  <2>4. Acquire(token, env, static, stores, preview) = FromStores(stores, token, env)
    BY <1>3, <1>5 DEF Acquire
  <2>5. ~E(i).secret
    BY <2>4 DEF FromStores, Missing
  <2> HIDE DEF i, E
  <2> QED BY <1>2, <2>3, <2>5
<1> QED BY <1>4, <1>5

\* A token that the stores know only as a secret makes no edge, whatever the
\* stores and the rungs below them hold.
THEOREM SecretsMakeNoEdge == Spec => []SecretFloor
<1>1. EdgeInv => SecretFloor
  <2> SUFFICES ASSUME EdgeInv, NEW e \in Elements(edges), e.rung \in {"store_api", "preview_api"},
                      Applicable(e.from, e.at) # {}
               PROVE  \E v \in Applicable(e.from, e.at) : ~v.secret
    BY DEF SecretFloor
  <2> DEFINE token == TokenAt(e.from, e.at)
             env == EnvAt(e.at)
             stores == world.stores[NameOf[e.from]]
  <2>1. Acquisition(e.from, e.at).resolved /\ Acquisition(e.from, e.at).rung = e.rung
        /\ e.from \in Repos
    BY DEF EdgeInv, EdgesSourced, Sourced, TypeOK
  <2>2. stores \in Seq(Store)
    <3>1. world.stores \in [Names -> Seq(Store)]
      BY DEF EdgeInv, TypeOK, World
    <3> QED BY <2>1, <3>1, NamesAssumption
  <2>3. Applicable(e.from, e.at) =
          {v \in UNION {Elements(store) : store \in Elements(stores)} : Applies(v, token, env)}
    BY DEF Applicable
  <2>4. \E i \in DOMAIN stores : FoundIn(stores[i], token, env)
    <3>1. PICK i \in DOMAIN stores : \E v \in Elements(stores[i]) : Applies(v, token, env)
      BY <2>3 DEF Elements
    <3> QED BY <3>1 DEF Elements, FoundIn
  <2>5. \E i \in DOMAIN stores : \E v \in Elements(stores[i]) : Applies(v, token, env) /\ ~v.secret
    <3>1. \E static, preview : Acquisition(e.from, e.at) = Acquire(token, env, static, stores, preview)
      BY DEF Acquisition
    <3> HIDE DEF token, env, stores
    <3> QED BY <2>1, <2>2, <2>4, <3>1, NotSecret
  <2>6. \A i \in DOMAIN stores : stores[i] \in Elements(stores)
    BY DEF Elements
  <2> HIDE DEF token, env, stores
  <2> QED BY <2>3, <2>5, <2>6
<1> QED BY <1>1, EdgesHold, PTL

\* Every edge is found in the tree of the very commit that it names.
THEOREM FoundWhereDeployed == Spec => []FromDeployedRef
<1>1. EdgeInv => FromDeployedRef
  <2> SUFFICES ASSUME EdgeInv, NEW e \in Elements(edges)
               PROVE  LET refs == world.refs[NameOf[e.from]][e.deployed_ref]
                      IN  /\ e.at.ref \in DOMAIN refs
                          /\ IF e.rung = "literal"
                             THEN refs[e.at.ref].tokens = <<>>
                                    /\ e.of \in Lookup(world.index, refs[e.at.ref].raw, e.env)
                             ELSE e.at.tok \in DOMAIN refs[e.at.ref].tokens
    BY DEF FromDeployedRef
  <2> DEFINE refs == world.refs[NameOf[e.from]][e.deployed_ref]
  <2>1. /\ e.from \in Repos /\ world \in World
        /\ Sourced(e.from, e.at, e.env, e.rung)
        /\ e.deployed_ref = DeployedRef(e.from, e.env)
        /\ e.rung = "literal" => e.of \in LiteralTargets(e.from, e.at)
    BY DEF EdgeInv, EdgesSourced, TypeOK
  <2>2. e.at \in Positions(e.from) /\ e.env = EnvAt(e.at) /\ (e.rung = "literal" <=> IsLiteral(e.from, e.at))
    BY <2>1 DEF Sourced
  <2>3. refs = Refs(e.from, EnvAt(e.at))
    BY <2>1, <2>2 DEF Refs
  <2> HIDE DEF refs
  <2>4. /\ e.at.ref \in DOMAIN refs
        /\ e.at.tok \in 1 .. (IF IsLiteral(e.from, e.at) THEN 1 ELSE Len(RefAt(e.from, e.at).tokens))
    BY <2>1, <2>2, <2>3, InPositions
  <2>5. RefAt(e.from, e.at) = refs[e.at.ref]
    BY <2>3 DEF RefAt
  <2>6. CASE e.rung = "literal"
    <3>1. refs[e.at.ref].tokens = <<>>
      BY <2>2, <2>5, <2>6 DEF IsLiteral
    <3>2. e.of \in Lookup(world.index, refs[e.at.ref].raw, e.env)
      BY <2>1, <2>2, <2>5, <2>6 DEF LiteralTargets
    <3> QED BY <2>4, <2>6, <3>1, <3>2 DEF refs
  <2>7. CASE e.rung # "literal"
    <3>1. refs[e.at.ref].tokens \in Seq(Tokens)
      <4>1. refs \in Seq(ConsumerRef)
        BY <2>1, <2>3, RefsType
      <4>2. refs[e.at.ref] \in ConsumerRef
        BY <2>4, <4>1, SeqDomain
      <4> QED BY <4>2 DEF ConsumerRef
    <3>2. e.at.tok \in DOMAIN refs[e.at.ref].tokens
      BY <2>2, <2>4, <2>5, <2>7, <3>1, SeqDomain
    <3> QED BY <2>4, <2>7, <3>2 DEF refs
  <2> QED BY <2>6, <2>7
<1> QED BY <1>1, EdgesHold, PTL
=============================================================================
