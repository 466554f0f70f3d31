-------------------------- MODULE DeployPlaneProofs --------------------------
(***************************************************************************)
(* Proofs about the deploy plane: that a ref is one of its environment,    *)
(* and a value that of a variable for it, whatever the server does         *)
(* between two requests, and that the owners are told from all evidence.   *)
(***************************************************************************)
EXTENDS DeployPlane, FiniteSetTheorems, WellFoundedInduction, TLAPS

-----------------------------------------------------------------------------
(***************************************************************************)
(* The server.                                                             *)
(***************************************************************************)
WalkType ==
  [at : {"idle", "deployments", "release", "information"}, env : Envs \cup {NoEnv},
   release : Nat, during : SUBSET Nat]

\* What the server knows is of the right type: what was deployed are releases.
ServerOK ==
  /\ world \in Setting
  /\ releases \in Seq(Kind)
  /\ deployed \in [Envs -> Seq(Nat)]
  /\ \A e \in Envs : \A i \in DOMAIN deployed[e] : deployed[e][i] \in DOMAIN releases

\* So is where the walk stands.
WalkOK == walk \in WalkType /\ (walk.at # "idle" => walk.env \in Envs)

\* The type invariant: the cache itself is the subject of CacheInv.
TypeOK == ServerOK /\ WalkOK /\ DOMAIN cache = Envs

\* What an appended entry leaves as it was.
LEMMA AppendFacts ==
  ASSUME NEW S, NEW s \in Seq(S), NEW x \in S
  PROVE  /\ Append(s, x) \in Seq(S)
         /\ DOMAIN s = 1 .. Len(s) /\ Len(s) \in Nat
         /\ DOMAIN Append(s, x) = 1 .. Len(s) + 1 /\ Len(Append(s, x)) = Len(s) + 1
         /\ \A i \in DOMAIN s : Append(s, x)[i] = s[i]
         /\ Append(s, x)[Len(s) + 1] = x
OBVIOUS

\* The release that is current is one that was deployed.
LEMMA LatestIsDeployed ==
  ServerOK => \A e \in Envs : Latest(e) \subseteq DOMAIN releases /\ Latest(e) \subseteq Nat
<1> SUFFICES ASSUME ServerOK, NEW e \in Envs
             PROVE  Latest(e) \subseteq DOMAIN releases /\ Latest(e) \subseteq Nat
  OBVIOUS
<1>1. deployed[e] \in Seq(Nat) /\ \A i \in DOMAIN deployed[e] : deployed[e][i] \in DOMAIN releases
  BY DEF ServerOK
<1>2. \A i \in {Len(deployed[e])} \ {0} : i \in DOMAIN deployed[e] /\ deployed[e][i] \in Nat
  BY <1>1
<1> QED BY <1>1, <1>2 DEF Latest

\* What happens on the server is noted during a walk, and nothing else is.
LEMMA Changes ==
  ASSUME ServerOK', WalkOK, NEW what, Change(what)
  PROVE  /\ WalkOK' /\ UNCHANGED <<asked, bindings, cache, said>>
         /\ walk'.at = walk.at /\ walk'.env = walk.env /\ walk'.release = walk.release
         /\ walk.during \subseteq walk'.during
         /\ \A e \in Envs \cap {walk.env} : Latest(e)' \subseteq walk'.during
<1> DEFINE more == UNION {Latest(e)' : e \in Envs \cap {walk.env}}
<1>1. more \in SUBSET Nat
  <2>1. (ServerOK => \A e \in Envs : Latest(e) \subseteq DOMAIN releases /\ Latest(e) \subseteq Nat)'
    BY LatestIsDeployed, PTL
  <2> QED BY <2>1
<1>2. \A e \in Envs \cap {walk.env} : Latest(e)' \subseteq more
  OBVIOUS
<1>3. walk' = [walk EXCEPT !.during = @ \cup more] /\ UNCHANGED <<asked, bindings, cache, said>>
  BY DEF Change
<1> HIDE DEF more
<1>4. /\ walk' \in WalkType
      /\ walk'.at = walk.at /\ walk'.env = walk.env /\ walk'.release = walk.release
      /\ walk'.during = walk.during \cup more
  <2>1. walk \in WalkType /\ walk.during \cup more \in SUBSET Nat
    BY <1>1 DEF WalkOK, WalkType
  <2>2. \A d \in SUBSET Nat :
          /\ [walk EXCEPT !.during = d] \in WalkType
          /\ [walk EXCEPT !.during = d].at = walk.at
          /\ [walk EXCEPT !.during = d].env = walk.env
          /\ [walk EXCEPT !.during = d].release = walk.release
          /\ [walk EXCEPT !.during = d].during = d
    BY <2>1 DEF WalkType
  <2>3. walk' = [walk EXCEPT !.during = walk.during \cup more]
    BY <1>3
  <2> QED BY <2>1, <2>2, <2>3
<1>5. WalkOK'
  BY <1>4 DEF WalkOK
<1> QED BY <1>2, <1>3, <1>4, <1>5

\* A bound that is spent leaves everything else of the world.
LEMMA Spending ==
  ASSUME world \in Setting, NEW what \in DOMAIN world.left, Spend(what)
  PROVE  world' \in Setting /\ world'.parameters = world.parameters
<1>1. world.left \in Bounded /\ world.left[what] \in Nat /\ world.left[what] > 0
  BY DEF Setting, Bounded, Spend
<1>2. [world.left EXCEPT ![what] = @ - 1] \in Bounded
  <2>1. world.left[what] - 1 \in Nat
    BY <1>1
  <2>2. \A n \in Nat : [world.left EXCEPT ![what] = n] \in Bounded
    BY <1>1 DEF Bounded
  <2> QED BY <2>1, <2>2
<1>3. world' = [world EXCEPT !.left = [world.left EXCEPT ![what] = @ - 1]]
  BY DEF Spend
<1>4. \A l \in Bounded : /\ [world EXCEPT !.left = l] \in Setting
                         /\ [world EXCEPT !.left = l].parameters = world.parameters
  BY DEF Setting
<1> QED BY <1>2, <1>3, <1>4

\* A server that goes on stays well-formed.
LEMMA ServerSteps ==
  ASSUME ServerOK,
         \/ \E kind \in Kind : Release(kind)
         \/ \E e \in Envs, r \in DOMAIN releases : Deploy(e, r)
         \/ \E v \in Variables : AddVariable(v)
  PROVE  /\ ServerOK'
         /\ DOMAIN releases \subseteq DOMAIN releases'
         /\ \A r \in DOMAIN releases : releases'[r] = releases[r]
         /\ world'.parameters = world.parameters
         /\ \E what : Change(what)
<1>1. world \in Setting /\ releases \in Seq(Kind) /\ deployed \in [Envs -> Seq(Nat)]
  BY DEF ServerOK
<1>2. DOMAIN world.left = {"releases", "deployments", "variables", "builds"}
  BY <1>1 DEF Setting, Bounded
<1>3. \A e \in Envs : \A i \in DOMAIN deployed[e] : deployed[e][i] \in DOMAIN releases
  BY DEF ServerOK
<1>4. ASSUME NEW kind \in Kind, Release(kind)
      PROVE  /\ ServerOK'
             /\ DOMAIN releases \subseteq DOMAIN releases'
             /\ \A r \in DOMAIN releases : releases'[r] = releases[r]
             /\ world'.parameters = world.parameters
             /\ \E what : Change(what)
  <2>1. Change("releases") /\ Spend("releases") /\ releases' = Append(releases, kind)
        /\ deployed' = deployed
    BY <1>4 DEF Release, Change
  <2>2. world' \in Setting /\ world'.parameters = world.parameters
    BY <1>1, <1>2, <2>1, Spending
  <2>3. /\ releases' \in Seq(Kind) /\ DOMAIN releases \subseteq DOMAIN releases'
        /\ \A r \in DOMAIN releases : releases'[r] = releases[r]
    BY <1>1, <2>1, AppendFacts
  <2> QED BY <1>1, <1>3, <2>1, <2>2, <2>3 DEF ServerOK
<1>5. ASSUME NEW e \in Envs, NEW r \in DOMAIN releases, Deploy(e, r)
      PROVE  /\ ServerOK'
             /\ DOMAIN releases \subseteq DOMAIN releases'
             /\ \A q \in DOMAIN releases : releases'[q] = releases[q]
             /\ world'.parameters = world.parameters
             /\ \E what : Change(what)
  <2>1. Change("deployments") /\ Spend("deployments") /\ releases' = releases
        /\ deployed' = [deployed EXCEPT ![e] = Append(@, r)]
    BY <1>5 DEF Deploy, Change
  <2>2. world' \in Setting /\ world'.parameters = world.parameters
    BY <1>1, <1>2, <2>1, Spending
  <2>3. r \in Nat
    BY <1>1
  <2>4. deployed[e] \in Seq(Nat)
    BY <1>1
  <2>5. /\ Append(deployed[e], r) \in Seq(Nat)
        /\ \A i \in DOMAIN Append(deployed[e], r) :
             Append(deployed[e], r)[i] \in DOMAIN releases
    <3>1. \A i \in 1 .. Len(deployed[e]) + 1 : i \in 1 .. Len(deployed[e]) \/ i = Len(deployed[e]) + 1
      BY <2>4
    <3> QED BY <1>3, <2>3, <2>4, <3>1, AppendFacts
  <2>6. /\ deployed' \in [Envs -> Seq(Nat)]
        /\ \A f \in Envs : \A i \in DOMAIN deployed'[f] : deployed'[f][i] \in DOMAIN releases
    BY <1>1, <1>3, <2>1, <2>5
  <2> QED BY <1>1, <2>1, <2>2, <2>6 DEF ServerOK
<1>6. ASSUME NEW v \in Variables, AddVariable(v)
      PROVE  /\ ServerOK'
             /\ DOMAIN releases \subseteq DOMAIN releases'
             /\ \A r \in DOMAIN releases : releases'[r] = releases[r]
             /\ world'.parameters = world.parameters
             /\ \E what : Change(what)
  <2>1. Change("variables") /\ Spend("variables") /\ UNCHANGED <<releases, deployed>>
    BY <1>6 DEF AddVariable, Change
  <2>2. world' \in Setting /\ world'.parameters = world.parameters
    BY <1>1, <1>2, <2>1, Spending
  <2> QED BY <1>1, <1>3, <2>1, <2>2 DEF ServerOK
<1> QED BY <1>4, <1>5, <1>6

\* Everything else leaves the server alone, but for the bound on builds.
Client ==
  \/ \E provider \in Provider : Discover(provider)
  \/ Attribute
  \/ \E e \in Envs : Walk(e) \/ Resolve(e) \/ ResolveAnew(e) \/ AcquireValue(e)
  \/ WalkDeployments \/ WalkRelease \/ WalkInformation
  \/ NewBuild
  \/ UNCHANGED vars

\* None of its steps touches what the server holds.
LEMMA ClientSteps ==
  ASSUME ServerOK, Client
  PROVE  /\ ServerOK' /\ UNCHANGED <<releases, deployed, variables>>
         /\ world'.parameters = world.parameters
<1>1. world \in Setting
  BY DEF ServerOK
<1>2. CASE NewBuild
  <2>1. "builds" \in DOMAIN world.left
    BY <1>1 DEF Setting, Bounded
  <2>2. world' \in Setting /\ world'.parameters = world.parameters
        /\ UNCHANGED <<releases, deployed, variables>>
    BY <1>1, <1>2, <2>1, Spending DEF NewBuild
  <2> QED BY <2>2 DEF ServerOK
<1>3. CASE ~NewBuild
  <2>1. UNCHANGED server
    BY <1>3 DEF Client, vars, Discover, Attribute, Walk, Resolve, ResolveAnew, AcquireValue,
           WalkDeployments, WalkRelease, WalkInformation
  <2> QED BY <2>1 DEF server, ServerOK
<1> QED BY <1>2, <1>3

\* Every step keeps the types.
LEMMA TypeStep == TypeOK /\ [Next]_vars => TypeOK'
<1> SUFFICES ASSUME TypeOK, [Next]_vars PROVE TypeOK'
  OBVIOUS
<1>1. ServerOK /\ WalkOK /\ walk \in WalkType /\ DOMAIN cache = Envs
  BY DEF TypeOK, WalkOK
<1>2. CASE \/ \E kind \in Kind : Release(kind)
           \/ \E e \in Envs, r \in DOMAIN releases : Deploy(e, r)
           \/ \E v \in Variables : AddVariable(v)
  <2>1. ServerOK' /\ \E what : Change(what)
    BY <1>1, <1>2, ServerSteps
  <2>2. WalkOK' /\ cache' = cache
    BY <1>1, <2>1, Changes
  <2> QED BY <1>1, <2>1, <2>2 DEF TypeOK
<1>3. CASE Client
  <2>1. ServerOK'
    BY <1>1, <1>3, ClientSteps
  <2>2. WalkOK'
    <3>1. CASE walk' = walk
      BY <1>1, <3>1 DEF WalkOK
    <3>2. CASE walk' = NoWalk
      BY <3>2 DEF WalkOK, WalkType, NoWalk
    <3>3. ASSUME NEW e \in Envs, Walk(e) PROVE WalkOK'
      <4>1. Latest(e) \subseteq Nat
        BY <1>1, LatestIsDeployed
      <4> QED BY <3>3, <4>1 DEF Walk, WalkOK, WalkType
    <3>4. CASE WalkDeployments /\ walk' # NoWalk
      <4>1. PICK r \in Latest(walk.env) : walk' = [walk EXCEPT !.at = "release", !.release = r]
        BY <3>4 DEF WalkDeployments, NoAnswer, Answered
      <4>2. walk.env \in Envs /\ r \in Nat
        BY <1>1, <3>4, <4>1, LatestIsDeployed DEF WalkOK, WalkDeployments
      <4>3. \A n \in Nat : /\ [walk EXCEPT !.at = "release", !.release = n] \in WalkType
                           /\ [walk EXCEPT !.at = "release", !.release = n].env = walk.env
        BY <1>1 DEF WalkType
      <4> QED BY <4>1, <4>2, <4>3 DEF WalkOK
    <3>5. CASE WalkRelease /\ walk' # NoWalk
      <4>1. walk' = [walk EXCEPT !.at = "information"] /\ walk.at = "release"
        BY <3>5 DEF WalkRelease, NoAnswer, Found, Answered
      <4>2. walk' \in WalkType /\ walk'.env = walk.env
        BY <1>1, <4>1 DEF WalkType
      <4> QED BY <1>1, <4>1, <4>2 DEF WalkOK
    <3>6. CASE WalkInformation
      <4>1. walk' = NoWalk
        BY <3>6 DEF WalkInformation, NoAnswer, Found, Answered
      <4> QED BY <3>2, <4>1
    <3> QED BY <1>3, <3>1, <3>2, <3>3, <3>4, <3>5, <3>6
            DEF Client, vars, client, Discover, Attribute, Resolve, ResolveAnew, AcquireValue, NewBuild
  <2>3. DOMAIN cache' = Envs
    BY <1>1, <1>3
       DEF Client, vars, client, Discover, Attribute, Walk, Resolve, ResolveAnew, AcquireValue,
           WalkDeployments, WalkRelease, WalkInformation, NewBuild
  <2> QED BY <2>1, <2>2, <2>3 DEF TypeOK
<1> QED BY <1>2, <1>3 DEF Next, Client

\* The server, the walk and the cache are well typed for every world, and what was
\* deployed are releases (OctopusProvider, DeployedRefResolver).
THEOREM Typed == Spec => []TypeOK
<1>1. Init => TypeOK
  BY WorldsAssumption DEF Init, TypeOK, ServerOK, WalkOK, WalkType, NoWalk
<1> QED BY <1>1, TypeStep, PTL DEF Spec

-----------------------------------------------------------------------------
(***************************************************************************)
(* The walk.                                                               *)
(***************************************************************************)
\* Some release does not carry its build information, and never will.
Untold == \E r \in DOMAIN releases : releases[r] # "inline"

\* The release that the walk follows was current when it was read or since,
\* and only a release that carries nothing makes it ask the endpoint.
WalkInv ==
  /\ TypeOK
  /\ walk.at = "deployments" => Latest(walk.env) \subseteq walk.during
  /\ walk.at \in {"release", "information"} =>
       walk.release \in DOMAIN releases /\ walk.release \in walk.during
  /\ walk.at = "information" => Untold
  /\ said.what = "ref" /\ said.ref # NoRef => said.ref.release \in said.during \/ Untold

\* What is neither the server's nor the walk's.
Others ==
  \/ \E provider \in Provider : Discover(provider)
  \/ Attribute
  \/ \E e \in Envs : Resolve(e) \/ ResolveAnew(e) \/ AcquireValue(e)
  \/ NewBuild
  \/ UNCHANGED vars

\* They leave the walk, and say nothing about a ref.
LEMMA OtherSteps ==
  ASSUME Others
  PROVE  UNCHANGED walk /\ (UNCHANGED said \/ said'.what # "ref")
<1>1. CASE \E provider \in Provider : Discover(provider)
  BY <1>1 DEF Discover, Nothing
<1>2. CASE Attribute
  BY <1>2 DEF Attribute
<1>3. CASE \E e \in Envs : Resolve(e) \/ ResolveAnew(e)
  BY <1>3 DEF Resolve, ResolveAnew, Say
<1>4. CASE \E e \in Envs : AcquireValue(e)
  BY <1>4 DEF AcquireValue
<1>5. CASE NewBuild \/ UNCHANGED vars
  BY <1>5 DEF NewBuild, Nothing, vars, client
<1> QED BY <1>1, <1>2, <1>3, <1>4, <1>5 DEF Others

\* The walk stays with a release that was current, also while the server goes on.
LEMMA WalkSteps == WalkInv /\ TypeOK' /\ [Next]_vars => WalkInv'
<1> SUFFICES ASSUME WalkInv, TypeOK', [Next]_vars PROVE WalkInv'
  OBVIOUS
<1>1. /\ ServerOK /\ WalkOK /\ walk \in WalkType
      /\ walk.at = "deployments" => Latest(walk.env) \subseteq walk.during
      /\ walk.at \in {"release", "information"} =>
           walk.release \in DOMAIN releases /\ walk.release \in walk.during
      /\ walk.at = "information" => Untold
      /\ said.what = "ref" /\ said.ref # NoRef => said.ref.release \in said.during \/ Untold
  BY DEF WalkInv, TypeOK, WalkOK
<1>2. CASE \/ \E kind \in Kind : Release(kind)
           \/ \E e \in Envs, r \in DOMAIN releases : Deploy(e, r)
           \/ \E v \in Variables : AddVariable(v)
  <2>1. /\ ServerOK' /\ \E what : Change(what)
        /\ DOMAIN releases \subseteq DOMAIN releases'
        /\ \A r \in DOMAIN releases : releases'[r] = releases[r]
    BY <1>1, <1>2, ServerSteps
  <2>2. /\ WalkOK' /\ said' = said
        /\ walk'.at = walk.at /\ walk'.env = walk.env /\ walk'.release = walk.release
        /\ walk.during \subseteq walk'.during
        /\ \A e \in Envs \cap {walk.env} : Latest(e)' \subseteq walk'.during
    BY <1>1, <2>1, Changes
  <2>3. Untold => Untold'
    BY <2>1 DEF Untold
  <2>4. walk'.at = "deployments" => Latest(walk.env)' \subseteq walk'.during
    <3> SUFFICES ASSUME walk'.at = "deployments" PROVE Latest(walk.env)' \subseteq walk'.during
      OBVIOUS
    <3>1. PICK e \in Envs : e = walk.env
      BY <1>1, <2>2 DEF WalkOK
    <3>2. Latest(e)' \subseteq walk'.during
      BY <2>2, <3>1
    <3>3. Latest(walk.env)' = Latest(e)'
      BY <2>2, <3>1 DEF Latest
    <3> QED BY <3>2, <3>3
  <2> QED BY <1>1, <2>1, <2>2, <2>3, <2>4 DEF WalkInv
<1>3. CASE Client
  <2>1. UNCHANGED <<releases, deployed>>
    BY <1>1, <1>3, ClientSteps
  <2>2. Untold' <=> Untold
    BY <2>1 DEF Untold
  <2>3. CASE UNCHANGED walk /\ (UNCHANGED said \/ said'.what # "ref")
    <3>1. walk.at = "deployments" => Latest(walk.env)' = Latest(walk.env)
      BY <2>1, <2>3 DEF Latest
    <3> QED BY <1>1, <2>1, <2>2, <2>3, <3>1 DEF WalkInv
  <2>4. ASSUME NEW e \in Envs, Walk(e) PROVE WalkInv'
    <3>1. walk' = [at |-> "deployments", env |-> e, release |-> 0, during |-> Latest(e)]
          /\ said' = Nothing
      BY <2>4 DEF Walk
    <3>2. Latest(walk.env)' = Latest(e)
      BY <2>1, <3>1 DEF Latest
    <3> QED BY <3>1, <3>2 DEF WalkInv, Nothing
  <2>5. ASSUME walk' = NoWalk, said'.ref = NoRef \/ said'.ref.release \in walk.during \/ Untold,
               said'.during = walk.during
        PROVE  WalkInv'
    BY <2>2, <2>5 DEF WalkInv, NoWalk
  <2>6. NoAnswer => walk' = NoWalk /\ said'.ref = NoRef /\ said'.during = walk.during
    BY DEF NoAnswer, Answered
  <2>7. \A r : Found(r) => walk' = NoWalk /\ said'.ref.release = r /\ said'.during = walk.during
    BY DEF Found, Answered, Ref
  <2>8. CASE WalkDeployments
    <3>1. CASE NoAnswer
      BY <2>5, <2>6, <3>1
    <3>2. CASE ~NoAnswer
      <4>1. PICK r \in Latest(walk.env) : walk' = [walk EXCEPT !.at = "release", !.release = r]
        BY <2>8, <3>2 DEF WalkDeployments
      <4>2. said' = said /\ walk.at = "deployments"
        BY <2>8, <3>2 DEF WalkDeployments
      <4>3. r \in DOMAIN releases /\ r \in walk.during
        BY <1>1, <4>1, <4>2, LatestIsDeployed DEF WalkOK
      <4>4. walk'.at = "release" /\ walk'.release = r /\ walk'.during = walk.during
        BY <1>1, <4>1 DEF WalkType
      <4> QED BY <1>1, <2>1, <2>2, <4>2, <4>3, <4>4 DEF WalkInv
    <3> QED BY <3>1, <3>2
  <2>9. CASE WalkRelease
    <3>1. walk.at = "release"
      BY <2>9 DEF WalkRelease
    <3>2. CASE NoAnswer
      BY <2>5, <2>6, <3>2
    <3>3. CASE Found(walk.release)
      BY <1>1, <2>5, <2>7, <3>1, <3>3
    <3>4. CASE ~NoAnswer /\ ~Found(walk.release)
      <4>1. walk' = [walk EXCEPT !.at = "information"] /\ said' = said
            /\ releases[walk.release] # "inline"
        BY <2>9, <3>4 DEF WalkRelease
      <4>2. walk'.at = "information" /\ walk'.release = walk.release /\ walk'.during = walk.during
        BY <1>1, <4>1 DEF WalkType
      <4>3. Untold
        BY <1>1, <3>1, <4>1 DEF Untold
      <4> QED BY <1>1, <2>1, <2>2, <3>1, <4>1, <4>2, <4>3 DEF WalkInv
    <3> QED BY <3>2, <3>3, <3>4
  <2>10. CASE WalkInformation
    <3>1. Untold
      BY <1>1, <2>10 DEF WalkInformation
    <3>2. walk' = NoWalk /\ said'.during = walk.during
      BY <2>6, <2>7, <2>10 DEF WalkInformation
    <3> QED BY <2>5, <3>1, <3>2
  <2>11. Others => UNCHANGED walk /\ (UNCHANGED said \/ said'.what # "ref")
    BY OtherSteps
  <2> QED BY <1>3, <2>3, <2>4, <2>8, <2>9, <2>10, <2>11 DEF Client, Others
<1> QED BY <1>2, <1>3 DEF Next, Client

\* A ref that the walk finds was current in its environment during the call,
\* whatever is released and deployed between its requests.
THEOREM FoundWhileDeployed == Spec => []RefIsDeployed
<1>1. Init /\ TypeOK => WalkInv
  BY DEF Init, WalkInv, NoWalk, Nothing
<1>2. WalkInv => RefIsDeployed
  BY DEF WalkInv, RefIsDeployed, Untold
<1> QED BY <1>1, <1>2, WalkSteps, Typed, PTL DEF Spec

-----------------------------------------------------------------------------
(***************************************************************************)
(* The resolver.                                                           *)
(***************************************************************************)
\* What the records say now is among what they said during the build, and so
\* is what is remembered.
CacheInv ==
  /\ DOMAIN cache = Envs
  /\ \A e \in Envs : FromDeployments(e) \in current[e]
  /\ RefsOfThisBuild

\* What is said of a deployment is remembered with it, and a new build forgets both.
LEMMA CacheSteps == CacheInv /\ ServerOK /\ ServerOK' /\ [Next]_vars => CacheInv'
<1> SUFFICES ASSUME CacheInv, ServerOK, ServerOK', [Next]_vars PROVE CacheInv'
  OBVIOUS
<1>1. /\ DOMAIN cache = Envs
      /\ \A e \in Envs : FromDeployments(e) \in current[e] /\ cache[e] \in current[e] \cup {NoRef}
      /\ said.what = "record" => said.ref = NoRef \/ said.ref = cache[said.env]
  BY DEF CacheInv, RefsOfThisBuild
<1>2. CASE \/ \E kind \in Kind : Release(kind)
           \/ \E e \in Envs, r \in DOMAIN releases : Deploy(e, r)
           \/ \E v \in Variables : AddVariable(v)
  <2>1. PICK what : Change(what)
    BY <1>2, ServerSteps
  <2>2. /\ current' = [e \in Envs |-> current[e] \cup {FromDeployments(e)'}]
        /\ UNCHANGED <<cache, said>>
    BY <2>1 DEF Change
  <2> QED BY <1>1, <2>2 DEF CacheInv, RefsOfThisBuild
<1>3. CASE Client
  <2>1. \A e : FromDeployments(e)' = FromDeployments(e)
    <3>1. UNCHANGED <<releases, deployed>>
      BY <1>3, ClientSteps
    <3> QED BY <3>1 DEF FromDeployments, RefOf
  <2>2. CASE NewBuild
    <3>1. /\ current' = [e \in Envs |-> {FromDeployments(e)}] /\ cache' = [e \in Envs |-> NoRef]
          /\ said' = Nothing
      BY <2>2 DEF NewBuild
    <3> QED BY <2>1, <3>1 DEF CacheInv, RefsOfThisBuild, Nothing
  <2>3. ASSUME NEW e \in Envs, Resolve(e) \/ ResolveAnew(e) PROVE CacheInv'
    <3>1. PICK ref \in {cache[e], FromDeployments(e)} :
            /\ cache' = [cache EXCEPT ![e] = ref] \/ (ref = NoRef /\ cache' = cache)
            /\ said' = [what |-> "record", env |-> e, ref |-> ref]
      BY <2>3 DEF Resolve, ResolveAnew, Say
    <3>2. current' = current
      BY <2>3 DEF Resolve, ResolveAnew
    <3>3. ref \in current[e] \cup {NoRef}
      BY <1>1, <3>1
    <3>4. DOMAIN cache' = Envs /\ \A f \in Envs : cache'[f] = (IF f = e THEN ref ELSE cache[f]) \/ cache'[f] = cache[f]
      BY <1>1, <3>1
    <3>5. ref = NoRef \/ ref = cache'[e]
      BY <1>1, <3>1
    <3> QED BY <1>1, <2>1, <3>1, <3>2, <3>3, <3>4, <3>5 DEF CacheInv, RefsOfThisBuild
  <2>4. CASE UNCHANGED <<cache, current>> /\ (UNCHANGED said \/ said'.what # "record")
    BY <1>1, <2>1, <2>4 DEF CacheInv, RefsOfThisBuild
  <2>5. CASE \/ \E provider \in Provider : Discover(provider)
             \/ Attribute \/ \E e \in Envs : AcquireValue(e)
             \/ UNCHANGED vars
    <3>1. said' = said \/ said'.what # "record"
      <4>1. CASE \E provider \in Provider : Discover(provider)
        BY <4>1 DEF Discover, Nothing
      <4>2. CASE Attribute
        BY <4>2 DEF Attribute
      <4>3. CASE \E e \in Envs : AcquireValue(e)
        BY <4>3 DEF AcquireValue
      <4>4. CASE UNCHANGED vars
        BY <4>4 DEF vars, client
      <4> QED BY <2>5, <4>1, <4>2, <4>3, <4>4
    <3>2. UNCHANGED <<cache, current>>
      BY <2>5 DEF vars, client, Discover, Attribute, AcquireValue
    <3> QED BY <2>4, <3>1, <3>2
  <2>6. CASE \/ \E e \in Envs : Walk(e)
             \/ WalkDeployments \/ WalkRelease \/ WalkInformation
    <3>1. said' = said \/ said'.what # "record"
      <4>1. \A ref : Answered(ref) => said'.what = "ref"
        BY DEF Answered
      <4>2. CASE \E e \in Envs : Walk(e)
        BY <4>2 DEF Walk, Nothing
      <4>3. CASE WalkDeployments \/ WalkRelease \/ WalkInformation
        BY <4>1, <4>3 DEF WalkDeployments, WalkRelease, WalkInformation, NoAnswer, Found
      <4> QED BY <2>6, <4>2, <4>3
    <3>2. UNCHANGED <<cache, current>>
      BY <2>6 DEF Walk, WalkDeployments, WalkRelease, WalkInformation
    <3> QED BY <2>4, <3>1, <3>2
  <2> QED BY <1>3, <2>2, <2>3, <2>5, <2>6 DEF Client
<1> QED BY <1>2, <1>3 DEF Next, Client

\* What the resolver remembers was current since the build began, and what it
\* says is what it remembers.
THEOREM Remembered == Spec => []RefsOfThisBuild
<1>1. Init => CacheInv
  <2> SUFFICES ASSUME Init PROVE CacheInv
    OBVIOUS
  <2>1. \A e \in Envs : deployed[e] = <<>>
    BY DEF Init
  <2>2. \A e \in Envs : FromDeployments(e) = NoRef
    BY <2>1 DEF FromDeployments
  <2> QED BY <2>2 DEF Init, CacheInv, RefsOfThisBuild, Nothing
<1>2. CacheInv => RefsOfThisBuild
  BY DEF CacheInv
<1>3. TypeOK => ServerOK
  BY DEF TypeOK
<1> QED BY <1>1, <1>2, <1>3, CacheSteps, Typed, PTL DEF Spec

-----------------------------------------------------------------------------
(***************************************************************************)
(* Sets of numbers.                                                        *)
(***************************************************************************)
\* A set of numbers has a least element: the intervals up to its members are
\* finite, and strict inclusion is well founded on them.
LEMMA Least ==
  ASSUME NEW T, T \subseteq Nat, T # {}
  PROVE  \E x \in T : \A y \in T : x <= y
<1> DEFINE F == {1 .. i : i \in T}
<1>1. F \subseteq FiniteSubsetsOf(Nat)
  <2>1. \A i \in T : IsFiniteSet(1 .. i) /\ 1 .. i \in SUBSET Nat
    BY FS_Interval
  <2>2. QED
    BY <2>1 DEF FiniteSubsetsOf
<1>2. F # {}
  OBVIOUS
<1>3. \E X \in F : \A Y \in F : ~ (<<Y, X>> \in StrictSubsetOrdering(Nat))
  <2> HIDE DEF F
  <2> QED
    BY <1>1, <1>2, FS_StrictSubsetOrderingWellFounded, WFMin, Zenon
<1>4. PICK x \in T : \A y \in T : ~ (<<1 .. y, 1 .. x>> \in StrictSubsetOrdering(Nat))
  BY <1>3
<1>5. ASSUME NEW y \in T, y < x PROVE FALSE
  <2>1. 1 .. y \in SUBSET Nat /\ 1 .. x \in SUBSET Nat
    OBVIOUS
  <2>2. 1 .. y \subseteq 1 .. x
    BY <1>5
  <2>3. x \in 1 .. x /\ x \notin 1 .. y
    BY <1>5
  <2>4. QED
    BY <1>4, <2>1, <2>2, <2>3 DEF StrictSubsetOrdering
<1>6. QED
  BY <1>5

\* There is a k-th number in every set of at least k, by induction on k: the
\* next one is the least of those that are left.
LEMMA NthIsIn ==
  ASSUME NEW S \in SUBSET Nat, IsFiniteSet(S), NEW k \in 1 .. Cardinality(S)
  PROVE  Nth(S, k) \in S
<1> DEFINE Below(i) == {j \in S : j < i}
           Has(n) == \E i \in S : Cardinality(Below(i)) = n - 1
           None == {n \in 1 .. Cardinality(S) : ~Has(n)}
<1>1. \A i \in S : IsFiniteSet(Below(i)) /\ Cardinality(Below(i)) \in Nat
  BY FS_Subset, FS_CardinalityType
<1>2. Cardinality(S) \in Nat /\ None \subseteq Nat
  BY FS_CardinalityType
<1>3. None = {}
  <2> SUFFICES ASSUME None # {} PROVE FALSE
    OBVIOUS
  <2>1. PICK n \in None : \A m \in None : n <= m
    BY <1>2, Least
  <2>2. n \in 1 .. Cardinality(S) /\ ~Has(n)
    BY <2>1
  <2>3. CASE n = 1
    <3>1. S # {}
      BY <1>2, <2>2, FS_EmptySet
    <3>2. PICK i \in S : \A j \in S : i <= j
      <4> HIDE DEF None, Has
      <4> QED BY <3>1, Least
    <3>3. Below(i) = {}
      <4>1. \A j \in S : j \in Nat /\ i \in Nat /\ i <= j
        BY <3>2
      <4>2. \A j \in S : ~(j < i)
        BY <4>1
      <4> QED BY <4>2
    <3>4. Cardinality(Below(i)) = 0
      BY <3>3, FS_EmptySet
    <3>5. n - 1 = 0
      BY <2>3
    <3>6. Has(n)
      <4> HIDE DEF Below
      <4> QED BY <3>4, <3>5
    <3> HIDE DEF Has
    <3> QED BY <2>2, <3>6
  <2>4. CASE n # 1
    <3>1. n - 1 \in 1 .. Cardinality(S) /\ n - 1 < n
      BY <1>2, <2>2, <2>4
    <3>2. Has(n - 1)
      <4> HIDE DEF Has
      <4> QED BY <1>2, <2>1, <3>1
    <3>3. PICK i \in S : Cardinality(Below(i)) = (n - 1) - 1
      BY <3>2
    <3> DEFINE Upto == Below(i) \cup {i}
    <3>4. Cardinality(Upto) = Cardinality(Below(i)) + 1
      <4>1. IsFiniteSet(Below(i)) /\ i \notin Below(i)
        BY <1>1
      <4> HIDE DEF Below
      <4> QED BY <4>1, FS_AddElement
    <3>5. Upto \subseteq S /\ Upto # S
      <4>1. Cardinality(Upto) = n - 1 /\ n <= Cardinality(S)
        BY <1>2, <2>2, <3>3, <3>4
      <4>2. Cardinality(Upto) # Cardinality(S)
        <5> HIDE DEF Upto
        <5> QED BY <1>2, <2>2, <4>1
      <4> QED BY <4>2
    <3>6. PICK m \in S \ Upto : \A j \in S \ Upto : m <= j
      <4>1. S \ Upto # {} /\ S \ Upto \subseteq Nat
        BY <3>5
      <4> HIDE DEF Upto
      <4> QED BY <4>1, Least
    <3>7. Below(m) = Upto
      <4>1. m \in Nat /\ i \in Nat /\ \A j \in S : j \in Nat
        OBVIOUS
      <4>2. \A j \in S : j < i => j < m
        <5>1. ~(m < i) /\ m # i
          OBVIOUS
        <5> QED BY <4>1, <5>1
      <4>3. \A j \in S \ Upto : ~(j < m)
        BY <3>6, <4>1
      <4>4. \A j \in S : j < m <=> j < i \/ j = i
        <5>1. ~(m < i) /\ m # i
          OBVIOUS
        <5> QED BY <4>1, <4>2, <4>3, <5>1
      <4> QED BY <4>4
    <3>8. Cardinality(Below(m)) = n - 1
      <4> HIDE DEF Below, Upto
      <4> QED BY <1>2, <2>2, <3>3, <3>4, <3>7
    <3>9. Has(n)
      BY <3>6, <3>8
    <3> HIDE DEF Has
    <3> QED BY <2>2, <3>9
  <2> QED BY <2>3, <2>4
<1>4. Has(k)
  BY <1>3
<1> QED BY <1>4 DEF Nth

-----------------------------------------------------------------------------
(***************************************************************************)
(* The stores.                                                             *)
(***************************************************************************)
\* The first variable of a store that applies to a token does apply.
LEMMA FirstFound ==
  ASSUME NEW n \in Nat, NEW store, DOMAIN store = 1 .. n,
         NEW token, NEW env, FoundIn(store, token, env)
  PROVE  \E i \in DOMAIN store : FindInStore(store, token, env) = store[i]
<1> DEFINE T == {i \in DOMAIN store : Applies(store[i], token, env)}
           First(i) == /\ Applies(store[i], token, env)
                       /\ \A j \in 1 .. i - 1 : ~Applies(store[j], token, env)
<1>1. T \subseteq Nat /\ T # {}
  BY DEF FoundIn
<1>2. PICK i \in T : \A j \in T : i <= j
  BY <1>1, Least
<1>3. \A j \in 1 .. i - 1 : j \in DOMAIN store /\ ~(i <= j)
  OBVIOUS
<1>4. First(i)
  BY <1>2, <1>3
<1>5. (CHOOSE k \in DOMAIN store : First(k)) \in DOMAIN store
  <2> HIDE DEF First
  <2> QED BY <1>4
<1> QED BY <1>5 DEF FindInStore

\* What the stores resolve is said by an entry that is no secret.
LEMMA FromAnEntry ==
  ASSUME NEW stores, DOMAIN stores \subseteq Nat,
         \A i \in DOMAIN stores : \E n \in Nat : DOMAIN stores[i] = 1 .. n,
         NEW e, NEW preview, NEW a, a = Resolved(stores, e, preview),
         a.resolved, a.rung = "store_api"
  PROVE  \E i \in DOMAIN stores : \E k \in DOMAIN stores[i] :
           ~stores[i][k].secret /\ stores[i][k].value # NoText /\ a.value = stores[i][k].value
<1> DEFINE D == Decisive(stores, Token, e)
           E(i) == FindInStore(stores[i], Token, e)
<1>1. D # {}
  BY DEF Resolved, Acquire, Acquired, Missing
<1> DEFINE i == CHOOSE i \in D : \A j \in D : i <= j
<1>2. D \subseteq Nat /\ D \subseteq DOMAIN stores
  BY DEF Decisive
<1>3. i \in D
  BY <1>1, <1>2, Least
<1>4. a = FromStores(stores, Token, e)
  BY <1>1 DEF Resolved, Acquire
<1>5. ~E(i).secret /\ a.value = E(i).value
  BY <1>4 DEF FromStores, Missing, Acquired
<1>6. FoundIn(stores[i], Token, e) /\ (E(i).secret \/ E(i).value # NoText)
  BY <1>3 DEF Decisive
<1>7. \E k \in DOMAIN stores[i] : E(i) = stores[i][k]
  <2>1. i \in DOMAIN stores
    BY <1>2, <1>3
  <2>2. PICK n \in Nat : DOMAIN stores[i] = 1 .. n
    BY <2>1
  <2> HIDE DEF i
  <2> QED BY <1>6, <2>2, FirstFound
<1> HIDE DEF i, E
<1> QED BY <1>2, <1>3, <1>5, <1>6, <1>7

\* The variables of the store are the best ones.
LEMMA BestOnes ==
  ASSUME NEW vs, NEW n \in Nat, DOMAIN vs = 1 .. n, NEW e
  PROVE  /\ BestMatch(vs, e) \in SUBSET Nat /\ BestMatch(vs, e) \subseteq DOMAIN vs
         /\ Cardinality(BestMatch(vs, e)) \in Nat
         /\ \A k \in 1 .. Cardinality(BestMatch(vs, e)) : Nth(BestMatch(vs, e), k) \in BestMatch(vs, e)
<1> DEFINE best == BestMatch(vs, e)
<1>1. best \subseteq DOMAIN vs
  BY DEF BestMatch, Compatible
<1>2. IsFiniteSet(1 .. n)
  BY FS_Interval
<1>3. IsFiniteSet(best) /\ best \in SUBSET Nat
  BY <1>1, <1>2, FS_Subset
<1> HIDE DEF best
<1>4. Cardinality(best) \in Nat /\ \A k \in 1 .. Cardinality(best) : Nth(best, k) \in best
  BY <1>3, FS_CardinalityType, NthIsIn
<1> QED BY <1>1, <1>3, <1>4 DEF best

\* A variable for some environment ranks above every one for all.
LEMMA ScopedFirst ==
  ASSUME NEW u \in Variable, NEW v \in Variable, RankOf(u) <= RankOf(v), u.envs # {}
  PROVE  v.envs # {}
<1>1. \A w \in Variable : Cardinality(w.more) \in 0 .. 3
  <2>1. Dimensions = (({} \cup {"role"}) \cup {"tenant"}) \cup {"channel"}
    BY DEF Dimensions
  <2>2. IsFiniteSet({}) /\ Cardinality({}) = 0
    BY FS_EmptySet
  <2>3. IsFiniteSet({} \cup {"role"}) /\ Cardinality({} \cup {"role"}) = 1
    BY <2>2, FS_AddElement
  <2>4. IsFiniteSet(({} \cup {"role"}) \cup {"tenant"})
        /\ Cardinality(({} \cup {"role"}) \cup {"tenant"}) = 2
    BY <2>3, FS_AddElement
  <2>5. IsFiniteSet(Dimensions) /\ Cardinality(Dimensions) = 3
    <3> DEFINE Two == ({} \cup {"role"}) \cup {"tenant"}
    <3>1. IsFiniteSet(Two) /\ Cardinality(Two) = 2 /\ "channel" \notin Two
      BY <2>4
    <3>2. Dimensions = Two \cup {"channel"}
      BY <2>1
    <3> HIDE DEF Two
    <3> QED BY <3>1, <3>2, FS_AddElement
  <2>6. \A w \in Variable : w.more \in SUBSET Dimensions
    BY DEF Variable
  <2>7. \A X \in SUBSET Dimensions : Cardinality(X) <= 3 /\ Cardinality(X) \in Nat
    BY <2>5, FS_Subset, FS_CardinalityType
  <2> QED BY <2>6, <2>7
<1>2. RankOf(u) = 40 + Cardinality(u.more)
  BY DEF RankOf
<1>3. v.envs = {} => \E p \in 0 .. 3 : RankOf(v) = 10 * p + Cardinality(v.more)
  BY DEF RankOf
<1> QED BY <1>1, <1>2, <1>3

-----------------------------------------------------------------------------
(***************************************************************************)
(* The values.                                                             *)
(***************************************************************************)
\* A value tells its variable: the n-th has the n-th value or none; and the
\* other store has what it had in some setup.
VarInv ==
  /\ TypeOK
  /\ variables \in Seq(Variable) /\ Len(variables) <= Len(Values)
  /\ \A i \in DOMAIN variables : variables[i].value \in {Values[i], NoText}
  /\ \E w \in Worlds : world.parameters = w.parameters
  /\ said.what = "value" => said.known \in 0 .. Len(variables)
  /\ ForThisEnvironment

\* A value that the stores resolve and a variable has is that variable's, which
\* is no secret, for the environment if any is, and by its environments if any
\* names them.
LEMMA ValueSteps ==
  ASSUME VarInv, NEW e \in Envs, NEW stores \in {Stores(e), <<Stores(e)[2]>>}, NEW preview,
         NEW a, a = Resolved(stores, e, preview), a.rung = "store_api", a.resolved,
         NEW i \in DOMAIN variables, variables[i].value = a.value
  PROVE  LET fit == {j \in DOMAIN variables : Suits(j, e)}
         IN  /\ ~variables[i].secret
             /\ fit # {} => i \in fit
             /\ (\E j \in fit : variables[j].envs # {}) => variables[i].envs # {}
<1> DEFINE best == BestMatch(variables, e)
           fit == {j \in DOMAIN variables : Suits(j, e)}
           octopus == OctopusStore(variables, Token, e)
           other == OtherStore(world.parameters, Token, e)
<1>1. /\ variables \in Seq(Variable) /\ Len(variables) \in Nat
      /\ DOMAIN variables = 1 .. Len(variables) /\ Len(variables) <= Len(Values)
      /\ Values \in Seq(Text) /\ DOMAIN variables \subseteq DOMAIN Values
  <2>1. variables \in Seq(Variable) /\ Len(variables) <= Len(Values)
    BY DEF VarInv
  <2> QED BY <2>1, VariablesAssumption
<1>2. PICK w \in Worlds : world.parameters = w.parameters
  BY DEF VarInv
<1>3. PICK p \in Nat : DOMAIN world.parameters = 1 .. p
  <2>1. w.parameters \in Seq([secret : BOOLEAN, value : Text])
    BY WorldsAssumption DEF Setting
  <2> QED BY <1>2, <2>1
<1>4. /\ best \in SUBSET Nat /\ best \subseteq DOMAIN variables /\ Cardinality(best) \in Nat
      /\ \A k \in 1 .. Cardinality(best) : Nth(best, k) \in best
  BY <1>1, BestOnes
<1>5. /\ DOMAIN octopus = 1 .. Cardinality(best)
      /\ \A k \in DOMAIN octopus : octopus[k] = Read(variables[Nth(best, k)], Token)
  BY DEF OctopusStore
<1>6. /\ DOMAIN other = 1 .. p
      /\ \A k \in DOMAIN other : ~other[k].secret => other[k].value = world.parameters[k].value
  BY <1>3 DEF OtherStore
<1>7. stores \in {<<octopus, other>>, <<other>>}
  BY DEF Stores
<1> HIDE DEF best, octopus, other
<1>8. PICK s \in DOMAIN stores : \E k \in DOMAIN stores[s] :
        ~stores[s][k].secret /\ stores[s][k].value # NoText /\ a.value = stores[s][k].value
  <2>1. DOMAIN stores \subseteq Nat /\ \A t \in DOMAIN stores : \E n \in Nat : DOMAIN stores[t] = 1 .. n
    BY <1>4, <1>5, <1>6, <1>7
  <2> QED BY <2>1, FromAnEntry
<1>9. PICK k \in DOMAIN stores[s] :
        ~stores[s][k].secret /\ stores[s][k].value # NoText /\ a.value = stores[s][k].value
  BY <1>8
<1>10. variables[i].value = Values[i] /\ Values[i] = stores[s][k].value
  BY <1>9 DEF VarInv
<1>11. stores[s] = octopus
  <2>1. stores[s] = octopus \/ stores[s] = other
    BY <1>7
  <2>2. ASSUME stores[s] = other PROVE FALSE
    <3>1. k \in DOMAIN w.parameters /\ Values[i] = w.parameters[k].value
      BY <1>2, <1>3, <1>6, <1>9, <1>10, <2>2
    <3>2. i \in DOMAIN Values
      BY <1>1
    <3> QED BY <3>1, <3>2, ValuesAssumption
  <2> QED BY <2>1, <2>2
<1>12. PICK b \in best : stores[s][k] = Read(variables[b], Token)
  BY <1>4, <1>5, <1>11
<1>13. ~variables[b].secret /\ variables[b].value = Values[i] /\ variables[b].value # NoText
  BY <1>9, <1>10, <1>12 DEF Read
<1>14. i = b
  <2>1. b \in DOMAIN variables /\ Values[b] = Values[i]
    BY <1>4, <1>13 DEF VarInv
  <2> QED BY <1>1, <2>1, ValuesAssumption
<1>15. fit # {} => best \subseteq fit
  BY DEF best, BestMatch, Compatible, Suits
<1>16. ASSUME NEW j \in fit, variables[j].envs # {} PROVE variables[i].envs # {}
  <2>1. RankOf(variables[j]) <= RankOf(variables[b])
    BY <1>15 DEF best, BestMatch, Compatible, Suits
  <2>2. variables[j] \in Variable /\ variables[b] \in Variable
    BY <1>1, <1>4
  <2> QED BY <1>14, <1>16, <2>1, <2>2, ScopedFirst
<1> QED BY <1>13, <1>14, <1>15, <1>16

\* Reading a value says what the stores resolve; adding a variable keeps the others.
LEMMA VarSteps == VarInv /\ TypeOK' /\ [Next]_vars => VarInv'
<1> SUFFICES ASSUME VarInv, TypeOK', [Next]_vars PROVE VarInv'
  OBVIOUS
<1>1. /\ ServerOK /\ WalkOK
      /\ variables \in Seq(Variable) /\ Len(variables) <= Len(Values) /\ Len(variables) \in Nat
      /\ DOMAIN variables = 1 .. Len(variables)
      /\ \A i \in DOMAIN variables : variables[i].value \in {Values[i], NoText}
      /\ said.what = "value" => said.known \in 0 .. Len(variables)
  BY DEF VarInv, TypeOK
<1>2. PICK w \in Worlds : world.parameters = w.parameters
  BY DEF VarInv
<1>3. ASSUME UNCHANGED said, world'.parameters = world.parameters,
             variables' \in Seq(Variable), Len(variables') <= Len(Values),
             \A i \in DOMAIN variables' : variables'[i].value \in {Values[i], NoText},
             Len(variables) <= Len(variables') /\ Len(variables') \in Nat,
             \A i \in DOMAIN variables : variables'[i] = variables[i]
      PROVE  VarInv'
  <2>1. said.what = "value" => said.known \in 0 .. Len(variables')
    BY <1>1, <1>3
  <2>2. ForThisEnvironment'
    <3> SUFFICES ASSUME said.what = "value" /\ said.result.rung = "store_api" /\ said.result.resolved,
                        NEW i \in 1 .. said.known, variables'[i].value = said.result.value
                 PROVE  LET fit == {j \in 1 .. said.known : Suits(j, said.env)'}
                        IN  /\ ~variables'[i].secret
                            /\ fit # {} => i \in fit
                            /\ (\E j \in fit : variables'[j].envs # {}) => variables'[i].envs # {}
      BY <1>3 DEF ForThisEnvironment
    <3>1. \A j \in 1 .. said.known : variables'[j] = variables[j]
      BY <1>1, <1>3
    <3>2. {j \in 1 .. said.known : Suits(j, said.env)'} = {j \in 1 .. said.known : Suits(j, said.env)}
      BY <1>3, <3>1 DEF Suits, ScopeMatches
    <3> QED BY <3>1, <3>2 DEF VarInv, ForThisEnvironment
  <2> QED BY <1>2, <1>3, <2>1, <2>2 DEF VarInv
<1>4. CASE \/ \E kind \in Kind : Release(kind)
           \/ \E e \in Envs, r \in DOMAIN releases : Deploy(e, r)
           \/ \E v \in Variables : AddVariable(v)
  <2>1. ServerOK' /\ world'.parameters = world.parameters /\ \E what : Change(what)
    BY <1>1, <1>4, ServerSteps
  <2>2. UNCHANGED said
    BY <1>1, <2>1, Changes
  <2>3. CASE variables' = variables
    BY <1>1, <1>3, <2>1, <2>2, <2>3
  <2>4. ASSUME NEW v \in Variables, AddVariable(v) PROVE VarInv'
    <3> DEFINE u == [v EXCEPT !.value = IF @ = NoText THEN NoText ELSE Values[Len(variables) + 1]]
    <3>1. variables' = Append(variables, u) /\ Len(variables) < Len(Values)
      BY <2>4 DEF AddVariable
    <3>2. u \in Variable /\ u.value \in {Values[Len(variables) + 1], NoText}
      <4>1. v \in Variable /\ Values[Len(variables) + 1] \in Text
        BY <1>1, <3>1, VariablesAssumption
      <4>2. \A t \in Text \cup {NoText} : /\ [v EXCEPT !.value = t] \in Variable
                                          /\ [v EXCEPT !.value = t].value = t
        BY <4>1 DEF Variable
      <4>3. CASE v.value = NoText
        BY <4>2, <4>3
      <4>4. CASE v.value # NoText
        BY <4>1, <4>2, <4>4
      <4> QED BY <4>3, <4>4
    <3> HIDE DEF u
    <3>3. /\ variables' \in Seq(Variable) /\ Len(variables') = Len(variables) + 1
          /\ DOMAIN variables' = 1 .. Len(variables) + 1
          /\ \A i \in DOMAIN variables : variables'[i] = variables[i]
          /\ variables'[Len(variables) + 1] = u
      BY <1>1, <3>1, <3>2, AppendFacts
    <3>4. \A i \in DOMAIN variables' : variables'[i].value \in {Values[i], NoText}
      <4>1. \A i \in DOMAIN variables' : i \in DOMAIN variables \/ i = Len(variables) + 1
        BY <1>1, <3>3
      <4> QED BY <1>1, <3>2, <3>3, <4>1
    <3>5. Len(variables') <= Len(Values) /\ Len(variables) <= Len(variables') /\ Len(variables') \in Nat
      <4>1. Len(Values) \in Nat
        BY VariablesAssumption
      <4> QED BY <1>1, <3>1, <3>3, <4>1
    <3> QED BY <1>3, <2>1, <2>2, <3>3, <3>4, <3>5
  <2> QED BY <1>4, <2>3, <2>4 DEF Release, Deploy
<1>5. CASE Client
  <2>1. UNCHANGED variables /\ world'.parameters = world.parameters
    BY <1>1, <1>5, ClientSteps
  <2>2. CASE UNCHANGED said
    BY <1>1, <1>3, <2>1, <2>2
  <2>3. CASE said'.what # "value"
    BY <1>1, <1>2, <2>1, <2>3 DEF VarInv, ForThisEnvironment
  <2>4. ASSUME NEW e \in Envs, AcquireValue(e) PROVE VarInv'
    <3>1. PICK stores \in {Stores(e), <<Stores(e)[2]>>}, preview \in Previews(e) :
            said' = [what |-> "value", env |-> e, known |-> Len(variables),
                     result |-> Resolved(stores, e, preview)]
      BY <2>4 DEF AcquireValue
    <3> DEFINE a == Resolved(stores, e, preview)
    <3>2. /\ said'.what = "value" /\ said'.env = e /\ said'.known = Len(variables)
          /\ said'.result = a
      BY <3>1
    <3> HIDE DEF a
    <3>3. ForThisEnvironment'
      <4> SUFFICES ASSUME a.rung = "store_api", a.resolved,
                          NEW i \in DOMAIN variables, variables[i].value = a.value
                   PROVE  LET fit == {j \in DOMAIN variables : Suits(j, e)}
                          IN  /\ ~variables[i].secret
                              /\ fit # {} => i \in fit
                              /\ (\E j \in fit : variables[j].envs # {}) => variables[i].envs # {}
        BY <1>1, <2>1, <3>2 DEF ForThisEnvironment, Suits
      <4> QED BY ValueSteps DEF a
    <3>4. said'.known \in 0 .. Len(variables')
      BY <1>1, <2>1, <3>2
    <3> QED BY <1>1, <1>2, <2>1, <3>3, <3>4 DEF VarInv
  <2>5. UNCHANGED said \/ said'.what # "value" \/ \E e \in Envs : AcquireValue(e)
    <3>1. CASE Others
      <4>1. CASE \E provider \in Provider : Discover(provider)
        BY <4>1 DEF Discover, Nothing
      <4>2. CASE Attribute
        BY <4>2 DEF Attribute
      <4>3. CASE \E e \in Envs : Resolve(e) \/ ResolveAnew(e)
        BY <4>3 DEF Resolve, ResolveAnew, Say
      <4>4. CASE NewBuild \/ UNCHANGED vars
        BY <4>4 DEF NewBuild, Nothing, vars, client
      <4> QED BY <3>1, <4>1, <4>2, <4>3, <4>4 DEF Others
    <3>2. CASE \E e \in Envs : Walk(e)
      BY <3>2 DEF Walk, Nothing
    <3>3. CASE WalkDeployments \/ WalkRelease \/ WalkInformation
      <4>1. UNCHANGED said \/ \E ref : Answered(ref)
        BY <3>3 DEF WalkDeployments, WalkRelease, WalkInformation, NoAnswer, Found
      <4>2. \A ref : Answered(ref) => said'.what # "value"
        BY DEF Answered
      <4> QED BY <4>1, <4>2
    <3> QED BY <1>5, <3>1, <3>2, <3>3 DEF Client, Others
  <2> QED BY <2>2, <2>3, <2>4, <2>5
<1> QED BY <1>4, <1>5 DEF Next, Client

\* So it holds throughout.
LEMMA ValuesHold == Spec => []VarInv
<1>1. Init => VarInv
  <2> SUFFICES ASSUME Init PROVE VarInv
    OBVIOUS
  <2>1. TypeOK
    BY WorldsAssumption DEF Init, TypeOK, ServerOK, WalkOK, WalkType, NoWalk
  <2>2. variables = <<>> /\ world \in Worlds /\ said.what # "value"
    BY DEF Init, Nothing
  <2>3. Len(Values) \in Nat
    BY VariablesAssumption
  <2> QED BY <2>1, <2>2, <2>3 DEF VarInv, ForThisEnvironment
<1> QED BY <1>1, VarSteps, Typed, PTL DEF Spec

\* A value from a store is that of a variable which is no secret and is for the
\* environment if any is (read_variable_store and acquire), whatever is added.
THEOREM ValueForEnvironment == Spec => []ForThisEnvironment
<1>1. VarInv => ForThisEnvironment
  BY DEF VarInv
<1> QED BY <1>1, ValuesHold, PTL

\* An added variable for other environments is not among the best where there
\* is one that suits.
LEMMA AddedForOthers ==
  ASSUME NEW vs \in Seq(Variable), NEW u \in Variable, NEW e,
         u.envs # {}, e \notin u.envs, \E i \in DOMAIN vs : ScopeMatches(vs[i], e)
  PROVE  OctopusStore(Append(vs, u), Token, e) = OctopusStore(vs, Token, e)
<1> DEFINE us == Append(vs, u)
           fit == {i \in DOMAIN vs : ScopeMatches(vs[i], e)}
           best == BestMatch(vs, e)
<1>1. /\ DOMAIN vs = 1 .. Len(vs) /\ Len(vs) \in Nat
      /\ DOMAIN us = 1 .. Len(vs) + 1
      /\ \A i \in DOMAIN vs : us[i] = vs[i]
      /\ us[Len(vs) + 1] = u
  BY AppendFacts
<1> HIDE DEF us
<1>2. {i \in DOMAIN us : ScopeMatches(us[i], e)} = fit
  <2>1. \A i \in DOMAIN us : i \in DOMAIN vs \/ i = Len(vs) + 1
    BY <1>1
  <2>2. ~ScopeMatches(u, e) /\ \A i \in DOMAIN vs : i \in DOMAIN us
    BY <1>1 DEF ScopeMatches
  <2> QED BY <1>1, <2>1, <2>2
<1>3. Compatible(us, e) = fit /\ Compatible(vs, e) = fit
  <2>1. fit # {}
    OBVIOUS
  <2> HIDE DEF fit
  <2>2. Compatible(us, e) = fit
    BY <1>2, <2>1 DEF Compatible
  <2>3. Compatible(vs, e) = fit
    BY <2>1 DEF Compatible, fit
  <2> QED BY <2>2, <2>3
<1>4. \A i \in fit : us[i] = vs[i]
  BY <1>1
<1>5. BestMatch(us, e) = best
  <2> HIDE DEF fit
  <2> QED BY <1>3, <1>4 DEF BestMatch
<1>6. \A k \in 1 .. Cardinality(best) : Nth(best, k) \in DOMAIN vs
  BY <1>1, BestOnes
<1>7. [k \in 1 .. Cardinality(best) |-> Read(us[Nth(best, k)], Token)] =
      [k \in 1 .. Cardinality(best) |-> Read(vs[Nth(best, k)], Token)]
  <2> HIDE DEF best
  <2> QED BY <1>1, <1>6
<1>8. OctopusStore(us, Token, e) = [k \in 1 .. Cardinality(best) |-> Read(us[Nth(best, k)], Token)]
  BY <1>5 DEF OctopusStore
<1>9. OctopusStore(vs, Token, e) = [k \in 1 .. Cardinality(best) |-> Read(vs[Nth(best, k)], Token)]
  BY DEF OctopusStore
<1> QED BY <1>7, <1>8, <1>9 DEF us

\* What the stores resolve in an environment for which a variable suits stays
\* when one is added for others (read_variable_store).
THEOREM OthersStayOut == Spec => OthersDontMatter
<1>1. VarInv /\ [Next]_vars =>
      [\A e \in Envs :
         /\ Len(variables') > Len(variables)
         /\ e \notin variables'[Len(variables')].envs /\ variables'[Len(variables')].envs # {}
         /\ \E i \in DOMAIN variables : Suits(i, e)
         => Readings(e)' = Readings(e)]_vars
  <2> SUFFICES ASSUME VarInv, [Next]_vars, NEW e \in Envs,
                      Len(variables') > Len(variables),
                      e \notin variables'[Len(variables')].envs,
                      variables'[Len(variables')].envs # {},
                      \E i \in DOMAIN variables : Suits(i, e)
               PROVE  Readings(e)' = Readings(e)
    OBVIOUS
  <2>1. ServerOK /\ variables \in Seq(Variable) /\ Len(variables) \in Nat
    BY DEF VarInv, TypeOK
  <2>2. variables' # variables
    BY <2>1
  <2>3. PICK v \in Variables : AddVariable(v)
    <3>1. ~Client
      BY <2>1, <2>2, ClientSteps
    <3> QED BY <2>2, <3>1 DEF Next, Client, Release, Deploy
  <2>4. world'.parameters = world.parameters
    BY <2>1, <2>3, ServerSteps
  <2> DEFINE u == [v EXCEPT !.value = IF @ = NoText THEN NoText ELSE Values[Len(variables) + 1]]
  <2>5. variables' = Append(variables, u) /\ Len(variables) < Len(Values)
    BY <2>3 DEF AddVariable
  <2>6. u \in Variable
    <3>1. v \in Variable /\ Values[Len(variables) + 1] \in Text
      BY <2>1, <2>5, VariablesAssumption
    <3>2. \A t \in Text \cup {NoText} : [v EXCEPT !.value = t] \in Variable
      BY <3>1 DEF Variable
    <3>3. CASE v.value = NoText
      BY <3>2, <3>3
    <3>4. CASE v.value # NoText
      BY <3>1, <3>2, <3>4
    <3> QED BY <3>3, <3>4
  <2> HIDE DEF u
  <2>7. variables'[Len(variables')] = u
    BY <2>1, <2>5, <2>6, AppendFacts
  <2>8. OctopusStore(variables', Token, e) = OctopusStore(variables, Token, e)
    <3>1. u.envs # {} /\ e \notin u.envs /\ \E i \in DOMAIN variables : ScopeMatches(variables[i], e)
      BY <2>7 DEF Suits
    <3> QED BY <2>1, <2>5, <2>6, <3>1, AddedForOthers
  <2>9. Stores(e)' = Stores(e)
    BY <2>4, <2>8 DEF Stores, OtherStore
  <2> QED BY <2>9 DEF Readings
<1> QED BY <1>1, ValuesHold, PTL DEF Spec, OthersDontMatter

-----------------------------------------------------------------------------
(***************************************************************************)
(* Who builds and who deploys.                                             *)
(***************************************************************************)
\* Induction up to a bound, on a set of numbers.
LEMMA Upwards ==
  ASSUME NEW N \in Nat, NEW T, 0 \in T, \A n \in 1 .. N : n - 1 \in T => n \in T
  PROVE  0 .. N \subseteq T
<1> DEFINE Out == {n \in 0 .. N : n \notin T}
<1> SUFFICES ASSUME Out # {} PROVE FALSE
  OBVIOUS
<1>1. PICK n \in Out : \A m \in Out : n <= m
  <2>1. Out \subseteq Nat
    OBVIOUS
  <2> HIDE DEF Out
  <2> QED BY <2>1, Least
<1>2. n \in 1 .. N /\ n \notin T
  OBVIOUS
<1>3. n - 1 \in 0 .. N /\ ~(n <= n - 1)
  BY <1>2
<1> QED BY <1>1, <1>2, <1>3

\* What the drafts of a profile are, one for each binding.
Drafts(f, N, start) == f = [b \in 0 .. N |-> IF b = 0 THEN start ELSE Merged(f[b - 1], b)]

\* There are such drafts.
LEMMA DraftsExist ==
  ASSUME NEW N \in Nat, NEW start
  PROVE  \E f : Drafts(f, N, start)
<1> DEFINE T == {m \in 0 .. N : \E f : Drafts(f, m, start)}
<1>1. 0 \in T
  <2>1. Drafts([b \in 0 .. 0 |-> start], 0, start)
    BY DEF Drafts
  <2> QED BY <2>1
<1>2. ASSUME NEW m \in 1 .. N, m - 1 \in T PROVE m \in T
  <2>1. PICK h : Drafts(h, m - 1, start)
    BY <1>2
  <2> DEFINE f == [b \in 0 .. m |-> IF b = m THEN Merged(h[m - 1], m) ELSE h[b]]
  <2>2. \A b \in 0 .. m : f[b] = IF b = 0 THEN start ELSE Merged(f[b - 1], b)
    <3> TAKE b \in 0 .. m
    <3>1. CASE b = m
      <4>1. b # 0 /\ m - 1 \in 0 .. m /\ m - 1 # m
        BY <3>1
      <4> QED BY <3>1, <4>1
    <3>2. CASE b # m
      <4>1. b \in 0 .. m - 1 /\ (b # 0 => b - 1 \in 0 .. m /\ b - 1 # m)
        BY <3>2
      <4>2. h[b] = IF b = 0 THEN start ELSE Merged(h[b - 1], b)
        BY <2>1, <4>1 DEF Drafts
      <4> QED BY <3>2, <4>1, <4>2
    <3> QED BY <3>1, <3>2
  <2>3. f = [b \in 0 .. m |-> f[b]]
    OBVIOUS
  <2> HIDE DEF f
  <2>4. Drafts(f, m, start)
    BY <2>2, <2>3 DEF Drafts
  <2> QED BY <2>4
<1> HIDE DEF T
<1>3. N \in T
  BY <1>1, <1>2, Upwards
<1> QED BY <1>3 DEF T

\* So a profile is what the last of them says.
LEMMA ByDrafts ==
  ASSUME NEW setup, NEW bs, Len(bs) \in Nat
  PROVE  \E f :
           /\ f[0] = [entries |-> Intrinsic(setup), bindings |-> bs]
           /\ \A b \in 1 .. Len(bs) : f[b] = Merged(f[b - 1], b)
           /\ LET end     == f[Len(bs)]
                  entries == Chained(end.entries, end.bindings)
              IN  /\ Attributed(setup, bs).builder = Owner(entries, "build")
                  /\ Attributed(setup, bs).deployer = Owner(entries, "deploy")
                  /\ Attributed(setup, bs).bindings = end.bindings
<1> DEFINE start == [entries |-> Intrinsic(setup), bindings |-> bs]
           f == CHOOSE f : Drafts(f, Len(bs), start)
<1>1. Drafts(f, Len(bs), start)
  BY DraftsExist
<1>2. LET end     == f[Len(bs)]
          entries == Chained(end.entries, end.bindings)
      IN  /\ Attributed(setup, bs).builder = Owner(entries, "build")
          /\ Attributed(setup, bs).deployer = Owner(entries, "deploy")
          /\ Attributed(setup, bs).bindings = end.bindings
  BY DEF Attributed, Drafts
<1> HIDE DEF f
<1>3. \A b \in 0 .. Len(bs) : f[b] = IF b = 0 THEN start ELSE Merged(f[b - 1], b)
  BY <1>1 DEF Drafts
<1>4. f[0] = start
  BY <1>3
<1>5. \A b \in 1 .. Len(bs) : f[b] = Merged(f[b - 1], b)
  BY <1>3
<1> QED BY <1>2, <1>4, <1>5

\* What bindings and the entries of a profile consist of.
RoleSet == {"build", "deploy"}
Bound == [provider : Provider, found : RoleSet, roles : SUBSET RoleSet, env : Envs \cup {""}]
ProfileEntry == [provider : Provider, roles : SUBSET RoleSet, list : Nat, confidence : {"high", "medium"}]

\* What the files of a provider say it does, and what the first n bindings of
\* it do.
Own(setup, p) == IF p \in setup.files THEN Roles(setup, p) ELSE {}
Told(bs, n, p) == {bs[b].found : b \in {b \in 1 .. n : bs[b].provider = p}}

\* A list of roles has grown by what other bindings of the provider say.
Grown(bs, cs) ==
  /\ cs \in Seq(Bound) /\ Len(cs) = Len(bs)
  /\ \A b \in 1 .. Len(bs) :
       /\ cs[b].provider = bs[b].provider /\ cs[b].found = bs[b].found
       /\ cs[b].found \in cs[b].roles
       /\ cs[b].roles \subseteq Told(bs, Len(bs), bs[b].provider)

\* No list has more than the bindings of its provider say.
BindingsOK(bs) == Grown(bs, bs)

\* A draft has one entry for each provider that has files or is in the first n
\* bindings; its roles are at least those of its files and of these bindings,
\* and at most those of its files and of all bindings.
DraftOK(setup, bs, n, es, cs) ==
  /\ es \in Seq(ProfileEntry)
  /\ Grown(bs, cs)
  /\ \A i, j \in DOMAIN es : es[i].provider = es[j].provider => i = j
  /\ \A p : (\E i \in DOMAIN es : es[i].provider = p)
              <=> p \in Provider /\ (p \in setup.files \/ \E b \in 1 .. n : bs[b].provider = p)
  /\ \A i \in DOMAIN es :
       LET e == es[i]
       IN  /\ e.list # 0 => e.list \in 1 .. n /\ bs[e.list].provider = e.provider
                              /\ e.provider \notin setup.files
           /\ Own(setup, e.provider) \cup Told(bs, n, e.provider) \subseteq RolesOf(e, cs)
           /\ RolesOf(e, cs) \subseteq Own(setup, e.provider) \cup Told(bs, Len(bs), e.provider)

\* What one binding adds: an entry with its list, or roles to an entry, or to
\* the list of an earlier binding that an entry has.
LEMMA Merging ==
  ASSUME NEW d \in [entries : Seq(ProfileEntry), bindings : Seq(Bound)], NEW n \in DOMAIN d.bindings
  PROVE  LET m == Merged(d, n)
             p == d.bindings[n].provider
         IN  \/ /\ \A i \in DOMAIN d.entries : d.entries[i].provider # p
                /\ m = [entries |-> Append(d.entries, Borrowed(p, n)), bindings |-> d.bindings]
             \/ \E i \in DOMAIN d.entries :
                  LET e     == d.entries[i]
                      roles == RolesOf(e, d.bindings) \cup d.bindings[n].roles
                  IN  /\ e.provider = p
                      /\ \/ /\ e.list = 0
                            /\ m = [entries |-> [d.entries EXCEPT ![i] = [@ EXCEPT !.roles = roles]],
                                    bindings |-> d.bindings]
                         \/ /\ e.list # 0
                            /\ m = [entries |-> d.entries,
                                    bindings |-> [d.bindings EXCEPT ![e.list] = [@ EXCEPT !.roles = roles]]]
<1> DEFINE p == d.bindings[n].provider
           same == {i \in DOMAIN d.entries : d.entries[i].provider = p}
<1>1. CASE same = {}
  <2>1. Merged(d, n) = [d EXCEPT !.entries = Append(@, Borrowed(p, n))]
    BY <1>1 DEF Merged
  <2>2. \A x : [d EXCEPT !.entries = x] = [entries |-> x, bindings |-> d.bindings]
    OBVIOUS
  <2>3. Merged(d, n) = [entries |-> Append(d.entries, Borrowed(p, n)), bindings |-> d.bindings]
    BY <2>1, <2>2
  <2> QED BY <1>1, <2>3
<1>2. CASE same # {}
  <2> DEFINE i == Min(same)
             e == d.entries[i]
             roles == RolesOf(e, d.bindings) \cup d.bindings[n].roles
  <2>1. i \in same
    <3>1. same \subseteq Nat
      OBVIOUS
    <3> HIDE DEF same
    <3> QED BY <1>2, <3>1, Least DEF Min
  <2>2. Merged(d, n) = IF e.list = 0 THEN [d EXCEPT !.entries[i].roles = roles]
                                     ELSE [d EXCEPT !.bindings[e.list].roles = roles]
    BY <1>2 DEF Merged
  <2> HIDE DEF i
  <2>3. \A x : [d EXCEPT !.entries[i].roles = x] =
               [entries |-> [d.entries EXCEPT ![i] = [@ EXCEPT !.roles = x]], bindings |-> d.bindings]
    <3>1. \A x : [d EXCEPT !.entries[i].roles = x] =
                 [d EXCEPT !.entries = [d.entries EXCEPT ![i] = [@ EXCEPT !.roles = x]]]
      BY Zenon
    <3>2. \A x : [d EXCEPT !.entries = x] = [entries |-> x, bindings |-> d.bindings]
      OBVIOUS
    <3> QED BY <3>1, <3>2, Zenon
  <2>4. \A x : [d EXCEPT !.bindings[e.list].roles = x] =
               [entries |-> d.entries, bindings |-> [d.bindings EXCEPT ![e.list] = [@ EXCEPT !.roles = x]]]
    BY <2>1
  <2> HIDE DEF roles
  <2>5. \/ e.list = 0 /\ Merged(d, n) = [entries |-> [d.entries EXCEPT ![i] = [@ EXCEPT !.roles = roles]],
                                         bindings |-> d.bindings]
        \/ e.list # 0 /\ Merged(d, n) =
             [entries |-> d.entries, bindings |-> [d.bindings EXCEPT ![e.list] = [@ EXCEPT !.roles = roles]]]
    BY <2>2, <2>3, <2>4
  <2> QED BY <2>1, <2>5 DEF roles
<1> QED BY <1>1, <1>2

\* What one more binding tells.
LEMMA Telling ==
  ASSUME NEW bs, NEW n \in Nat \ {0}, NEW p
  PROVE  /\ Told(bs, n, p) = Told(bs, n - 1, p) \cup (IF bs[n].provider = p THEN {bs[n].found} ELSE {})
         /\ \A m \in Nat : n <= m => Told(bs, n, p) \subseteq Told(bs, m, p)
<1>1. 1 .. n = 1 .. n - 1 \cup {n} /\ \A m \in Nat : n <= m => 1 .. n \subseteq 1 .. m
  OBVIOUS
<1> QED BY <1>1 DEF Told

\* A draft stays one when a binding of a new provider comes.
LEMMA Another ==
  ASSUME NEW setup, NEW bs, BindingsOK(bs), NEW n \in 1 .. Len(bs), NEW es, NEW cs,
         DraftOK(setup, bs, n - 1, es, cs),
         \A i \in DOMAIN es : es[i].provider # cs[n].provider
  PROVE  DraftOK(setup, bs, n, Append(es, Borrowed(cs[n].provider, n)), cs)
<1> DEFINE new == Borrowed(cs[n].provider, n)
           fs == Append(es, new)
           p == bs[n].provider
<1>1. /\ bs \in Seq(Bound) /\ Len(bs) \in Nat /\ n \in Nat \ {0} /\ n - 1 \in Nat
      /\ es \in Seq(ProfileEntry) /\ cs \in Seq(Bound) /\ Grown(bs, cs)
      /\ cs[n].provider = p /\ cs[n].found = bs[n].found /\ p \in Provider
      /\ cs[n].found \in cs[n].roles
      /\ cs[n].roles \subseteq Told(bs, Len(bs), p)
  <2>1. bs \in Seq(Bound) /\ es \in Seq(ProfileEntry) /\ Grown(bs, cs)
    BY DEF DraftOK, BindingsOK, Grown
  <2>2. Len(bs) \in Nat /\ n \in Nat \ {0} /\ n - 1 \in Nat /\ n \in DOMAIN bs
        /\ bs[n] \in Bound
    BY <2>1
  <2>3. p \in Provider
    BY <2>2 DEF Bound
  <2> QED BY <2>1, <2>2, <2>3 DEF Grown
<1>2. new \in ProfileEntry /\ new.provider = p /\ new.list = n /\ RolesOf(new, cs) = cs[n].roles
  <2>1. new = [provider |-> p, roles |-> {}, list |-> n, confidence |-> "medium"]
    BY <1>1 DEF Borrowed
  <2> HIDE DEF new
  <2>2. new \in ProfileEntry
    BY <1>1, <2>1 DEF ProfileEntry
  <2> QED BY <1>1, <2>1, <2>2 DEF RolesOf
<1>3. /\ fs \in Seq(ProfileEntry) /\ DOMAIN es = 1 .. Len(es) /\ Len(es) \in Nat
      /\ DOMAIN fs = 1 .. Len(es) + 1
      /\ \A i \in DOMAIN es : fs[i] = es[i]
      /\ fs[Len(es) + 1] = new
  BY <1>1, <1>2, AppendFacts
<1>4. \A i \in DOMAIN fs : \/ i \in DOMAIN es /\ fs[i] = es[i]
                           \/ i = Len(es) + 1 /\ fs[i] = new
  BY <1>3
<1>5. \A i \in DOMAIN es : es[i].provider # p
  BY <1>1
<1>6. p \notin setup.files /\ \A b \in 1 .. n - 1 : bs[b].provider # p
  BY <1>1, <1>5 DEF DraftOK
<1>7. Own(setup, p) = {} /\ Told(bs, n - 1, p) = {} /\ Told(bs, n, p) = {bs[n].found}
  <2>1. Own(setup, p) = {} /\ Told(bs, n - 1, p) = {}
    BY <1>6 DEF Own, Told
  <2> QED BY <1>1, <2>1, Telling
<1>8. ASSUME NEW q, q # p PROVE Told(bs, n - 1, q) = Told(bs, n, q)
  <2>1. Told(bs, n, q) = Told(bs, n - 1, q) \cup (IF bs[n].provider = q THEN {bs[n].found} ELSE {})
    BY <1>1, Telling
  <2> QED BY <1>8, <2>1
<1> HIDE DEF fs, new, p
<1>9. \A i, j \in DOMAIN fs : fs[i].provider = fs[j].provider => i = j
  BY <1>2, <1>4, <1>5 DEF DraftOK
<1>10. ASSUME NEW q
       PROVE  (\E i \in DOMAIN fs : fs[i].provider = q)
                <=> q \in Provider /\ (q \in setup.files \/ \E b \in 1 .. n : bs[b].provider = q)
  <2>1. (\E i \in DOMAIN es : es[i].provider = q)
          <=> q \in Provider /\ (q \in setup.files \/ \E b \in 1 .. n - 1 : bs[b].provider = q)
    BY DEF DraftOK
  <2>2. (\E i \in DOMAIN fs : fs[i].provider = q) <=> (\E i \in DOMAIN es : es[i].provider = q) \/ q = p
    BY <1>2, <1>3, <1>4
  <2>3. \A b : b \in 1 .. n <=> b \in 1 .. n - 1 \/ b = n
    BY <1>1
  <2> QED BY <1>1, <2>1, <2>2, <2>3 DEF p
<1>11. ASSUME NEW i \in DOMAIN fs
       PROVE  LET e == fs[i]
              IN  /\ e.list # 0 => e.list \in 1 .. n /\ bs[e.list].provider = e.provider
                                     /\ e.provider \notin setup.files
                  /\ Own(setup, e.provider) \cup Told(bs, n, e.provider) \subseteq RolesOf(e, cs)
                  /\ RolesOf(e, cs) \subseteq Own(setup, e.provider) \cup Told(bs, Len(bs), e.provider)
  <2>1. CASE i \in DOMAIN es /\ fs[i] = es[i]
    <3>1. fs[i].provider # p
      BY <1>5, <2>1
    <3>2. 1 .. n - 1 \subseteq 1 .. n
      BY <1>1
    <3> QED BY <1>8, <2>1, <3>1, <3>2 DEF DraftOK
  <2>2. CASE fs[i] = new
    BY <1>1, <1>2, <1>6, <1>7, <2>2 DEF p
  <2> QED BY <1>4, <2>1, <2>2
<1>12. DraftOK(setup, bs, n, fs, cs)
  BY <1>1, <1>3, <1>9, <1>10, <1>11 DEF DraftOK
<1> QED BY <1>12 DEF fs, new

\* And when a binding adds to the roles of an entry of its own.
LEMMA AddsRoles ==
  ASSUME NEW setup, NEW bs, BindingsOK(bs), NEW n \in 1 .. Len(bs), NEW es, NEW cs,
         DraftOK(setup, bs, n - 1, es, cs),
         NEW k \in DOMAIN es, es[k].provider = cs[n].provider, es[k].list = 0
  PROVE  DraftOK(setup, bs, n,
           [es EXCEPT ![k] = [@ EXCEPT !.roles = RolesOf(es[k], cs) \cup cs[n].roles]], cs)
<1> DEFINE roles == RolesOf(es[k], cs) \cup cs[n].roles
           new == [es[k] EXCEPT !.roles = roles]
           fs == [es EXCEPT ![k] = [@ EXCEPT !.roles = roles]]
           p == bs[n].provider
<1>1. /\ bs \in Seq(Bound) /\ Len(bs) \in Nat /\ n \in Nat \ {0} /\ n - 1 \in Nat
      /\ es \in Seq(ProfileEntry) /\ cs \in Seq(Bound) /\ Grown(bs, cs)
      /\ cs[n].provider = p /\ cs[n].found = bs[n].found /\ p \in Provider
      /\ cs[n].found \in cs[n].roles /\ cs[n].roles \in SUBSET RoleSet
      /\ cs[n].roles \subseteq Told(bs, Len(bs), p)
  <2>1. bs \in Seq(Bound) /\ es \in Seq(ProfileEntry) /\ Grown(bs, cs) /\ cs \in Seq(Bound) /\ Len(cs) = Len(bs)
    BY DEF DraftOK, BindingsOK, Grown
  <2>2. Len(bs) \in Nat /\ n \in Nat \ {0} /\ n - 1 \in Nat /\ n \in DOMAIN bs
        /\ bs[n] \in Bound /\ cs[n] \in Bound
    BY <2>1
  <2>3. p \in Provider /\ cs[n].roles \in SUBSET RoleSet
    BY <2>2 DEF Bound
  <2> QED BY <2>1, <2>2, <2>3 DEF Grown
<1>2. es[k] \in ProfileEntry /\ RolesOf(es[k], cs) = es[k].roles /\ roles \in SUBSET RoleSet
  <2>1. es[k] \in ProfileEntry
    BY <1>1
  <2>2. RolesOf(es[k], cs) = es[k].roles
    BY DEF RolesOf
  <2>3. es[k].roles \in SUBSET RoleSet
    BY <2>1 DEF ProfileEntry
  <2> QED BY <1>1, <2>1, <2>2, <2>3
<1> HIDE DEF roles
<1>3. new \in ProfileEntry /\ new.provider = es[k].provider /\ new.list = 0 /\ new.roles = roles
  BY <1>2 DEF ProfileEntry
<1>4. fs = [es EXCEPT ![k] = new]
  OBVIOUS
<1> HIDE DEF fs, new
<1>5. /\ fs \in Seq(ProfileEntry) /\ DOMAIN fs = DOMAIN es
      /\ fs[k] = new /\ \A i \in DOMAIN es \ {k} : fs[i] = es[i]
  BY <1>1, <1>3, <1>4
<1>6. RolesOf(new, cs) = RolesOf(es[k], cs) \cup cs[n].roles
  BY <1>3 DEF RolesOf, roles
<1>7. \A i \in DOMAIN fs : fs[i].provider = es[i].provider /\ fs[i].list = es[i].list
  BY <1>3, <1>5
<1>8. ASSUME NEW q, q # p PROVE Told(bs, n - 1, q) = Told(bs, n, q)
  <2>1. Told(bs, n, q) = Told(bs, n - 1, q) \cup (IF bs[n].provider = q THEN {bs[n].found} ELSE {})
    BY <1>1, Telling
  <2> QED BY <1>8, <2>1
<1>9. Told(bs, n, p) = Told(bs, n - 1, p) \cup {bs[n].found}
  BY <1>1, Telling
<1> HIDE DEF p
<1>10. \A i, j \in DOMAIN fs : fs[i].provider = fs[j].provider => i = j
  BY <1>5, <1>7 DEF DraftOK
<1>11. ASSUME NEW q
       PROVE  (\E i \in DOMAIN fs : fs[i].provider = q)
                <=> q \in Provider /\ (q \in setup.files \/ \E b \in 1 .. n : bs[b].provider = q)
  <2>1. (\E i \in DOMAIN es : es[i].provider = q)
          <=> q \in Provider /\ (q \in setup.files \/ \E b \in 1 .. n - 1 : bs[b].provider = q)
    BY DEF DraftOK
  <2>2. (\E i \in DOMAIN fs : fs[i].provider = q) <=> (\E i \in DOMAIN es : es[i].provider = q)
    BY <1>5, <1>7
  <2>3. \A b : b \in 1 .. n <=> b \in 1 .. n - 1 \/ b = n
    BY <1>1
  <2>4. q = p => \E i \in DOMAIN es : es[i].provider = q
    BY <1>1
  <2> QED BY <1>1, <2>1, <2>2, <2>3, <2>4 DEF p
<1>12. ASSUME NEW i \in DOMAIN fs
       PROVE  LET e == fs[i]
              IN  /\ e.list # 0 => e.list \in 1 .. n /\ bs[e.list].provider = e.provider
                                     /\ e.provider \notin setup.files
                  /\ Own(setup, e.provider) \cup Told(bs, n, e.provider) \subseteq RolesOf(e, cs)
                  /\ RolesOf(e, cs) \subseteq Own(setup, e.provider) \cup Told(bs, Len(bs), e.provider)
  <2>1. /\ es[i].list # 0 => es[i].list \in 1 .. n - 1 /\ bs[es[i].list].provider = es[i].provider
                             /\ es[i].provider \notin setup.files
        /\ Own(setup, es[i].provider) \cup Told(bs, n - 1, es[i].provider) \subseteq RolesOf(es[i], cs)
        /\ RolesOf(es[i], cs) \subseteq Own(setup, es[i].provider) \cup Told(bs, Len(bs), es[i].provider)
    BY <1>5 DEF DraftOK
  <2>2. CASE i # k
    <3>1. fs[i] = es[i] /\ fs[i].provider # p
      BY <1>1, <1>5, <1>7, <1>10, <2>2
    <3>2. 1 .. n - 1 \subseteq 1 .. n
      BY <1>1
    <3> QED BY <1>8, <2>1, <3>1, <3>2
  <2>3. CASE i = k
    <3>1. fs[i] = new /\ new.provider = p /\ es[i].provider = p
      BY <1>1, <1>3, <1>5, <2>3
    <3> QED BY <1>1, <1>3, <1>6, <1>9, <2>1, <2>3, <3>1
  <2> QED BY <2>2, <2>3
<1>13. DraftOK(setup, bs, n, fs, cs)
  BY <1>1, <1>5, <1>10, <1>11, <1>12 DEF DraftOK
<1> QED BY <1>13 DEF fs, roles

\* And when it adds to the list of an earlier binding that an entry has.
LEMMA AddsToList ==
  ASSUME NEW setup, NEW bs, BindingsOK(bs), NEW n \in 1 .. Len(bs), NEW es, NEW cs,
         DraftOK(setup, bs, n - 1, es, cs),
         NEW k \in DOMAIN es, es[k].provider = cs[n].provider, es[k].list # 0
  PROVE  DraftOK(setup, bs, n, es,
           [cs EXCEPT ![es[k].list] = [@ EXCEPT !.roles = RolesOf(es[k], cs) \cup cs[n].roles]])
<1> DEFINE roles == RolesOf(es[k], cs) \cup cs[n].roles
           l == es[k].list
           new == [cs[l] EXCEPT !.roles = roles]
           ds == [cs EXCEPT ![l] = [@ EXCEPT !.roles = roles]]
           p == bs[n].provider
<1>1. /\ bs \in Seq(Bound) /\ Len(bs) \in Nat /\ n \in Nat \ {0} /\ n - 1 \in Nat
      /\ es \in Seq(ProfileEntry) /\ cs \in Seq(Bound) /\ Len(cs) = Len(bs) /\ Grown(bs, cs)
      /\ cs[n].provider = p /\ cs[n].found = bs[n].found /\ p \in Provider
      /\ cs[n].found \in cs[n].roles
      /\ cs[n].roles \subseteq Told(bs, Len(bs), p)
  <2>1. bs \in Seq(Bound) /\ es \in Seq(ProfileEntry) /\ Grown(bs, cs) /\ cs \in Seq(Bound) /\ Len(cs) = Len(bs)
    BY DEF DraftOK, BindingsOK, Grown
  <2>2. Len(bs) \in Nat /\ n \in Nat \ {0} /\ n - 1 \in Nat /\ n \in DOMAIN bs
        /\ bs[n] \in Bound
    BY <2>1
  <2>3. p \in Provider
    BY <2>2 DEF Bound
  <2> QED BY <2>1, <2>2, <2>3 DEF Grown
<1>2. /\ l \in 1 .. n - 1 /\ l \in DOMAIN cs /\ l # 0 /\ bs[l].provider = p /\ cs[l].provider = p
      /\ p \notin setup.files
      /\ es[k] \in ProfileEntry /\ es[k].provider = p
  <2>1. l \in 1 .. n - 1 /\ bs[l].provider = es[k].provider /\ es[k].provider \notin setup.files
    BY DEF DraftOK
  <2>2. l \in DOMAIN cs /\ l \in 1 .. Len(bs) /\ es[k] \in ProfileEntry
    BY <1>1, <2>1
  <2> QED BY <1>1, <2>1, <2>2 DEF Grown
<1>3. RolesOf(es[k], cs) = cs[l].roles /\ Own(setup, p) = {}
  BY <1>2 DEF RolesOf, Own
<1>4. cs[l] \in Bound /\ cs[n] \in Bound /\ roles \in SUBSET RoleSet
  <2>1. cs[l] \in Bound /\ cs[n] \in Bound
    BY <1>1, <1>2
  <2>2. cs[l].roles \in SUBSET RoleSet /\ cs[n].roles \in SUBSET RoleSet
    BY <2>1 DEF Bound
  <2> QED BY <1>3, <2>1, <2>2
<1>5. roles = cs[l].roles \cup cs[n].roles
  BY <1>3
<1> HIDE DEF roles
<1>6. /\ new \in Bound /\ new.provider = cs[l].provider /\ new.found = cs[l].found
      /\ new.roles = roles
  BY <1>4 DEF Bound
<1>7. ds = [cs EXCEPT ![l] = new]
  OBVIOUS
<1> HIDE DEF new, ds
<1>8. /\ ds \in Seq(Bound) /\ Len(ds) = Len(bs)
      /\ ds[l] = new /\ \A b \in 1 .. Len(bs) : b # l => ds[b] = cs[b]
  BY <1>1, <1>2, <1>6, <1>7
<1> HIDE DEF l, p
<1>9. Grown(bs, ds)
  <2>1. ASSUME NEW b \in 1 .. Len(bs)
        PROVE  /\ ds[b].provider = bs[b].provider /\ ds[b].found = bs[b].found
               /\ ds[b].found \in ds[b].roles
               /\ ds[b].roles \subseteq Told(bs, Len(bs), bs[b].provider)
    <3>1. /\ cs[b].provider = bs[b].provider /\ cs[b].found = bs[b].found
          /\ cs[b].found \in cs[b].roles
          /\ cs[b].roles \subseteq Told(bs, Len(bs), bs[b].provider)
      BY <1>1 DEF Grown
    <3>2. CASE b = l
      BY <1>1, <1>2, <1>5, <1>6, <1>8, <3>1, <3>2
    <3>3. CASE b # l
      BY <1>8, <3>1, <3>3
    <3> QED BY <3>2, <3>3
  <2> QED BY <1>8, <2>1 DEF Grown
<1>10. ASSUME NEW q, q # p PROVE Told(bs, n - 1, q) = Told(bs, n, q)
  <2>1. Told(bs, n, q) = Told(bs, n - 1, q) \cup (IF bs[n].provider = q THEN {bs[n].found} ELSE {})
    BY <1>1, Telling
  <2> QED BY <1>10, <2>1 DEF p
<1>11. Told(bs, n, p) = Told(bs, n - 1, p) \cup {bs[n].found}
  BY <1>1, Telling DEF p
<1>12. ASSUME NEW q
       PROVE  (\E i \in DOMAIN es : es[i].provider = q)
                <=> q \in Provider /\ (q \in setup.files \/ \E b \in 1 .. n : bs[b].provider = q)
  <2>1. (\E i \in DOMAIN es : es[i].provider = q)
          <=> q \in Provider /\ (q \in setup.files \/ \E b \in 1 .. n - 1 : bs[b].provider = q)
    BY DEF DraftOK
  <2>2. \A b : b \in 1 .. n <=> b \in 1 .. n - 1 \/ b = n
    BY <1>1
  <2>3. q = p => \E i \in DOMAIN es : es[i].provider = q
    BY <1>2
  <2> QED BY <1>1, <2>1, <2>2, <2>3 DEF p
<1>13. ASSUME NEW i \in DOMAIN es
       PROVE  LET e == es[i]
              IN  /\ e.list # 0 => e.list \in 1 .. n /\ bs[e.list].provider = e.provider
                                     /\ e.provider \notin setup.files
                  /\ Own(setup, e.provider) \cup Told(bs, n, e.provider) \subseteq RolesOf(e, ds)
                  /\ RolesOf(e, ds) \subseteq Own(setup, e.provider) \cup Told(bs, Len(bs), e.provider)
  <2>1. /\ es[i].list # 0 => es[i].list \in 1 .. n - 1 /\ bs[es[i].list].provider = es[i].provider
                             /\ es[i].provider \notin setup.files
        /\ Own(setup, es[i].provider) \cup Told(bs, n - 1, es[i].provider) \subseteq RolesOf(es[i], cs)
        /\ RolesOf(es[i], cs) \subseteq Own(setup, es[i].provider) \cup Told(bs, Len(bs), es[i].provider)
    BY DEF DraftOK
  <2>2. 1 .. n - 1 \subseteq 1 .. n /\ \A b \in 1 .. n - 1 : b \in 1 .. Len(bs)
    BY <1>1
  <2>3. CASE i # k
    <3>1. es[i].provider # p
      BY <1>2, <2>3 DEF DraftOK
    <3>2. RolesOf(es[i], ds) = RolesOf(es[i], cs)
      <4>1. CASE es[i].list = 0
        BY <4>1 DEF RolesOf
      <4>2. CASE es[i].list # 0
        <5>1. es[i].list # l /\ es[i].list \in 1 .. Len(bs)
          BY <1>2, <2>1, <2>2, <3>1, <4>2
        <5> QED BY <1>8, <4>2, <5>1 DEF RolesOf
      <4> QED BY <4>1, <4>2
    <3> QED BY <1>10, <2>1, <2>2, <3>1, <3>2
  <2>4. CASE i = k
    <3>1. es[k].list = l /\ RolesOf(es[k], ds) = roles
      BY <1>2, <1>6, <1>8 DEF RolesOf, l
    <3>2. RolesOf(es[k], cs) = cs[l].roles
      BY <1>3
    <3> QED BY <1>1, <1>2, <1>3, <1>5, <1>11, <2>1, <2>2, <2>4, <3>1, <3>2
  <2> QED BY <2>3, <2>4
<1>14. \A i, j \in DOMAIN es : es[i].provider = es[j].provider => i = j
  BY DEF DraftOK
<1>15. DraftOK(setup, bs, n, es, ds)
  BY <1>1, <1>9, <1>12, <1>13, <1>14 DEF DraftOK
<1> QED BY <1>15 DEF ds, roles, l

\* The entries of those providers in P that have files.
Detects(setup, P, es) ==
  /\ es \in Seq(ProfileEntry)
  /\ \A i \in DOMAIN es : /\ es[i].provider \in P \cap setup.files
                          /\ es[i].list = 0 /\ es[i].roles = Roles(setup, es[i].provider)
  /\ \A p \in P \cap setup.files : \E i \in DOMAIN es : es[i].provider = p
  /\ \A i, j \in DOMAIN es : es[i].provider = es[j].provider => i = j

\* Those of one provider.
LEMMA DetectsOne ==
  ASSUME NEW setup, NEW p \in Provider
  PROVE  Detects(setup, {p}, Detected(setup, p))
<1> DEFINE new == OwnEntry(p, Roles(setup, p))
<1>1. new \in ProfileEntry /\ new.provider = p /\ new.list = 0 /\ new.roles = Roles(setup, p)
  <2>1. Roles(setup, p) \in SUBSET RoleSet
    BY DEF Roles, RoleSet
  <2> QED BY <2>1 DEF OwnEntry, ProfileEntry
<1> HIDE DEF new
<1>2. CASE p \in setup.files
  <2>1. Detected(setup, p) = <<new>>
    BY <1>2 DEF Detected, If, new
  <2>2. <<new>> \in Seq(ProfileEntry) /\ DOMAIN <<new>> = {1} /\ <<new>>[1] = new
    BY <1>1
  <2> QED BY <1>1, <1>2, <2>1, <2>2 DEF Detects
<1>3. CASE p \notin setup.files
  <2>1. Detected(setup, p) = <<>>
    BY <1>3 DEF Detected, If
  <2> QED BY <1>3, <2>1 DEF Detects
<1> QED BY <1>2, <1>3

\* Those of some and then of others.
LEMMA DetectsBoth ==
  ASSUME NEW setup, NEW P, NEW Q, P \cap Q = {},
         NEW es, NEW fs, Detects(setup, P, es), Detects(setup, Q, fs)
  PROVE  Detects(setup, P \cup Q, es \o fs)
<1> DEFINE gs == es \o fs
<1>1. es \in Seq(ProfileEntry) /\ fs \in Seq(ProfileEntry)
  BY DEF Detects
<1>2. /\ gs \in Seq(ProfileEntry) /\ DOMAIN gs = 1 .. Len(es) + Len(fs)
      /\ Len(es) \in Nat /\ Len(fs) \in Nat
      /\ \A i \in DOMAIN es : i \in DOMAIN gs /\ gs[i] = es[i]
      /\ \A i \in DOMAIN fs : Len(es) + i \in DOMAIN gs /\ gs[Len(es) + i] = fs[i]
  BY <1>1
<1>3. \A i \in DOMAIN gs : \/ i \in DOMAIN es /\ gs[i] = es[i]
                           \/ \E j \in DOMAIN fs : i = Len(es) + j /\ gs[i] = fs[j]
  <2> TAKE i \in DOMAIN gs
  <2>1. CASE i <= Len(es)
    BY <1>1, <1>2, <2>1
  <2>2. CASE i > Len(es)
    <3>1. i - Len(es) \in DOMAIN fs /\ i = Len(es) + (i - Len(es))
      BY <1>1, <1>2, <2>2
    <3> QED BY <1>2, <3>1
  <2> QED BY <1>2, <2>1, <2>2
<1> HIDE DEF gs
<1>4. \A i \in DOMAIN gs : /\ gs[i].provider \in (P \cup Q) \cap setup.files
                           /\ gs[i].list = 0 /\ gs[i].roles = Roles(setup, gs[i].provider)
  BY <1>3 DEF Detects
<1>5. ASSUME NEW p \in (P \cup Q) \cap setup.files PROVE \E i \in DOMAIN gs : gs[i].provider = p
  <2>1. CASE p \in P
    <3>1. PICK i \in DOMAIN es : es[i].provider = p
      BY <2>1 DEF Detects
    <3> QED BY <1>2, <3>1
  <2>2. CASE p \in Q
    <3>1. PICK i \in DOMAIN fs : fs[i].provider = p
      BY <2>2 DEF Detects
    <3>2. Len(es) + i \in DOMAIN gs /\ gs[Len(es) + i].provider = p
      BY <1>2, <3>1
    <3> QED BY <3>2
  <2> QED BY <2>1, <2>2
<1>6. ASSUME NEW i \in DOMAIN gs, NEW j \in DOMAIN gs, gs[i].provider = gs[j].provider
      PROVE  i = j
  <2>1. CASE i \in DOMAIN es /\ gs[i] = es[i] /\ j \in DOMAIN es /\ gs[j] = es[j]
    BY <1>6, <2>1 DEF Detects
  <2>2. CASE /\ \E k \in DOMAIN fs : i = Len(es) + k /\ gs[i] = fs[k]
             /\ \E k \in DOMAIN fs : j = Len(es) + k /\ gs[j] = fs[k]
    BY <1>6, <2>2 DEF Detects
  <2>3. ~(gs[i].provider \in P /\ gs[j].provider \in Q) /\ ~(gs[i].provider \in Q /\ gs[j].provider \in P)
    BY <1>6
  <2> QED BY <1>3, <2>1, <2>2, <2>3 DEF Detects
<1> QED BY <1>2, <1>4, <1>5, <1>6 DEF Detects, gs

\* The first draft says what the files do.
LEMMA FirstDraft ==
  ASSUME NEW setup, setup.files \subseteq Provider, NEW bs, BindingsOK(bs)
  PROVE  DraftOK(setup, bs, 0, Intrinsic(setup), bs)
<1> DEFINE a == Detectors[1]
           b == Detectors[2]
           c == Detectors[3]
           d == Detectors[4]
<1>1. Provider = {a, b, c, d} /\ a # b /\ a # c /\ a # d /\ b # c /\ b # d /\ c # d
  BY DEF Provider, Detectors
<1>2. Intrinsic(setup) = ((Detected(setup, a) \o Detected(setup, b)) \o Detected(setup, c)) \o Detected(setup, d)
  BY DEF Intrinsic
<1> HIDE DEF a, b, c, d
<1>3. /\ Detects(setup, {a}, Detected(setup, a)) /\ Detects(setup, {b}, Detected(setup, b))
      /\ Detects(setup, {c}, Detected(setup, c)) /\ Detects(setup, {d}, Detected(setup, d))
  BY <1>1, DetectsOne
<1>4. Detects(setup, {a} \cup {b}, Detected(setup, a) \o Detected(setup, b))
  BY <1>1, <1>3, DetectsBoth
<1>5. Detects(setup, ({a} \cup {b}) \cup {c}, (Detected(setup, a) \o Detected(setup, b)) \o Detected(setup, c))
  BY <1>1, <1>3, <1>4, DetectsBoth
<1>6. Detects(setup, (({a} \cup {b}) \cup {c}) \cup {d}, Intrinsic(setup))
  BY <1>1, <1>2, <1>3, <1>5, DetectsBoth
<1> DEFINE es == Intrinsic(setup)
<1>7. Detects(setup, Provider, es)
  <2>1. (({a} \cup {b}) \cup {c}) \cup {d} = Provider
    BY <1>1
  <2> QED BY <1>6, <2>1
<1> HIDE DEF es
<1>8. 1 .. 0 = {} /\ \A p : Told(bs, 0, p) = {}
  BY DEF Told
<1>9. \A i \in DOMAIN es : /\ es[i].list = 0
                           /\ RolesOf(es[i], bs) = Own(setup, es[i].provider)
  BY <1>7 DEF Detects, RolesOf, Own
<1>10. \A p : (\E i \in DOMAIN es : es[i].provider = p)
                <=> p \in Provider /\ (p \in setup.files \/ \E k \in 1 .. 0 : bs[k].provider = p)
  BY <1>7, <1>8 DEF Detects
<1>11. DraftOK(setup, bs, 0, es, bs)
  BY <1>7, <1>8, <1>9, <1>10 DEF DraftOK, BindingsOK, Detects
<1> QED BY <1>11 DEF es

\* What attribute makes of the bindings is the last draft.
LEMMA LastDraft ==
  ASSUME NEW setup, setup.files \subseteq Provider, NEW bs, BindingsOK(bs)
  PROVE  \E es, cs :
           /\ DraftOK(setup, bs, Len(bs), es, cs)
           /\ Attributed(setup, bs).builder = Owner(Chained(es, cs), "build")
           /\ Attributed(setup, bs).deployer = Owner(Chained(es, cs), "deploy")
           /\ Attributed(setup, bs).bindings = cs
<1>1. bs \in Seq(Bound) /\ Len(bs) \in Nat
  BY DEF BindingsOK, Grown
<1>2. PICK f :
        /\ f[0] = [entries |-> Intrinsic(setup), bindings |-> bs]
        /\ \A b \in 1 .. Len(bs) : f[b] = Merged(f[b - 1], b)
        /\ LET end     == f[Len(bs)]
               entries == Chained(end.entries, end.bindings)
           IN  /\ Attributed(setup, bs).builder = Owner(entries, "build")
               /\ Attributed(setup, bs).deployer = Owner(entries, "deploy")
               /\ Attributed(setup, bs).bindings = end.bindings
  BY <1>1, ByDrafts
<1> DEFINE OK(n, d) == /\ d \in [entries : Seq(ProfileEntry), bindings : Seq(Bound)]
                       /\ DraftOK(setup, bs, n, d.entries, d.bindings)
           T == {n \in 0 .. Len(bs) : OK(n, f[n])}
<1>3. 0 \in T
  <2>1. DraftOK(setup, bs, 0, Intrinsic(setup), bs)
    BY FirstDraft
  <2>2. Intrinsic(setup) \in Seq(ProfileEntry)
    BY <2>1 DEF DraftOK
  <2> QED BY <1>1, <1>2, <2>1, <2>2
<1>4. ASSUME NEW n \in 1 .. Len(bs), n - 1 \in T PROVE n \in T
  <2> DEFINE d == f[n - 1]
             es == d.entries
             cs == d.bindings
  <2>1. /\ d \in [entries : Seq(ProfileEntry), bindings : Seq(Bound)]
        /\ DraftOK(setup, bs, n - 1, es, cs)
        /\ f[n] = Merged(d, n) /\ n \in DOMAIN cs
    <3>1. d \in [entries : Seq(ProfileEntry), bindings : Seq(Bound)] /\ DraftOK(setup, bs, n - 1, es, cs)
      BY <1>4
    <3>2. Len(cs) = Len(bs) /\ cs \in Seq(Bound)
      BY <3>1 DEF DraftOK, Grown
    <3> QED BY <1>2, <3>1, <3>2
  <2> HIDE DEF d
  <2>2. ASSUME NEW gs, NEW hs, DraftOK(setup, bs, n, gs, hs), f[n] = [entries |-> gs, bindings |-> hs]
        PROVE  n \in T
    <3>1. gs \in Seq(ProfileEntry) /\ hs \in Seq(Bound)
      BY <2>2 DEF DraftOK, Grown
    <3>2. f[n] \in [entries : Seq(ProfileEntry), bindings : Seq(Bound)] /\ f[n].entries = gs /\ f[n].bindings = hs
      BY <2>2, <3>1
    <3> QED BY <2>2, <3>2
  <2> HIDE DEF T
  <2>3. CASE /\ \A i \in DOMAIN es : es[i].provider # cs[n].provider
             /\ f[n] = [entries |-> Append(es, Borrowed(cs[n].provider, n)), bindings |-> cs]
    <3>1. DraftOK(setup, bs, n, Append(es, Borrowed(cs[n].provider, n)), cs)
      BY <2>1, <2>3, Another
    <3> QED BY <2>2, <2>3, <3>1
  <2>4. ASSUME NEW i \in DOMAIN es, es[i].provider = cs[n].provider, es[i].list = 0,
               f[n] = [entries |-> [es EXCEPT ![i] =
                                      [@ EXCEPT !.roles = RolesOf(es[i], cs) \cup cs[n].roles]],
                       bindings |-> cs]
        PROVE  n \in T
    <3>1. DraftOK(setup, bs, n,
            [es EXCEPT ![i] = [@ EXCEPT !.roles = RolesOf(es[i], cs) \cup cs[n].roles]], cs)
      BY <2>1, <2>4, AddsRoles
    <3> QED BY <2>2, <2>4, <3>1
  <2>5. ASSUME NEW i \in DOMAIN es, es[i].provider = cs[n].provider, es[i].list # 0,
               f[n] = [entries |-> es,
                       bindings |-> [cs EXCEPT ![es[i].list] =
                                       [@ EXCEPT !.roles = RolesOf(es[i], cs) \cup cs[n].roles]]]
        PROVE  n \in T
    <3>1. DraftOK(setup, bs, n, es,
            [cs EXCEPT ![es[i].list] = [@ EXCEPT !.roles = RolesOf(es[i], cs) \cup cs[n].roles]])
      BY <2>1, <2>5, AddsToList
    <3> QED BY <2>2, <2>5, <3>1
  <2> QED BY <2>1, <2>3, <2>4, <2>5, Merging
<1> HIDE DEF T
<1>5. Len(bs) \in T
  <2>1. 0 .. Len(bs) \subseteq T
    BY <1>1, <1>3, <1>4, Upwards
  <2> QED BY <1>1, <2>1
<1>6. DraftOK(setup, bs, Len(bs), f[Len(bs)].entries, f[Len(bs)].bindings)
  BY <1>5 DEF T
<1> QED BY <1>2, <1>6

\* An owner has the role, if anyone has.
LEMMA OwnerHasRole ==
  ASSUME NEW es, DOMAIN es \subseteq Nat, NEW role
  PROVE  LET with == {es[i].provider : i \in {i \in DOMAIN es : role \in es[i].roles}}
         IN  IF with = {} THEN Owner(es, role) = "nobody" ELSE Owner(es, role) \in with
<1> DEFINE with == {i \in DOMAIN es : role \in es[i].roles}
<1>1. CASE with = {}
  BY <1>1 DEF Owner
<1>2. CASE with # {}
  <2>1. Min(with) \in with
    <3>1. with \subseteq Nat
      OBVIOUS
    <3> HIDE DEF with
    <3> QED BY <1>2, <3>1, Least DEF Min
  <2>2. Owner(es, role) = es[Min(with)].provider
    BY <1>2 DEF Owner
  <2> HIDE DEF with
  <2>3. Owner(es, role) \in {es[i].provider : i \in with}
    BY <2>1, <2>2
  <2> QED BY <1>2, <2>3 DEF with
<1> QED BY <1>1, <1>2

\* What chaining makes of the roles of an entry.
LEMMA ChainedRoles ==
  ASSUME NEW es \in Seq(ProfileEntry), NEW cs
  PROVE  LET r(i)    == RolesOf(es[i], cs)
             dropped == IF \E i \in DOMAIN es : r(i) = {"deploy"} THEN {"deploy"} ELSE {}
         IN  /\ DOMAIN Chained(es, cs) = DOMAIN es
             /\ \A i \in DOMAIN es :
                  /\ Chained(es, cs)[i].provider = es[i].provider
                  /\ Chained(es, cs)[i].roles =
                       IF {"build", "deploy"} \subseteq r(i) THEN r(i) \ dropped ELSE r(i)
<1> DEFINE r(i) == RolesOf(es[i], cs)
           roles == [i \in DOMAIN es |-> r(i)]
           dedicated == {i \in DOMAIN es : roles[i] = {"deploy"}}
           dropped == IF dedicated = {} THEN {} ELSE {"deploy"}
           left(i) == IF {"build", "deploy"} \subseteq roles[i] THEN roles[i] \ dropped ELSE roles[i]
<1>1. Chained(es, cs) = [i \in DOMAIN es |-> [es[i] EXCEPT !.list = 0, !.roles = left(i)]]
  BY DEF Chained
<1>2. \A i \in DOMAIN es : roles[i] = r(i)
  OBVIOUS
<1>3. dropped = IF \E i \in DOMAIN es : r(i) = {"deploy"} THEN {"deploy"} ELSE {}
  OBVIOUS
<1> HIDE DEF roles, dropped, r
<1>4. ASSUME NEW i \in DOMAIN es
      PROVE  /\ Chained(es, cs)[i].provider = es[i].provider
             /\ Chained(es, cs)[i].roles = left(i)
  <2>1. es[i] \in ProfileEntry
    OBVIOUS
  <2>2. \A x : LET e == [es[i] EXCEPT !.list = 0, !.roles = x]
               IN  e.provider = es[i].provider /\ e.roles = x
    BY <2>1 DEF ProfileEntry
  <2>3. Chained(es, cs)[i] = [es[i] EXCEPT !.list = 0, !.roles = left(i)]
    BY <1>1
  <2> HIDE DEF left
  <2> QED BY <2>2, <2>3, Zenon
<1>5. DOMAIN Chained(es, cs) = DOMAIN es
  BY <1>1
<1> QED BY <1>2, <1>3, <1>4, <1>5 DEF r

\* Who is said to have a role by the bindings.
NamedIn(bs, role) == {bs[b].provider : b \in {b \in DOMAIN bs : bs[b].found = role}}

\* The owners are right for all evidence.
Right(setup, bs, builder, deployer) ==
  LET builds  == setup.files \cup NamedIn(bs, "build")
      deploys == NamedIn(bs, "deploy") \cup (setup.files \cap (setup.signs \ {"octopus"}))
      fits(owner, set) == IF set = {} THEN owner = "nobody" ELSE owner \in set
  IN  /\ fits(deployer, IF deploys \ builds # {} THEN deploys \ builds ELSE deploys)
      /\ fits(builder, builds)

\* The owners that are read from the last draft are.
LEMMA OwnersFit ==
  ASSUME NEW setup, setup.files \subseteq Provider, NEW bs, BindingsOK(bs),
         NEW es, NEW cs, DraftOK(setup, bs, Len(bs), es, cs)
  PROVE  Right(setup, bs, Owner(Chained(es, cs), "build"), Owner(Chained(es, cs), "deploy"))
<1> DEFINE builds == setup.files \cup NamedIn(bs, "build")
           deploys == NamedIn(bs, "deploy") \cup (setup.files \cap (setup.signs \ {"octopus"}))
           r(i) == RolesOf(es[i], cs)
           p(i) == es[i].provider
           gs == Chained(es, cs)
           with(role) == {gs[i].provider : i \in {i \in DOMAIN gs : role \in gs[i].roles}}
<1>1. bs \in Seq(Bound) /\ es \in Seq(ProfileEntry) /\ DOMAIN bs = 1 .. Len(bs) /\ Len(bs) \in Nat
  BY DEF DraftOK, BindingsOK, Grown
<1>2. ASSUME NEW i \in DOMAIN es
      PROVE  /\ "build" \in r(i) <=> p(i) \in builds
             /\ "deploy" \in r(i) <=> p(i) \in deploys
             /\ r(i) \subseteq {"build", "deploy"}
  <2>1. r(i) = Own(setup, p(i)) \cup Told(bs, Len(bs), p(i))
    BY DEF DraftOK
  <2>2. \A role : role \in Told(bs, Len(bs), p(i)) <=> p(i) \in NamedIn(bs, role)
    BY <1>1 DEF Told, NamedIn
  <2>3. /\ "build" \in Own(setup, p(i)) <=> p(i) \in setup.files
        /\ "deploy" \in Own(setup, p(i)) <=> p(i) \in setup.files \cap (setup.signs \ {"octopus"})
        /\ Own(setup, p(i)) \subseteq {"build", "deploy"}
    BY DEF Own, Roles
  <2>4. Told(bs, Len(bs), p(i)) \subseteq {"build", "deploy"}
    <3>1. \A b \in 1 .. Len(bs) : bs[b] \in Bound
      BY <1>1
    <3>2. \A b \in 1 .. Len(bs) : bs[b].found \in {"build", "deploy"}
      BY <3>1 DEF Bound, RoleSet
    <3> QED BY <3>2 DEF Told
  <2> HIDE DEF r, p
  <2> QED BY <2>1, <2>2, <2>3, <2>4
<1>3. \A q \in builds \cup deploys : \E i \in DOMAIN es : p(i) = q
  <2>1. ASSUME NEW q \in builds \cup deploys
        PROVE  q \in Provider /\ (q \in setup.files \/ \E b \in 1 .. Len(bs) : bs[b].provider = q)
    <3>1. CASE q \in setup.files
      BY <3>1
    <3>2. ASSUME NEW b \in DOMAIN bs, bs[b].provider = q
          PROVE  q \in Provider /\ \E c \in 1 .. Len(bs) : bs[c].provider = q
      <4>1. bs[b] \in Bound
        BY <1>1
      <4> QED BY <1>1, <3>2, <4>1 DEF Bound
    <3> QED BY <3>1, <3>2 DEF NamedIn
  <2> QED BY <2>1 DEF DraftOK
<1>4. /\ DOMAIN gs = DOMAIN es
      /\ \A i \in DOMAIN es :
           /\ gs[i].provider = p(i)
           /\ gs[i].roles = IF {"build", "deploy"} \subseteq r(i)
                            THEN r(i) \ (IF \E j \in DOMAIN es : r(j) = {"deploy"} THEN {"deploy"} ELSE {})
                            ELSE r(i)
  BY <1>1, ChainedRoles
<1> HIDE DEF gs, r, p, builds, deploys
<1>5. \A i \in DOMAIN es : r(i) = {"deploy"} <=> p(i) \in deploys \ builds
  BY <1>2
<1>6. (\E i \in DOMAIN es : r(i) = {"deploy"}) <=> deploys \ builds # {}
  BY <1>3, <1>5
<1>7. ASSUME NEW role, NEW set, set \subseteq builds \cup deploys,
             \A i \in DOMAIN es : role \in gs[i].roles <=> p(i) \in set
      PROVE  with(role) = set
  <2>1. \A q : q \in with(role) <=> \E i \in DOMAIN gs : role \in gs[i].roles /\ gs[i].provider = q
    OBVIOUS
  <2> HIDE DEF with
  <2>2. \A q : q \in with(role) <=> \E i \in DOMAIN es : p(i) \in set /\ p(i) = q
    BY <1>4, <1>7, <2>1
  <2> QED BY <1>3, <1>7, <2>2
<1>8. with("build") = builds
  <2>1. \A i \in DOMAIN es : "build" \in gs[i].roles <=> p(i) \in builds
    BY <1>2, <1>4
  <2> HIDE DEF with
  <2> QED BY <1>7, <2>1
<1>9. with("deploy") = IF deploys \ builds # {} THEN deploys \ builds ELSE deploys
  <2>1. CASE deploys \ builds # {}
    <3>1. \A i \in DOMAIN es : "deploy" \in gs[i].roles <=> p(i) \in deploys \ builds
      BY <1>2, <1>4, <1>6, <2>1
    <3> HIDE DEF with
    <3> QED BY <1>7, <2>1, <3>1
  <2>2. CASE deploys \ builds = {}
    <3>1. \A i \in DOMAIN es : "deploy" \in gs[i].roles <=> p(i) \in deploys
      BY <1>2, <1>4, <1>6, <2>2
    <3> HIDE DEF with
    <3> QED BY <1>7, <2>2, <3>1
  <2> QED BY <2>1, <2>2
<1>10. DOMAIN gs \subseteq Nat
  BY <1>1, <1>4
<1>11. /\ IF with("build") = {} THEN Owner(gs, "build") = "nobody" ELSE Owner(gs, "build") \in with("build")
       /\ IF with("deploy") = {} THEN Owner(gs, "deploy") = "nobody"
                                 ELSE Owner(gs, "deploy") \in with("deploy")
  BY <1>10, OwnerHasRole
<1> HIDE DEF with
<1> QED BY <1>8, <1>9, <1>11 DEF Right, gs, builds, deploys

\* A finite set is listed in a sequence.
LEMMA ListOfSet ==
  ASSUME NEW S, IsFiniteSet(S)
  PROVE  SetToSeq(S) \in Seq(S)
<1>1. Cardinality(S) \in Nat /\ ExistsBijection(1 .. Cardinality(S), S)
  BY FS_CardinalityType
<1>2. \E f \in [1 .. Cardinality(S) -> S] : IsInjective(f)
  BY <1>1 DEF ExistsBijection, Bijection, Injection
<1>3. SetToSeq(S) \in [1 .. Cardinality(S) -> S]
  BY <1>2 DEF SetToSeq
<1> QED BY <1>1, <1>3

\* Bindings that no role was added to yet.
Fresh(bs) == bs \in Seq(Bound) /\ \A b \in DOMAIN bs : bs[b].roles = {bs[b].found}

\* Those of one provider are, and those of one source after another.
LEMMA FreshOnes ==
  /\ Fresh(<<>>)
  /\ \A p \in Provider : Fresh(Builds(p)) /\ Fresh(Deploys(p))
  /\ \A bs, cs : Fresh(bs) /\ Fresh(cs) => Fresh(bs \o cs)
<1>1. Fresh(<<>>)
  BY DEF Fresh
<1>2. ASSUME NEW p \in Provider, NEW role \in RoleSet PROVE Fresh(<<Binding(p, role, "")>>)
  <2> DEFINE new == Binding(p, role, "")
  <2>1. new \in Bound /\ new.roles = {new.found}
    BY DEF Binding, Bound
  <2> HIDE DEF new
  <2>2. <<new>> \in Seq(Bound) /\ DOMAIN <<new>> = {1} /\ <<new>>[1] = new
    BY <2>1
  <2>3. Fresh(<<new>>)
    BY <2>1, <2>2 DEF Fresh
  <2> QED BY <2>3 DEF new
<1>3. \A p \in Provider : Fresh(Builds(p)) /\ Fresh(Deploys(p))
  BY <1>2 DEF Builds, Deploys, RoleSet
<1>4. ASSUME NEW bs, NEW cs, Fresh(bs), Fresh(cs) PROVE Fresh(bs \o cs)
  <2> DEFINE ds == bs \o cs
  <2>1. bs \in Seq(Bound) /\ cs \in Seq(Bound)
    BY <1>4 DEF Fresh
  <2>2. /\ ds \in Seq(Bound) /\ DOMAIN ds = 1 .. Len(bs) + Len(cs)
        /\ \A b \in DOMAIN ds : ds[b] = IF b \in DOMAIN bs THEN bs[b] ELSE cs[b - Len(bs)]
        /\ \A b \in DOMAIN ds : b \notin DOMAIN bs => b - Len(bs) \in DOMAIN cs
    BY <2>1
  <2> HIDE DEF ds
  <2>3. Fresh(ds)
    BY <1>4, <2>2 DEF Fresh
  <2> QED BY <2>3 DEF ds
<1> QED BY <1>1, <1>3, <1>4

\* The bindings of jobs that name an environment.
LEMMA FreshJobs ==
  ASSUME NEW setup \in Setup(Envs), NEW p \in {"github-actions", "bitbucket-pipelines"}
  PROVE  Fresh(OfJobs(setup, p))
<1> DEFINE jobs == SetToSeq(setup.jobs[p])
<1>1. setup.jobs[p] \in SUBSET Envs
  BY DEF Setup
<1>2. IsFiniteSet(setup.jobs[p])
  BY <1>1, EnvsAssumption, FS_Subset
<1>3. jobs \in Seq(setup.jobs[p])
  BY <1>2, ListOfSet
<1> HIDE DEF jobs
<1>4. /\ DOMAIN jobs = 1 .. Len(jobs) /\ Len(jobs) \in Nat
      /\ \A i \in DOMAIN jobs : jobs[i] \in Envs
  BY <1>1, <1>3
<1>5. p \in Provider
  BY DEF Provider, Detectors
<1>6. \A e \in Envs : LET b == Binding(p, "deploy", e) IN b \in Bound /\ b.roles = {b.found}
  BY <1>5 DEF Binding, Bound, RoleSet
<1>7. OfJobs(setup, p) = [i \in 1 .. Len(jobs) |-> Binding(p, "deploy", jobs[i])]
  BY <1>4 DEF OfJobs, jobs
<1>8. OfJobs(setup, p) \in Seq(Bound)
  BY <1>4, <1>6, <1>7
<1>9. \A i \in DOMAIN OfJobs(setup, p) : OfJobs(setup, p)[i].roles = {OfJobs(setup, p)[i].found}
  BY <1>4, <1>6, <1>7
<1> QED BY <1>8, <1>9 DEF Fresh

\* What discovery finds.
LEMMA FreshFinds ==
  ASSUME NEW setup \in Setup(Envs), NEW p \in Provider, NEW up, NEW traced
  PROVE  Fresh(Discovered(setup, p, up, traced))
<1>1. \A c, bs : Fresh(bs) => Fresh(If(c, bs))
  BY FreshOnes DEF If
<1>2. \A q \in Provider : Fresh(Builds(q)) /\ Fresh(Deploys(q))
  BY FreshOnes
<1>3. \A bs, cs : Fresh(bs) /\ Fresh(cs) => Fresh(bs \o cs)
  BY FreshOnes
<1>4. p \in {"github-actions", "bitbucket-pipelines", "teamcity", "octopus"}
  BY DEF Provider, Detectors
<1>5. CASE p = "github-actions"
  <2>1. /\ \A c : Fresh(If(c, Builds("github-actions")))
        /\ Fresh(OfJobs(setup, "github-actions"))
    BY <1>1, <1>2, <1>5, FreshJobs
  <2>2. Fresh(FromGitHub(setup))
    BY <1>3, <2>1 DEF FromGitHub
  <2> QED BY <1>5, <2>2, Zenon DEF Discovered
<1>6. CASE p = "bitbucket-pipelines"
  <2>1. Fresh(FromBitbucket(setup))
    BY <1>1, <1>2, <1>6, FreshJobs DEF FromBitbucket
  <2> QED BY <1>6, <2>1, Zenon DEF Discovered
<1>7. CASE p = "teamcity"
  <2>1. Fresh(FromTeamCity(setup, up))
    BY <1>1, <1>2, <1>3, <1>7 DEF FromTeamCity
  <2> QED BY <1>7, <2>1, Zenon DEF Discovered
<1>8. CASE p = "octopus"
  <2>1. Fresh(FromOctopus(setup, up, traced))
    BY <1>1, <1>2, <1>3, <1>8 DEF FromOctopus
  <2> QED BY <1>8, <2>1, Zenon DEF Discovered
<1> QED BY <1>4, <1>5, <1>6, <1>7, <1>8

\* What bindings say of one another stays when more are found.
LEMMA MoreBindings ==
  ASSUME NEW bs, BindingsOK(bs), NEW cs, Fresh(cs)
  PROVE  BindingsOK(bs \o cs)
<1> DEFINE ds == bs \o cs
<1>1. bs \in Seq(Bound) /\ cs \in Seq(Bound)
  BY DEF BindingsOK, Grown, Fresh
<1>2. /\ ds \in Seq(Bound) /\ Len(ds) = Len(bs) + Len(cs) /\ Len(bs) \in Nat /\ Len(cs) \in Nat
      /\ \A b \in 1 .. Len(bs) : ds[b] = bs[b]
      /\ \A b \in 1 .. Len(ds) : b \in 1 .. Len(bs) \/ (b - Len(bs) \in DOMAIN cs /\ ds[b] = cs[b - Len(bs)])
  BY <1>1
<1> HIDE DEF ds
<1>3. \A p : Told(bs, Len(bs), p) \subseteq Told(ds, Len(ds), p)
  <2>1. \A b \in 1 .. Len(bs) : b \in 1 .. Len(ds)
    BY <1>2
  <2> QED BY <1>2, <2>1 DEF Told
<1>4. \A b \in 1 .. Len(ds) : ds[b].found \in Told(ds, Len(ds), ds[b].provider)
  BY DEF Told
<1>5. ASSUME NEW b \in 1 .. Len(ds)
      PROVE  ds[b].found \in ds[b].roles /\ ds[b].roles \subseteq Told(ds, Len(ds), ds[b].provider)
  <2>1. CASE b \in 1 .. Len(bs)
    <3>1. bs[b].found \in bs[b].roles /\ bs[b].roles \subseteq Told(bs, Len(bs), bs[b].provider)
      BY <2>1 DEF BindingsOK, Grown
    <3> QED BY <1>2, <1>3, <2>1, <3>1
  <2>2. CASE b - Len(bs) \in DOMAIN cs /\ ds[b] = cs[b - Len(bs)]
    <3>1. ds[b].roles = {ds[b].found}
      BY <2>2 DEF Fresh
    <3> QED BY <1>4, <3>1
  <2> QED BY <1>2, <2>1, <2>2
<1>6. BindingsOK(ds)
  BY <1>2, <1>5 DEF BindingsOK, Grown
<1> QED BY <1>6 DEF ds

\* And when lists of roles have grown.
LEMMA GrownBindings ==
  ASSUME NEW bs, BindingsOK(bs), NEW cs, Grown(bs, cs)
  PROVE  BindingsOK(cs) /\ \A role : NamedIn(cs, role) = NamedIn(bs, role)
<1>1. bs \in Seq(Bound) /\ cs \in Seq(Bound) /\ Len(cs) = Len(bs)
  BY DEF BindingsOK, Grown
<1>2. /\ DOMAIN bs = 1 .. Len(bs) /\ DOMAIN cs = 1 .. Len(bs) /\ 1 .. Len(cs) = 1 .. Len(bs)
      /\ \A b \in 1 .. Len(bs) : cs[b].provider = bs[b].provider /\ cs[b].found = bs[b].found
  BY <1>1 DEF Grown
<1>3. \A p : Told(cs, Len(cs), p) = Told(bs, Len(bs), p)
  BY <1>2 DEF Told
<1>4. \A role : NamedIn(cs, role) = NamedIn(bs, role)
  BY <1>2 DEF NamedIn
<1>5. BindingsOK(cs)
  BY <1>1, <1>2, <1>3 DEF BindingsOK, Grown
<1> QED BY <1>4, <1>5

\* The setup of the repository never changes.
LEMMA SetupStays ==
  ASSUME ServerOK, [Next]_vars
  PROVE  world'.setup = world.setup
<1>1. world \in Setting
  BY DEF ServerOK
<1>2. ASSUME NEW what, Spend(what) PROVE world'.setup = world.setup
  <2>1. \A l : [world EXCEPT !.left = l].setup = world.setup
    BY <1>1 DEF Setting
  <2>2. world' = [world EXCEPT !.left = [world.left EXCEPT ![what] = @ - 1]]
    BY <1>2 DEF Spend
  <2> QED BY <2>1, <2>2
<1>3. world' = world \/ \E what : Spend(what)
  BY DEF Next, vars, server, Release, Deploy, AddVariable, Change, Discover, Attribute, Walk, Resolve,
         ResolveAnew, AcquireValue, WalkDeployments, WalkRelease, WalkInformation, NewBuild
<1> QED BY <1>2, <1>3

\* The bindings and what was said of them.
OwnerInv ==
  /\ BindingsOK(bindings)
  /\ said.what = "profile" => Right(world.setup, bindings, said.builder, said.deployer)

\* Discovery adds bindings, attribution their roles, and no other step changes
\* them or says who owns the repository.
LEMMA OwnerSteps == OwnerInv /\ ServerOK /\ [Next]_vars => OwnerInv'
<1> SUFFICES ASSUME OwnerInv, ServerOK, [Next]_vars PROVE OwnerInv'
  OBVIOUS
<1>1. world'.setup = world.setup /\ world.setup \in Setup(Envs) /\ BindingsOK(bindings)
  BY SetupStays DEF ServerOK, Setting, OwnerInv
<1>2. world.setup.files \subseteq Provider
  BY <1>1 DEF Setup
<1>3. ASSUME NEW p \in Provider, Discover(p) PROVE OwnerInv'
  <2>1. PICK up \in BOOLEAN : bindings' = bindings \o Discovered(world.setup, p, up, Traced)
    BY <1>3 DEF Discover
  <2>2. BindingsOK(bindings')
    BY <1>1, <2>1, FreshFinds, MoreBindings
  <2>3. said'.what # "profile"
    BY <1>3 DEF Discover, Nothing
  <2> QED BY <2>2, <2>3 DEF OwnerInv
<1>4. CASE Attribute
  <2> DEFINE profile == Attributed(world.setup, bindings)
  <2>1. PICK es, cs :
          /\ DraftOK(world.setup, bindings, Len(bindings), es, cs)
          /\ profile.builder = Owner(Chained(es, cs), "build")
          /\ profile.deployer = Owner(Chained(es, cs), "deploy")
          /\ profile.bindings = cs
    BY <1>1, <1>2, LastDraft
  <2>2. Right(world.setup, bindings, profile.builder, profile.deployer)
    BY <1>1, <1>2, <2>1, OwnersFit
  <2>3. said'.builder = profile.builder /\ said'.deployer = profile.deployer /\ bindings' = cs
    BY <1>4, <2>1 DEF Attribute
  <2>4. Grown(bindings, cs)
    BY <2>1 DEF DraftOK
  <2>5. BindingsOK(cs) /\ \A role : NamedIn(cs, role) = NamedIn(bindings, role)
    BY <1>1, <2>4, GrownBindings
  <2> HIDE DEF profile
  <2>6. Right(world'.setup, bindings', said'.builder, said'.deployer)
    BY <1>1, <2>2, <2>3, <2>5 DEF Right
  <2> QED BY <2>3, <2>5, <2>6 DEF OwnerInv
<1>5. CASE NewBuild
  <2>1. bindings' = <<>> /\ said'.what # "profile"
    BY <1>5 DEF NewBuild, Nothing
  <2> QED BY <2>1 DEF OwnerInv, BindingsOK, Grown
<1>6. CASE UNCHANGED bindings /\ (UNCHANGED said \/ said'.what # "profile")
  BY <1>1, <1>6 DEF OwnerInv
<1>7. ASSUME ~NewBuild, ~Attribute, \A p \in Provider : ~Discover(p)
      PROVE  UNCHANGED bindings /\ (UNCHANGED said \/ said'.what # "profile")
  <2>1. CASE \/ \E kind \in Kind : Release(kind)
             \/ \E e \in Envs, r \in DOMAIN releases : Deploy(e, r)
             \/ \E v \in Variables : AddVariable(v)
    <3>1. \E what : Change(what)
      BY <2>1 DEF Release, Deploy, AddVariable
    <3> QED BY <3>1 DEF Change
  <2>2. CASE \E e \in Envs : Walk(e) \/ Resolve(e) \/ ResolveAnew(e)
    BY <2>2 DEF Walk, Resolve, ResolveAnew, Say, Nothing
  <2>3. CASE \E e \in Envs : AcquireValue(e)
    BY <2>3 DEF AcquireValue
  <2>4. CASE WalkDeployments \/ WalkRelease \/ WalkInformation
    <3>1. UNCHANGED said \/ \E ref : Answered(ref)
      BY <2>4 DEF WalkDeployments, WalkRelease, WalkInformation, NoAnswer, Found
    <3>2. UNCHANGED bindings
      BY <2>4 DEF WalkDeployments, WalkRelease, WalkInformation
    <3> QED BY <3>1, <3>2 DEF Answered
  <2>5. CASE UNCHANGED vars
    BY <2>5 DEF vars, client
  <2> QED BY <1>7, <2>1, <2>2, <2>3, <2>4, <2>5 DEF Next
<1> QED BY <1>3, <1>4, <1>5, <1>6, <1>7

\* Who builds and who deploys is told from all evidence, for every setup, in
\* whatever order the connectors are asked and however often it is weighed
\* (AttributionEngine.attribute).
THEOREM OwnersTold == Spec => []OwnerIsRight
<1>1. Init => OwnerInv
  BY DEF Init, OwnerInv, BindingsOK, Grown, Nothing
<1>2. OwnerInv => OwnerIsRight
  BY DEF OwnerInv, OwnerIsRight, Right, Named, NamedIn
<1>3. TypeOK => ServerOK
  BY DEF TypeOK
<1> QED BY <1>1, <1>2, <1>3, OwnerSteps, Typed, PTL DEF Spec
=============================================================================
