----------------------------- MODULE DeployPlane -----------------------------
(***************************************************************************)
(* The deploy plane of one repository and what builds learn from it: who   *)
(* deploys it (Attribution), at which commit it runs                       *)
(* (resolve_deployed_ref of tendril/connectors/cicd/octopus.py and         *)
(* tendril/core/deployed_ref.py) and what a variable is worth there        *)
(* (OctopusVariables, AcquisitionLadder).  The server goes on releasing,   *)
(* deploying and editing variables between any two requests.               *)
(***************************************************************************)
EXTENDS Attribution, OctopusVariables

CONSTANTS Worlds,    \* the setups to consider, each with its bounds
          Variables, \* the variables that may be added
          Values,    \* a sequence: the n-th variable has the n-th value
          Token,     \* their name
          Sampled    \* number of releases that discovery looks at

\* `left' bounds what may still happen, by kind.
Bounded == [releases : Nat, deployments : Nat, variables : Nat, builds : Nat]

\* `parameters' are those that another store has under the name.
Setting ==
  [setup : Setup(Envs), parameters : Seq([secret : BOOLEAN, value : Text]), left : Bounded]

ASSUME WorldsAssumption == Worlds \subseteq Setting
ASSUME VariablesAssumption ==
  Variables \subseteq Variable /\ Values \in Seq(Text) /\ Token \in Tokens

\* A value tells which variable, or that a parameter, it is taken from.
ASSUME ValuesAssumption ==
  /\ \A i, j \in DOMAIN Values : Values[i] = Values[j] => i = j
  /\ \A w \in Worlds : \A k \in DOMAIN w.parameters, i \in DOMAIN Values :
       w.parameters[k].value # Values[i]
ASSUME EnvsAssumption == "" \notin Envs /\ IsFiniteSet(Envs)

VARIABLES
  world,     \* the setup, parameters in another store, and what may still change
  releases,  \* how each release, oldest first, tells its commit
  deployed,  \* deployed[e]: releases deployed to e, oldest first
  variables, \* the variable set of the project, in order
  asked,     \* connectors that discovery has asked in this build
  bindings,  \* what they found
  cache,     \* cache[e]: the resolver's ref for e
  walk,      \* where resolve_deployed_ref stands; its history `during' holds the
             \* releases that were current in its environment since it began
  said,      \* what the last operation returned
  current    \* history: current[e]: refs that were deployed in e during the build

server == <<world, releases, deployed, variables>>
client == <<asked, bindings, cache, walk, said>>
vars == <<server, client, current>>

-----------------------------------------------------------------------------
\* A release carries the build information itself, leaves it to the endpoint
\* of its package, or has none.
Kind == {"inline", "endpoint", "bare"}

NoRef == [release |-> 0, by |-> "nothing"]
Ref(r, by) == [release |-> r, by |-> by]

NoWalk == [at |-> "idle", env |-> NoEnv, release |-> 0, during |-> {}]
Nothing == [what |-> "nothing"]

Init ==
  /\ world \in Worlds
  /\ releases = <<>>
  /\ deployed = [e \in Envs |-> <<>>]
  /\ variables = <<>>
  /\ asked = {}
  /\ bindings = <<>>
  /\ cache = [e \in Envs |-> NoRef]
  /\ walk = NoWalk
  /\ said = Nothing
  /\ current = [e \in Envs |-> {NoRef}]

-----------------------------------------------------------------------------
(***************************************************************************)
(* Deployment records, newest first, and their choice.                     *)
(***************************************************************************)
\* What a record says that is taken for a commit: one that has no build
\* information says the version of its package or release, or nothing.
RefOf(r) ==
  CASE releases[r] = "inline"   -> Ref(r, "commit")
    [] releases[r] = "endpoint" -> Ref(r, "version")
    [] releases[r] = "bare"     -> NoRef

\* The newest record of the environment that says anything.
FromDeployments(e) ==
  LET telling == {i \in DOMAIN deployed[e] : RefOf(deployed[e][i]) # NoRef}
  IN  IF telling = {} THEN NoRef
      ELSE RefOf(deployed[e][CHOOSE i \in telling : \A j \in telling : j <= i])

-----------------------------------------------------------------------------
(***************************************************************************)
(* The server (external).                                                  *)
(***************************************************************************)
\* The release that was deployed last, if any.
Latest(e) == {deployed[e][i] : i \in {Len(deployed[e])} \ {0}}

Spend(what) ==
  /\ world.left[what] > 0
  /\ world' = [world EXCEPT !.left[what] = @ - 1]

Change(what) ==
  /\ Spend(what)
  /\ current' = [e \in Envs |-> current[e] \cup {FromDeployments(e)'}]
  /\ walk' = [walk EXCEPT !.during = @ \cup UNION {Latest(e)' : e \in Envs \cap {walk.env}}]
  /\ UNCHANGED <<asked, bindings, cache, said>>

Release(kind) ==
  /\ releases' = Append(releases, kind)
  /\ UNCHANGED <<deployed, variables>>
  /\ Change("releases")

Deploy(e, r) ==
  /\ deployed' = [deployed EXCEPT ![e] = Append(@, r)]
  /\ UNCHANGED <<releases, variables>>
  /\ Change("deployments")

AddVariable(v) ==
  /\ Len(variables) < Len(Values)
  /\ variables' = Append(variables, [v EXCEPT !.value = IF @ = NoText THEN NoText
                                                        ELSE Values[Len(variables) + 1]])
  /\ UNCHANGED <<releases, deployed>>
  /\ Change("variables")

-----------------------------------------------------------------------------
(***************************************************************************)
(* Attribution                                                             *)
(***************************************************************************)
Idle == walk.at = "idle"

Traced ==
  \E r \in DOMAIN releases : releases[r] = "inline" /\ r > Len(releases) - Sampled

\* discover_for_repo of one connector; a server that does not answer is passed
\* over.
Discover(provider) ==
  /\ Idle
  /\ provider \in world.setup.connectors \ asked
  /\ asked' = asked \cup {provider}
  /\ \E up \in BOOLEAN :
       bindings' = bindings \o Discovered(world.setup, provider, up, Traced)
  /\ said' = Nothing
  /\ UNCHANGED <<server, cache, walk, current>>

Attribute ==
  /\ Idle
  /\ LET profile == Attributed(world.setup, bindings)
     IN  /\ said' = [what |-> "profile", builder |-> profile.builder, deployer |-> profile.deployer,
                     confidence |-> profile.confidence, envs |-> profile.envs]
         /\ bindings' = profile.bindings
  /\ UNCHANGED <<server, asked, cache, walk, current>>

-----------------------------------------------------------------------------
(***************************************************************************)
(* resolve_deployed_ref: deployments, release, build information, with     *)
(* a request each.                                                         *)
(***************************************************************************)
Answered(ref) ==
  /\ walk' = NoWalk
  /\ said' = [what |-> "ref", ref |-> ref, during |-> walk.during]

NoAnswer == Answered(NoRef)
Found(r) == Answered(Ref(r, "commit"))

Walk(e) ==
  /\ Idle
  /\ walk' = [at |-> "deployments", env |-> e, release |-> 0, during |-> Latest(e)]
  /\ said' = Nothing
  /\ UNCHANGED <<server, asked, bindings, cache, current>>

\* The latest deployment, if the request succeeds and there is one.
WalkDeployments ==
  /\ walk.at = "deployments"
  /\ \/ NoAnswer
     \/ /\ \E r \in Latest(walk.env) : walk' = [walk EXCEPT !.at = "release", !.release = r]
        /\ UNCHANGED said
  /\ UNCHANGED <<server, asked, bindings, cache, current>>

\* Mutant: the release that is current by now.
WalkRelease_Latest ==
  /\ walk.at = "release"
  /\ \/ NoAnswer
     \/ releases[walk.release] = "inline" /\ Found(Len(releases))
     \/ /\ releases[walk.release] # "inline"
        /\ walk' = [walk EXCEPT !.at = "information"]
        /\ UNCHANGED said
  /\ UNCHANGED <<server, asked, bindings, cache, current>>

WalkRelease ==
  /\ walk.at = "release"
  /\ \/ NoAnswer
     \/ releases[walk.release] = "inline" /\ Found(walk.release)
     \/ /\ releases[walk.release] # "inline"
        /\ walk' = [walk EXCEPT !.at = "information"]
        /\ UNCHANGED said
  /\ UNCHANGED <<server, asked, bindings, cache, current>>

\* The endpoint is asked by package: it lists the builds of every release,
\* and the first is taken.
WalkInformation ==
  /\ walk.at = "information"
  /\ \/ NoAnswer
     \/ \E r \in DOMAIN releases : releases[r] # "bare" /\ Found(r)
  /\ UNCHANGED <<server, asked, bindings, cache, current>>

-----------------------------------------------------------------------------
(***************************************************************************)
(* DeployedRefResolver, over records that the caller has just read.        *)
(***************************************************************************)
Say(e, ref) == said' = [what |-> "record", env |-> e, ref |-> ref]

\* resolve(): what was once found stays.
Resolve(e) ==
  /\ Idle
  /\ LET ref == IF cache[e] # NoRef THEN cache[e] ELSE FromDeployments(e)
     IN  cache' = [cache EXCEPT ![e] = ref] /\ Say(e, ref)
  /\ UNCHANGED <<server, asked, bindings, walk, current>>

\* resolve_from_fixture() looks again.
ResolveAnew(e) ==
  /\ Idle
  /\ LET ref == FromDeployments(e)
     IN  /\ cache' = IF ref = NoRef THEN cache ELSE [cache EXCEPT ![e] = ref]
         /\ Say(e, ref)
  /\ UNCHANGED <<server, asked, bindings, walk, current>>

-----------------------------------------------------------------------------
(***************************************************************************)
(* The value of the variable: the ladder over the stores of the project    *)
(* and of another connector, and over what the provider that deploys       *)
(* says.                                                                   *)
(***************************************************************************)
Stores(e) ==
  <<OctopusStore(variables, Token, e), OtherStore(world.parameters, Token, e)>>

\* Rung 3 asks the provider that deploys, of which only Octopus can say.
Previews(e) ==
  {NoText} \cup
  (IF Attributed(world.setup, bindings).deployer = "octopus"
   THEN {Effective(variables[i]) : i \in {i \in DOMAIN variables : ScopeMatches(variables[i], e)}}
   ELSE {})

Resolved(stores, e, preview) == Acquire(Token, e, NoText, stores, preview)

\* A store whose request fails is not there.
AcquireValue(e) ==
  /\ Idle
  /\ \E stores \in {Stores(e), <<Stores(e)[2]>>}, preview \in Previews(e) :
       said' = [what |-> "value", env |-> e, known |-> Len(variables),
                result |-> Resolved(stores, e, preview)]
  /\ UNCHANGED <<server, asked, bindings, cache, walk, current>>

-----------------------------------------------------------------------------
\* Mutant: the resolver outlives the build.
NewBuild_SameResolver ==
  /\ Idle
  /\ Spend("builds")
  /\ asked' = {} /\ bindings' = <<>> /\ said' = Nothing
  /\ current' = [e \in Envs |-> {FromDeployments(e)}]
  /\ UNCHANGED <<releases, deployed, variables, cache, walk>>

\* Another process.
NewBuild ==
  /\ Idle
  /\ Spend("builds")
  /\ asked' = {} /\ bindings' = <<>> /\ said' = Nothing
  /\ cache' = [e \in Envs |-> NoRef]
  /\ current' = [e \in Envs |-> {FromDeployments(e)}]
  /\ UNCHANGED <<releases, deployed, variables, walk>>

Next ==
  \/ \E kind \in Kind : Release(kind)
  \/ \E e \in Envs, r \in DOMAIN releases : Deploy(e, r)
  \/ \E v \in Variables : AddVariable(v)
  \/ \E provider \in Provider : Discover(provider)
  \/ Attribute
  \/ \E e \in Envs : Walk(e) \/ Resolve(e) \/ ResolveAnew(e) \/ AcquireValue(e)
  \/ WalkDeployments \/ WalkRelease \/ WalkInformation
  \/ NewBuild

Spec == Init /\ [][Next]_vars

-----------------------------------------------------------------------------
Named(role) ==
  {bindings[b].provider : b \in {b \in DOMAIN bindings : bindings[b].found = role}}

\* Who deploys is told from all evidence, whatever order the connectors were
\* asked in and however often it was weighed: a provider that only deploys if
\* there is one, any that deploys if not; and every provider that builds is a
\* candidate for the builder.
OwnerIsRight ==
  LET builds  == world.setup.files \cup Named("build")
      deploys == Named("deploy") \cup (world.setup.files \cap (world.setup.signs \ {"octopus"}))
      fits(owner, set) == IF set = {} THEN owner = "nobody" ELSE owner \in set
  IN  said.what = "profile" =>
        /\ fits(said.deployer, IF deploys \ builds # {} THEN deploys \ builds ELSE deploys)
        /\ fits(said.builder, builds)

\* A ref that the walk finds was current in the environment at some time during
\* the call, when releases carry their build information.
RefIsDeployed ==
  said.what = "ref" /\ said.ref # NoRef /\ (\A r \in DOMAIN releases : releases[r] = "inline") =>
    said.ref.release \in said.during

\* What the resolver remembers was current in that environment since the build
\* began.
RefsOfThisBuild ==
  /\ \A e \in Envs : cache[e] \in current[e] \cup {NoRef}
  /\ said.what = "record" => said.ref = NoRef \/ said.ref = cache[said.env]

Suits(i, env) == ScopeMatches(variables[i], env)

\* A value is that of a variable which is not sensitive and applies to the
\* environment, if one of the name does; and a variable for the environment is
\* preferred to one for all.
ForThisEnvironment ==
  said.what = "value" /\ said.result.rung = "store_api" /\ said.result.resolved =>
    \A i \in 1 .. said.known : variables[i].value = said.result.value =>
      LET fit == {j \in 1 .. said.known : Suits(j, said.env)}
      IN  /\ ~variables[i].secret
          /\ fit # {} => i \in fit
          /\ (\E j \in fit : variables[j].envs # {}) => variables[i].envs # {}

\* What is read from the stores as they are; bound, so that TLC evaluates them
\* once.
Readings(e) == {Resolved(stores, e, NoText) : stores \in {Stores(e)}}

\* A variable that is added for other environments changes nothing in an
\* environment for which there is one.
OthersDontMatter ==
  [][\A e \in Envs :
       /\ Len(variables') > Len(variables)
       /\ e \notin variables'[Len(variables')].envs /\ variables'[Len(variables')].envs # {}
       /\ \E i \in DOMAIN variables : Suits(i, e)
       => Readings(e)' = Readings(e)]_vars
=============================================================================
