----------------------------- MODULE Attribution -----------------------------
(***************************************************************************)
(* Who builds and who deploys a repository: what the CI/CD connectors find *)
(* (discover_for_repo of tendril/connectors/cicd/) and what                *)
(* AttributionEngine.attribute makes of it (tendril/core/attribution.py).  *)
(*                                                                         *)
(* A profile entry that comes from a binding has the binding's own list of *)
(* roles, so what is appended to one is appended to the other.  No role is *)
(* appended twice, and nothing asks for their order: a list is its set.    *)
(***************************************************************************)
EXTENDS Naturals, SequencesExt

\* Providers that have a connector, in the order of INTRINSIC_DETECTORS.
Detectors == <<"github-actions", "teamcity", "octopus", "bitbucket-pipelines">>
Provider  == {Detectors[i] : i \in DOMAIN Detectors}

\* What can be known about a repository: the connectors that are configured,
\* providers whose files are in its tree and those whose workflow files have a
\* deploy step, deploy jobs that the fixtures of two connectors name, where among
\* the workflow files of GitHub there is one without such a job, whether TeamCity
\* has a VCS root for it, and how Octopus could tell that a project is its.
Setup(Env) ==
  [connectors : SUBSET Provider, files : SUBSET Provider, signs : SUBSET Provider,
   jobs : [{"github-actions", "bitbucket-pipelines"} -> SUBSET Env],
   plain : {"none", "before", "after"},
   root : BOOLEAN, project : {"none", "url", "provenance"}]

-----------------------------------------------------------------------------
\* `found' is what `roles' was when the binding was made.
Binding(provider, role, env) ==
  [provider |-> provider, found |-> role, roles |-> {role}, env |-> env]

Builds(provider)  == <<Binding(provider, "build", "")>>
Deploys(provider) == <<Binding(provider, "deploy", "")>>
If(condition, list) == IF condition THEN list ELSE <<>>

\* One binding for each job that names an environment.
OfJobs(setup, provider) ==
  LET jobs == SetToSeq(setup.jobs[provider])
  IN  [i \in DOMAIN jobs |-> Binding(provider, "deploy", jobs[i])]

\* What discover_for_repo of each connector returns.  Each workflow file tells
\* for itself: one without such a job builds, and so does one that cannot be read
\* or, when there is no fixture, that is only known by its name.
FromGitHub(setup) ==
  If(setup.plain = "before", Builds("github-actions"))
    \o OfJobs(setup, "github-actions")
    \o If(setup.plain = "after", Builds("github-actions"))

\* A pipeline file whose steps are not read builds; a fixture of it without
\* deployments yields nothing, as if there were no file.
FromBitbucket(setup) ==
  LET jobs == OfJobs(setup, "bitbucket-pipelines")
  IN  IF jobs # <<>> THEN jobs
      ELSE If("bitbucket-pipelines" \in setup.files, Builds("bitbucket-pipelines"))

\* `up' says whether the server answers.
FromTeamCity(setup, up) ==
  If("teamcity" \in setup.files, Builds("teamcity")) \o If(up /\ setup.root, Builds("teamcity"))

\* `traced' says whether one of the releases it samples names the repository.
FromOctopus(setup, up, traced) ==
  If("octopus" \in setup.files, Deploys("octopus"))
    \o If(/\ up
          /\ setup.project = "url" \/ (setup.project = "provenance" /\ traced),
          Deploys("octopus"))

Discovered(setup, provider, up, traced) ==
  CASE provider = "github-actions"      -> FromGitHub(setup)
    [] provider = "bitbucket-pipelines" -> FromBitbucket(setup)
    [] provider = "teamcity"            -> FromTeamCity(setup, up)
    [] provider = "octopus"             -> FromOctopus(setup, up, traced)

-----------------------------------------------------------------------------
\* Workflow files of Octopus are not read; one that cannot be read has no sign.
Roles(setup, provider) ==
  {"build"} \cup (IF provider \in setup.signs \ {"octopus"} THEN {"deploy"} ELSE {})

\* `list' is the binding whose list the entry has, 0 for one of its own.
OwnEntry(provider, roles) == [provider |-> provider, roles |-> roles, list |-> 0, confidence |-> "high"]
Borrowed(provider, list)  == [provider |-> provider, roles |-> {}, list |-> list, confidence |-> "medium"]

Detected(setup, provider) ==
  If(provider \in setup.files, <<OwnEntry(provider, Roles(setup, provider))>>)

Intrinsic(setup) ==
  Detected(setup, Detectors[1]) \o Detected(setup, Detectors[2])
    \o Detected(setup, Detectors[3]) \o Detected(setup, Detectors[4])

RolesOf(entry, bindings) == IF entry.list = 0 THEN entry.roles ELSE bindings[entry.list].roles

\* Mutant: what a later binding adds to a list of another one is lost.
Merged_OwnListsOnly(draft, b) ==
  LET binding == draft.bindings[b]
      same    == {i \in DOMAIN draft.entries : draft.entries[i].provider = binding.provider}
      grown   == {i \in same : draft.entries[i].list = 0}
  IN  IF same = {}
      THEN [draft EXCEPT !.entries = Append(@, Borrowed(binding.provider, b))]
      ELSE IF grown = {} THEN draft ELSE [draft EXCEPT !.entries[Min(grown)].roles = @ \cup binding.roles]

\* One binding, against the entries so far; a binding's list may grow.
Merged(draft, b) ==
  LET binding == draft.bindings[b]
      same    == {i \in DOMAIN draft.entries : draft.entries[i].provider = binding.provider}
  IN  IF same = {}
      THEN [draft EXCEPT !.entries = Append(@, Borrowed(binding.provider, b))]
      ELSE LET i     == Min(same)
               entry == draft.entries[i]
               roles == RolesOf(entry, draft.bindings) \cup binding.roles
           IN  IF entry.list = 0
               THEN [draft EXCEPT !.entries[i].roles = roles]
               ELSE [draft EXCEPT !.bindings[entry.list].roles = roles]

\* With a provider that only deploys, those that build do not deploy.
Chained(entries, bindings) ==
  LET roles     == [i \in DOMAIN entries |-> RolesOf(entries[i], bindings)]
      dedicated == {i \in DOMAIN entries : roles[i] = {"deploy"}}
      dropped   == IF dedicated = {} THEN {} ELSE {"deploy"}
  IN  [i \in DOMAIN entries |->
         [entries[i] EXCEPT
            !.list  = 0,
            !.roles = IF {"build", "deploy"} \subseteq roles[i] THEN roles[i] \ dropped ELSE roles[i]]]

\* The first entry that has the role.
Owner(entries, role) ==
  LET with == {i \in DOMAIN entries : role \in entries[i].roles}
  IN  IF with = {} THEN "nobody" ELSE entries[Min(with)].provider

Overall(entries) ==
  CASE entries = <<>> -> "low"
    [] entries # <<>> /\ \A i \in DOMAIN entries : entries[i].confidence = "high" -> "high"
    [] OTHER -> "medium"

\* The profile, and the bindings as attribute() leaves them.
Attributed(setup, bindings) ==
  LET start   == [entries |-> Intrinsic(setup), bindings |-> bindings]
      draft[b \in 0 .. Len(bindings)] == IF b = 0 THEN start ELSE Merged(draft[b - 1], b)
      end     == draft[Len(bindings)]
      entries == Chained(end.entries, end.bindings)
  IN  [builder    |-> Owner(entries, "build"),
       deployer   |-> Owner(entries, "deploy"),
       confidence |-> Overall(entries),
       envs       |-> {bindings[b].env : b \in DOMAIN bindings} \ {""},
       bindings   |-> end.bindings]
=============================================================================
