---------------------------- MODULE MCDeployPlane ----------------------------
(***************************************************************************)
(* Deploy planes for TLC: repositories that differ in what tells who       *)
(* deploys them, and one whose releases and variables change.              *)
(***************************************************************************)
EXTENDS DeployPlane

NamedText(h) == [scheme |-> FALSE, host |-> h, spelling |-> "plain", port |-> "", path |-> "/"]

MCEnvs   == {"prod", "staging"}
MCValues == <<NamedText("v1"), NamedText("v2"), NamedText("v3")>>
MCHosts  == {"v1", "v2", "v3", "p"}

NoJobs == [p \in {"github-actions", "bitbucket-pipelines"} |-> {}]

Plain == [connectors |-> {"octopus"}, files |-> {"github-actions"}, signs |-> {}, jobs |-> NoJobs,
          plain |-> "before", root |-> FALSE, project |-> "url"]

World(setup, parameters, left) ==
  [setup |-> setup, parameters |-> parameters, left |-> left]

Bounds(r, d, v, b) == [releases |-> r, deployments |-> d, variables |-> v, builds |-> b]

\* Workflows of GitHub: none, such that only build, and such that deploy with or
\* without one that only builds, which may be read before them or after.
Workflows ==
  {w \in [jobs : {NoJobs, [NoJobs EXCEPT !["github-actions"] = {"prod"}]},
          plain : {"none", "before", "after"}] :
     w.plain = "after" => w.jobs # NoJobs}

\* Any files of three connectors with a deploy step or not, and all that the
\* servers could add; one release, to be traced or not.  Without files of a
\* connector its bindings lend their lists of roles to the profile.
Attributions ==
  {World([Plain EXCEPT !.connectors = Provider \ {"bitbucket-pipelines"}, !.files = f,
                       !.signs = g \cap f, !.jobs = w.jobs, !.plain = w.plain,
                       !.root = root, !.project = project],
         <<>>, Bounds(IF project = "provenance" THEN 1 ELSE 0, 0, 0, 0)) :
     f \in SUBSET {"github-actions", "teamcity", "octopus"},
     g \in SUBSET {"github-actions", "teamcity"}, w \in Workflows,
     root \in BOOLEAN, project \in {"none", "url", "provenance"}}
  \cup
  {World([Plain EXCEPT !.connectors = {"bitbucket-pipelines", "octopus"}, !.files = f,
                       !.signs = g \cap f, !.jobs = j],
         <<>>, Bounds(0, 0, 0, 0)) :
     f \in SUBSET {"bitbucket-pipelines", "github-actions"}, g \in {{}, {"github-actions"}},
     j \in {NoJobs, [NoJobs EXCEPT !["bitbucket-pipelines"] = MCEnvs]}}

Parameter(secret) == [secret |-> secret, value |-> NamedText("p")]

\* Releases and deployments over two builds; three variables without and two
\* with a deploy owner to ask; and a little of everything.
Changing ==
  {World([Plain EXCEPT !.connectors = {}], <<>>, Bounds(2, 3, 0, 1)),
   World([Plain EXCEPT !.connectors = {}], <<Parameter(FALSE)>>, Bounds(0, 0, 3, 0)),
   World(Plain, <<Parameter(TRUE)>>, Bounds(0, 0, 2, 0)),
   World([Plain EXCEPT !.project = "provenance"], <<>>, Bounds(1, 1, 1, 1))}

MCWorlds == Attributions \cup Changing

\* Scopes that tie, that are more specific without an environment, and that are
\* of one environment, of the other or of both.
MCVariables ==
  {v \in [envs : SUBSET MCEnvs, more : {{}, {"role"}, {"channel", "tenant"}},
          secret : BOOLEAN, value : {MCValues[1], NoText}] :
     v.secret \/ v.value = NoText => v.more = {} /\ v.envs \in {{}, {"prod"}} /\ v.secret = (v.value # NoText)}
=============================================================================
