--------------------------- MODULE MCGraphSessions ---------------------------
(***************************************************************************)
(* Three repositories with the home pages shop.corp, shop.io and c.corp:   *)
(* telemetry may call them by host, `c' by its first label as well, and    *)
(* `shop' is ambiguous; `y' is nobody's.  Builds of two environments find  *)
(* the same dependency, or others, or none; the anchor of one of them, `a',*)
(* is not in the list of repositories.                                     *)
(***************************************************************************)
EXTENDS GraphSessions

MCDotted  == {"shop.corp", "shop.io", "c.corp"}
MCHosts   == MCDotted \cup {"shop", "c", "y"}
MCLabelOf == {<<"shop", "shop.corp">>, <<"shop", "shop.io">>, <<"c", "c.corp">>}

Name(host) ==
  [scheme |-> FALSE, host |-> host, spelling |-> "plain", port |-> "", path |-> ""]

\* A build indexes the home pages of the repositories listed, in its environment.
HomePage(host, repo, env) ==
  [value |-> [Name(host) EXCEPT !.scheme = TRUE],
   class |-> "network", repo |-> repo, env |-> env, of |-> 0]

HomePages(repos, env) ==
  {e \in {HomePage("shop.corp", "a", env), HomePage("shop.io", "b", env), HomePage("c.corp", "c", env)} :
     e.repo \in repos}

Depends(from, to, env, ref) ==
  [from |-> from, to |-> to, env |-> env, provenance |-> "declared",
   confidence |-> "high", ref |-> ref, signals |-> {}]

MCBuild(repos, env, found) ==
  [env |-> env, repos |-> repos, found |-> found, index |-> HomePages(repos, env)]

MCBuilds ==
  {MCBuild(Repos, "prod", <<Depends("a", "b", "prod", "sha1")>>),
   MCBuild({"b", "c"}, "prod", <<Depends("a", "c", "prod", "sha1"), Depends("b", "c", "prod", "sha2")>>),
   MCBuild(Repos, "staging", <<Depends("a", "b", "staging", "sha2")>>)}

To(from, to) == [from |-> Name(from), to |-> Name(to)]

Quiet == [cap \in Capability |-> <<>>]

MCTelemetries ==
  {Silent,
   [caps |-> Raises, data |-> Quiet],
   [caps |-> {"apm", "logs"},
    data |-> [Quiet EXCEPT !["apm"] = <<To("shop.corp", "shop.io"), To("shop.io", "shop.corp")>>, !["logs"] = Raises]],
   [caps |-> {"traces", "logs"},
    data |-> [Quiet EXCEPT !["traces"] = <<To("shop.corp", "c"), To("shop.corp", "c")>>,
                           !["logs"] = <<To("shop.corp", "shop.io"), To("shop", "y"), To("c", "y")>>]]}

=============================================================================
