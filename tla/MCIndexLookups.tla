---------------------------- MODULE MCIndexLookups ----------------------------
(***************************************************************************)
(* Two hosts, one with a dot and one without, spelled in three ways, with  *)
(* two paths, one with a port, claimed by two repositories in two          *)
(* environments, as hosts, tags, artifacts and queues.                     *)
(***************************************************************************)
EXTENDS IndexLookups

MCHosts   == {"api", "api.acme"}
MCLabelOf == {<<"api", "api.acme">>}

MCQueries ==
  {t \in Text : /\ t.host # Hole /\ t.path \in {"", "/x"}
                /\ t.port # "" => t.scheme /\ t.spelling = "plain" /\ t.path = ""}

\* Hosts with and without a scheme; repository `b' claims fewer of them.
Networks ==
  {e \in [value : {t \in MCQueries : t.path = "" \/ t.scheme}, class : {"network"},
          repo : Repos, env : Envs \cup {NoEnv}, of : {0}] :
     /\ e.value.scheme \/ e.value.spelling = "plain"
     /\ e.repo = "b" => e.value.spelling # "www" /\ e.value.port = "" /\ e.env # "staging"}

ServiceTags ==
  {e \in [value : MCQueries \cap ServiceName, class : {"service-tag"},
          repo : Repos, env : Envs \cup {NoEnv}, of : {0}] :
     e.value.host = "api" /\ e.value.spelling = "plain"}

Queues ==
  {e \in [value : MCQueries \cap ServiceName, class : {"logical"}, repo : {"a"}, env : {"prod"}, of : {0}] :
     e.value.spelling # "www"}

MCIdentities == Networks \cup ServiceTags \cup Queues
=============================================================================
