----------------------------- MODULE ServiceNames -----------------------------
(***************************************************************************)
(* From a service name in telemetry to a repository                        *)
(* (CrossValidator._resolve_service_name, tendril/core/cross_validate.py). *)
(***************************************************************************)
EXTENDS ReverseIndex

CONSTANT LabelOf   \* <<l, h>>: the host h begins with the label l and a dot

ASSUME LabelAssumption == LabelOf \subseteq Hosts \X Dotted

ServiceName == {t \in Text : ~t.scheme /\ t.host # Hole /\ t.port = "" /\ t.path = ""}

Tags(index, name, env) == {e \in Lookup(index, name, env) : e.class = "service-tag"}

\* Identities of every environment whose key begins with the name; keys are
\* in lower case and have no www.
Labelled(index, name) ==
  {e \in index : /\ e.class = "network"
                 /\ name.spelling = "plain"
                 /\ e.value.host = name.host \/ <<name.host, e.value.host>> \in LabelOf}

Found(e)             == [known |-> TRUE, repo |-> e.repo]
Unknown(reason, all) == [known |-> FALSE, reason |-> reason, candidates |-> {e.repo : e \in all}]

\* Mutant: the first of several tags is taken.
ResolveServiceName_First(index, name, env) ==
  LET tags == Tags(index, name, env)
      all  == IF tags # {} THEN tags ELSE Labelled(index, name)
  IN  IF all # {} THEN Found(CHOOSE e \in all : TRUE) ELSE Unknown("no-index-match", {})

ResolveServiceName(index, name, env) ==
  LET tags == Tags(index, name, env)
      all  == IF tags # {} THEN tags ELSE Labelled(index, name)
  IN  CASE Cardinality(all) = 1 -> Found(CHOOSE e \in all : TRUE)
        [] Cardinality(all) > 1 -> Unknown("ambiguous-match", all)
        [] OTHER                -> Unknown("no-index-match", {})
=============================================================================
