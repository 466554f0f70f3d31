-------------------------- MODULE OctopusVariables --------------------------
(***************************************************************************)
(* The variables of an Octopus project                                     *)
(* (tendril/connectors/cicd/octopus.py) and of the other connectors, as    *)
(* the acquisition ladder gets to see them.  All variables here have one   *)
(* name, since names are treated one by one.                               *)
(***************************************************************************)
EXTENDS AcquisitionLadder

\* `envs' and `more' are the scope; no environments means that it is not
\* scoped by environment.
Dimensions == {"role", "tenant", "channel"}
Variable == [envs : SUBSET Envs, more : SUBSET Dimensions, secret : BOOLEAN,
             value : Text \cup {NoText}]

-----------------------------------------------------------------------------
\* Only an environment is ever asked for, so the other dimensions match.
ScopeMatches(v, env) == v.envs = {} \/ env \in v.envs

Unscoped(v) == v.envs = {} /\ v.more = {}

\* Priority of the highest dimension, then the number of dimensions.
RankOf(v) ==
  LET priority ==
        CASE v.envs # {} -> 4
          [] v.envs = {} /\ "role" \in v.more -> 3
          [] v.envs = {} /\ "role" \notin v.more /\ "tenant" \in v.more -> 2
          [] v.envs = {} /\ v.more = {"channel"} -> 1
          [] OTHER -> 0
  IN  10 * priority + Cardinality(v.more)

\* Mutant: the most specific variables are taken before those of other
\* environments are put aside.
Compatible_RankFirst(group, env) ==
  LET top == {i \in DOMAIN group : \A j \in DOMAIN group : RankOf(group[j]) <= RankOf(group[i])}
      fit == {i \in top : ScopeMatches(group[i], env)}
  IN  IF fit # {} THEN fit ELSE top

\* Those of the environment; else the unscoped ones; else all of them.
Compatible(group, env) ==
  LET fit  == {i \in DOMAIN group : ScopeMatches(group[i], env)}
      bare == {i \in DOMAIN group : Unscoped(group[i])}
  IN  IF fit # {} THEN fit ELSE IF bare # {} THEN bare ELSE DOMAIN group

\* Mutant: with several most specific variables all candidates are returned.
BestMatch_All(group, env) == Compatible(group, env)

\* The best; several when they tie.
BestMatch(group, env) ==
  LET fit == Compatible(group, env)
  IN  {i \in fit : \A j \in fit : RankOf(group[j]) <= RankOf(group[i])}

\* The scope is written under other keys than the resolver reads.
Read(v, token) ==
  [key |-> token, value |-> IF v.secret THEN NoText ELSE v.value, secret |-> v.secret, scope |-> NoEnv]

Nth(numbers, k) == CHOOSE i \in numbers : Cardinality({j \in numbers : j < i}) = k - 1

\* read_variable_store for an environment: ties are all there, in their order.
OctopusStore(variables, token, env) ==
  LET best == BestMatch(variables, env)
  IN  [k \in 1 .. Cardinality(best) |-> Read(variables[Nth(best, k)], token)]

\* TeamCity parameters and GitHub variables are those of the environment.
OtherStore(parameters, token, env) ==
  [k \in DOMAIN parameters |->
     [key |-> token, value |-> IF parameters[k].secret THEN NoText ELSE parameters[k].value,
      secret |-> parameters[k].secret, scope |-> env]]

\* read_effective_value: what the server's preview says (external), unless it
\* is sensitive.
Effective(v) == IF v.secret THEN NoText ELSE v.value
=============================================================================
