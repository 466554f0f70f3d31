----------------------------- MODULE IndexLookups -----------------------------
(***************************************************************************)
(* The index in use: identities of many repositories are added, and texts  *)
(* are looked up and service names resolved between the additions          *)
(* (ReverseIndex in tendril/core/index.py, CrossValidator in               *)
(* tendril/core/cross_validate.py).                                        *)
(***************************************************************************)
EXTENDS ServiceNames

CONSTANTS Identities,  \* the identities that may be added
          Queries,     \* the texts that are looked up
          MaxEntries   \* bound on the size of the index

ASSUME IdentitiesAssumption == Identities \subseteq Entry /\ Queries \subseteq Text

VARIABLES index,
          asked      \* the last question and its answer

vars == <<index, asked>>

NotAsked == [kind |-> "none"]

Init == index = {} /\ asked = NotAsked

Add(identity) ==
  /\ Cardinality(index) < MaxEntries
  /\ index' = index \cup {identity}
  /\ asked' = NotAsked

\* A question changes nothing, so one is enough between two additions.
Ask(text, env) ==
  /\ asked = NotAsked
  /\ asked' = [kind |-> "lookup", text |-> text, env |-> env, answer |-> Lookup(index, text, env)]
  /\ UNCHANGED index

Resolve(name, env) ==
  /\ asked = NotAsked
  /\ asked' = [kind |-> "name", text |-> name, env |-> env, answer |-> ResolveServiceName(index, name, env)]
  /\ UNCHANGED index

Next ==
  \/ \E identity \in Identities \ index : Add(identity)
  \/ \E text \in Queries, env \in Envs : Ask(text, env)
  \/ \E name \in Queries \cap ServiceName, env \in Envs : Resolve(name, env)

Spec == Init /\ [][Next]_vars

-----------------------------------------------------------------------------
\* What a text names, however it is spelled.
Place(t) == <<t.host, IF t.path = "" THEN "/" ELSE t.path>>

\* No lookup, exact or normalized, takes one host and path for another.
NoStranger ==
  asked.kind = "lookup" => \A e \in asked.answer : Place(e.value) = Place(asked.text)

\* Every identity that has the very text asked for in the environment asked
\* for is in the answer, and then it has no others: two claims to one text
\* are both returned, and those of other environments are not.
OwnClaims ==
  asked.kind = "lookup" =>
    LET own == {e \in index : e.value = asked.text /\ e.env = asked.env}
    IN  own # {} => asked.answer = own

TagsOf(name, envs) == {e \in index : e.class = "service-tag" /\ e.value = name /\ e.env \in envs}

\* A service name that two repositories claim, by a tag of the environment or,
\* where nobody tags it, by a host in any, is never given to one of them.
NoOwnerPicked ==
  asked.kind = "name" /\ asked.answer.known =>
    /\ \A e \in TagsOf(asked.text, {asked.env}) : e.repo = asked.answer.repo
    /\ TagsOf(asked.text, Envs \cup {NoEnv}) = {} =>
         \A e \in Labelled(index, asked.text) : e.repo = asked.answer.repo

=============================================================================
