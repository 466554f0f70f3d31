---------------------------- MODULE ReverseIndex ----------------------------
(***************************************************************************)
(* The global index of provider identities (tendril/core/index.py): which  *)
(* repository answers to a name in which environment.                      *)
(*                                                                         *)
(* A text is abstracted to what the index and the traversal look at: does  *)
(* it have a scheme, which host it names, how the host is spelled, and its *)
(* path.  Two texts are equal exactly when their records are.              *)
(***************************************************************************)
EXTENDS Naturals, FiniteSets

CONSTANTS Hosts,   \* host names that services claim
          Dotted,  \* those that contain a dot; the others are single labels
          Hole,    \* stands where a text still has an unresolved placeholder
          Repos,   \* repositories, by full name
          Envs,    \* environment names, case-folded
          NoEnv    \* an identity that names no environment

ASSUME HostsAssumption == Dotted \subseteq Hosts /\ Hole \notin Hosts
ASSUME EnvAssumption   == NoEnv \notin Envs

-----------------------------------------------------------------------------
\* "case" is a spelling in mixed case, "www" one with the www. prefix; "/far"
\* is a path no service claims.
Text == [scheme : BOOLEAN, host : Hosts \cup {Hole}, spelling : {"plain", "case", "www"},
         port : {"", ":8080"}, path : {"", "/", "/x", "/far"}]

\* "deploy" stands for artifacts too, "logical" for queues and topics.
Class == {"network", "service-tag", "deploy", "logical", "data"}

\* An index entry; `of' tells apart entries that are equal otherwise.
Entry == [value : Text, class : Class, repo : Repos, env : Envs \cup {NoEnv}, of : Nat]

HasDot(t) == t.host \in Dotted \/ t.spelling = "www"

Lower(t) == IF t.spelling = "case" THEN [t EXCEPT !.spelling = "plain"] ELSE t

\* Mutant: the path is not part of the key.
UrlKey_HostOnly(t) ==
  [scheme |-> FALSE, host |-> t.host, spelling |-> "plain", path |-> "/"]

\* Host and path, without scheme, port, case, www. or trailing slash; a text
\* that has no path gets "/".
UrlKey(t) ==
  [scheme |-> FALSE, host |-> t.host, spelling |-> "plain", port |-> "",
   path |-> IF t.path = "" THEN "/" ELSE t.path]

Normalize(t, class) ==
  CASE class = "network"     -> UrlKey(t)
    [] class = "service-tag" -> t
    [] OTHER                 -> Lower(t)

\* A lookup does not know the class of what it is looking for.
NormalizeLookup(t) == IF t.scheme \/ HasDot(t) THEN UrlKey(t) ELSE Lower(t)

-----------------------------------------------------------------------------
Exact(index, t)      == {e \in index : e.value = t}
Normalized(index, t) == {e \in index : Normalize(e.value, e.class) = NormalizeLookup(t)}

\* Mutant: identities of every environment, together with the agnostic ones.
ForEnv_Any(entries, env) == entries

\* Identities of the environment first, then those of no environment, then
\* any.
ForEnv(entries, env) ==
  LET matched  == {e \in entries : e.env = env}
      agnostic == {e \in entries : e.env = NoEnv}
  IN  IF matched # {} THEN matched ELSE IF agnostic # {} THEN agnostic ELSE entries

Lookup(index, t, env) ==
  ForEnv(IF Exact(index, t) # {} THEN Exact(index, t) ELSE Normalized(index, t), env)

\* 5 is VERY_HIGH, 1 VERY_LOW.
ClassConfidence(class) == CASE class = "logical" -> 3 [] class = "data" -> 2 [] OTHER -> 4

-----------------------------------------------------------------------------
(***************************************************************************)
(* Which repositories a resolved reference points at (the lookups of       *)
(* TraversalEngine.traverse): the text itself, then the host of a URL.     *)
(***************************************************************************)
\* urlparse().hostname: lower case, no port, no path; www. stays.
HostOf(t) == [Lower(t) EXCEPT !.scheme = FALSE, !.port = "", !.path = ""]

Candidates(index, t, env) ==
  IF Lookup(index, t, env) # {} \/ ~t.scheme
  THEN Lookup(index, t, env)
  ELSE Lookup(index, HostOf(t), env)
=============================================================================
