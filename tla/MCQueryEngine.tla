---------------------------- MODULE MCQueryEngine ----------------------------
(***************************************************************************)
(* Graphs on five repositories: any of eight edges among which there are a *)
(* short and a long way from a to d, a cycle and a loop, one of them of    *)
(* low confidence, or of the other environment, or observed.               *)
(***************************************************************************)
EXTENDS QueryEngine

Dependency(from, to) ==
  [from |-> from, to |-> to, env |-> "prod", provenance |-> "declared",
   confidence |-> "high", ref |-> "sha1"]

MCEdges ==
  <<Dependency("a", "b"), Dependency("b", "e"), Dependency("e", "d"), Dependency("a", "c"),
    Dependency("c", "d"), Dependency("d", "a"), Dependency("b", "b"), Dependency("b", "d")>>

\* Ways in which one edge may differ from the others.
Variants(e) ==
  {e, [e EXCEPT !.confidence = "low"], [e EXCEPT !.env = "staging", !.ref = "sha2"],
   [e EXCEPT !.provenance = "observed", !.confidence = "medium", !.ref = ""]}

Graph(edges) == [nodes |-> Nodes, edges |-> edges]

MCGraphs ==
  LET chosen == {SelectSeq(MCEdges, LAMBDA e : e \in set) : set \in SUBSET ToSet(MCEdges)}
  IN  {Graph(edges) : edges \in chosen}
        \cup UNION {UNION {{Graph([edges EXCEPT ![i] = v]) : v \in Variants(edges[i])} :
                              i \in DOMAIN edges} : edges \in chosen}

Find(starts, hops, min) == [op |-> "find", starts |-> starts, env |-> "prod", hops |-> hops, min |-> min]

MCQuestions ==
  {Find({}, 2, "low"), Find({"a", "e"}, 2, "low"), Find({"a"}, 2, "medium"), Find({"b"}, -1, "low"),
   [op |-> "impact", starts |-> {"d"}, env |-> "prod", min |-> "low"],
   [op |-> "impact", starts |-> {"d"}, env |-> "prod", min |-> "high"],
   [op |-> "path", starts |-> {"a"}, goal |-> "d", env |-> "prod"],
   [op |-> "path", starts |-> {"b"}, goal |-> "b", env |-> "prod"],
   [op |-> "explain", starts |-> {"a"}, goal |-> "b", env |-> "staging"],
   [op |-> "diff", starts |-> {"b"}, env |-> "prod", other |-> "staging"]}
=============================================================================
