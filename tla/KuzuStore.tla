------------------------------ MODULE KuzuStore ------------------------------
(***************************************************************************)
(* What a call of the graph store does to the database                     *)
(* (tendril/store/kuzu_store.py): the Deployable nodes and the DEPENDS_ON  *)
(* edges, in the order in which they were created.  Each call is one       *)
(* statement that is committed when it returns.                            *)
(***************************************************************************)
EXTENDS Naturals, Sequences

EmptyDb == [nodes |-> {}, edges |-> <<>>]

Stored(db)     == {db.edges[i] : i \in DOMAIN db.edges}
InEnv(db, env) == {e \in Stored(db) : e.env = env}

Pair(e)   == <<e.from, e.to>>
Pairs(db) == {Pair(e) : e \in Stored(db)}

\* What no two edges should share (005 FR-020 names it as the key of an upsert).
Key(e) == <<e.from, e.to, e.env, e.provenance>>

\* What builds have written.
Static(db) == {e \in Stored(db) : e.provenance # "observed"}

\* MERGE on the id: the other fields follow from it.
UpsertNode(db, id) == [db EXCEPT !.nodes = @ \cup {id}]

\* Mutant: the existence check is dropped.
UpsertEdge_Unchecked(db, e) ==
  IF {e.from, e.to} \subseteq db.nodes THEN [db EXCEPT !.edges = Append(@, e)] ELSE db

\* Mutant: the edge that exists is replaced.
UpsertEdge_Replace(db, e) ==
  IF {e.from, e.to} \subseteq db.nodes
  THEN [db EXCEPT !.edges = Append(SelectSeq(@, LAMBDA f : Pair(f) # Pair(e)), e)]
  ELSE db

\* An edge between the two nodes, of whatever environment, stands in the way
\* of a new one; without both nodes the MATCH finds nothing to create it on.
UpsertEdge(db, e) ==
  IF Pair(e) \notin Pairs(db) /\ {e.from, e.to} \subseteq db.nodes
  THEN [db EXCEPT !.edges = Append(@, e)]
  ELSE db
=============================================================================
