---------------------------- MODULE Reachability ----------------------------
(***************************************************************************)
(* What a graph traversal promises: it reaches what can be reached from    *)
(* its anchor by following links, nothing else, one repository after the   *)
(* other, and it stops only when nothing is left to reach.                 *)
(***************************************************************************)
CONSTANTS Nodes

VARIABLES link,     \* link: which repository leads to which, fixed at the start
          reached,  \* the repositories found so far
          stopped

vars == <<link, reached, stopped>>

Init ==
  /\ link \in SUBSET (Nodes \X Nodes)
  /\ \E anchor \in Nodes : reached = {anchor}
  /\ stopped = FALSE

Reach(m) ==
  /\ ~stopped
  /\ m \notin reached
  /\ \E n \in reached : <<n, m>> \in link
  /\ reached' = reached \cup {m}
  /\ UNCHANGED <<link, stopped>>

Stop ==
  /\ ~stopped
  /\ \A n \in reached, m \in Nodes : <<n, m>> \in link => m \in reached
  /\ stopped' = TRUE
  /\ UNCHANGED <<link, reached>>

Next == Stop \/ \E m \in Nodes : Reach(m)

Spec == Init /\ [][Next]_vars
=============================================================================
