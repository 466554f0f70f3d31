------------------------ MODULE TraversalReachability ------------------------
(***************************************************************************)
(* The traversal implements reachability along the links its references    *)
(* resolve to.  References without tokens are not among them.  The links   *)
(* depend on the input alone, and are kept in a history variable so that   *)
(* they are computed once.                                                 *)
(***************************************************************************)
EXTENDS Traversal

VARIABLE links

FollowedTargets(r, at) ==
  IF IsLiteral(r, at) \/ ~IsDeclared(r, at) THEN {}
  ELSE IF IntraTargets(r, at) # {} THEN IntraTargets(r, at) ELSE LadderTargets(r, at)

\* r leads to m: a token of r is resolved to an identity of m.
Leads(r, m) ==
  m \in WellNamed /\ \E at \in Positions(r) : \E c \in FollowedTargets(r, at) : c.repo = m

Links == {link \in Repos \X Repos : Leads(link[1], link[2])}

LinkedInit == Init /\ links = Links
LinkedNext == Next /\ UNCHANGED links
LinkedSpec == LinkedInit /\ [][LinkedNext]_<<vars, links>>

\* traverse() runs in one thread, which is scheduled.
FairLinkedSpec == LinkedSpec /\ WF_<<vars, links>>(LinkedNext)

Reachable == INSTANCE Reachability
               WITH Nodes <- Repos, link <- links,
                    reached <- expanded \cup Elements(queue), stopped <- Done

\* What waits or is expanded is reached from the anchor along links, and the
\* worklist empties only when every link has been followed: cycles and
\* repositories queued twice make no difference.
ImplementsReachability == Reachable!Spec
=============================================================================
