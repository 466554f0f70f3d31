----------------------- MODULE MCTraversalReachability -----------------------
(***************************************************************************)
(* The graphs of MCTraversal, with the links they make.                    *)
(***************************************************************************)
EXTENDS MCTraversal, TraversalReachability
=============================================================================
