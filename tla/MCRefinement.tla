------------------------------ MODULE MCRefinement ------------------------------
(* The two nodes of MCPermanentIP, for the refinement. *)
EXTENDS PermanentIPRefinement, TLC

CONSTANTS a, b, a1, a2, b1, b2, app

MCPeerOf == (a :> b) @@ (b :> a)
MCHomes == (a :> {a1, a2}) @@ (b :> {b1, b2})
===============================================================================
