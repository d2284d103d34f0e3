----------------------------- MODULE MCPermanentIP -----------------------------
(***************************************************************************)
(* Two nodes that talk to each other, each with two addresses to move      *)
(* between.                                                                *)
(***************************************************************************)
EXTENDS PermanentIP, TLC

CONSTANTS a, b, a1, a2, b1, b2, app

MCPeerOf == (a :> b) @@ (b :> a)
MCHomes == (a :> {a1, a2}) @@ (b :> {b1, b2})

\* An address that either may have, at different times.
MCSharedHomes == (a :> {a1, b1}) @@ (b :> {b1, b2})

\* Only a moves.
MCOneMobile == (a :> {a1, a2}) @@ (b :> {b1})

\* A machine's addresses are interchangeable when all of them are visible, or
\* none.
MCOneMobileSymmetry == Permutations({a1, a2})
MCSymmetry == Permutations({a1, a2}) \cup Permutations({b1, b2})
===============================================================================
