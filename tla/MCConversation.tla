---------------------------- MODULE MCConversation ----------------------------
(* The two nodes of MCPermanentIP, for the messages they exchange. *)
EXTENDS Conversation, TLC

CONSTANTS a, b, a1, a2, b1, b2, app

MCPeerOf == (a :> b) @@ (b :> a)
MCHomes == (a :> {a1, a2}) @@ (b :> {b1, b2})
MCOneMobile == (a :> {a1, a2}) @@ (b :> {b1})
MCSymmetry == Permutations({a1, a2}) \cup Permutations({b1, b2})
===============================================================================
