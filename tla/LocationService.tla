---------------------------- MODULE LocationService ----------------------------
(***************************************************************************)
(* What the system promises, without servers, threads or datagrams: a      *)
(* machine registers where it is, a node that subscribes to its peer is    *)
(* told first where the peer is registered and then, in order, of every    *)
(* address the peer registers, and its view is the last address it heard.  *)
(* The promise holds for machines that move one at a time, each move after *)
(* the previous one has reached everybody; README.md says what happens to  *)
(* others.                                                                 *)
(***************************************************************************)
EXTENDS Sequences

CONSTANTS
  Names, Addresses,
  PeerOf,       \* PeerOf[n]: whom node n wants to talk to
  Unknown       \* not an address

VARIABLES
  up,           \* nodes whose application has not given up
  loc,          \* where a machine is
  registered,   \* where it is known to be
  subscribed,   \* nodes told of their peer's moves
  told,         \* told[n]: what n has been told and has not looked at
  view          \* where a node believes its peer is

vars == <<up, loc, registered, subscribed, told, view>>

Init ==
  /\ up = Names
  /\ loc \in [Names -> Addresses]
  /\ registered = [n \in Names |-> Unknown]
  /\ subscribed = {}
  /\ told = [n \in Names |-> <<>>]
  /\ view = [n \in Names |-> Unknown]

\* Everybody who is up is registered where it is and has heard the last of its
\* peer.
Pushed ==
  \A n \in up : /\ registered[n] = loc[n]
                /\ told[n] = <<>>
                /\ n \in subscribed => view[n] = registered[PeerOf[n]]

Move(n) ==
  /\ Pushed
  /\ \E a \in Addresses : loc' = [loc EXCEPT ![n] = a]
  /\ UNCHANGED <<up, registered, subscribed, told, view>>

Register(n) ==
  /\ registered' = [registered EXCEPT ![n] = loc[n]]
  /\ told' = [m \in Names |-> IF m \in subscribed /\ PeerOf[m] = n
                                THEN Append(told[m], loc[n]) ELSE told[m]]
  /\ UNCHANGED <<up, loc, subscribed, view>>

Subscribe(n) ==
  /\ n \in up \ subscribed
  /\ registered[PeerOf[n]] # Unknown
  /\ subscribed' = subscribed \cup {n}
  /\ told' = [told EXCEPT ![n] = Append(@, registered[PeerOf[n]])]
  /\ UNCHANGED <<up, loc, registered, view>>

Learn(n) ==
  /\ told[n] # <<>>
  /\ view' = [view EXCEPT ![n] = Head(told[n])]
  /\ told' = [told EXCEPT ![n] = Tail(@)]
  /\ UNCHANGED <<up, loc, registered, subscribed>>

\* Only a node that was told nothing gives up.
GiveUp(n) ==
  /\ n \in up \ subscribed
  /\ up' = up \ {n}
  /\ UNCHANGED <<loc, registered, subscribed, told, view>>

Next == \E n \in Names : Move(n) \/ Register(n) \/ Subscribe(n) \/ Learn(n) \/ GiveUp(n)

Spec == Init /\ [][Next]_vars
===============================================================================
