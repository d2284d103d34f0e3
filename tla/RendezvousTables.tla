--------------------------- MODULE RendezvousTables ---------------------------
(***************************************************************************)
(* The two tables of SimpleRendezvousServer and the two operations on      *)
(* them.  registered_names_ is a C++ map: a name it does not hold is       *)
(* Absent here, while NoAddr is the empty string that operator[] inserts   *)
(* for a missing key -- a name the map holds, with no address.             *)
(*                                                                         *)
(* UpdateAddress opens one UDP socket per call and never closes it.        *)
(* update_sockets counts them; MaxSockets is how many descriptors the      *)
(* process has left for them.                                              *)
(***************************************************************************)
EXTENDS Types, Naturals

CONSTANT MaxSockets   \* descriptors left to the server process at start

ASSUME TablesAssumption == MaxSockets \in Nat

VARIABLES
  registered_names_,    \* logical address -> physical address
  subscriptions_,       \* logical address -> set of subscribers
  update_sockets        \* sockets opened by UpdateAddress so far

tableVars == <<registered_names_, subscriptions_, update_sockets>>

Subscriber == Names \X Ports

TablesTypeOK ==
  /\ registered_names_ \in [Names -> Addresses \cup {Absent, NoAddr}]
  /\ subscriptions_ \in [Names -> SUBSET Subscriber]
  /\ update_sockets \in 0 .. MaxSockets

TablesInit ==
  /\ registered_names_ = [n \in Names |-> Absent]
  /\ subscriptions_ = [n \in Names |-> {}]
  /\ update_sockets = 0

\* registered_names_.count(n) > 0
Known(n) == registered_names_[n] # Absent

-------------------------------------------------------------------------------
\* What ChangeSubscription returns.
LookupResult(client) ==
  IF Known(client) THEN registered_names_[client] ELSE NoAddr

Toggle(set, x) == IF x \in set THEN set \ {x} ELSE set \cup {x}

\* Wrong: the test for a known client forgotten.
ChangeSubscriptionUnchecked(subscriber, client) ==
  /\ subscriptions_' = [subscriptions_ EXCEPT ![client] = Toggle(@, subscriber)]
  /\ UNCHANGED <<registered_names_, update_sockets>>

\* Wrong: subscriber and client swapped.
ChangeSubscriptionSwapped(subscriber, client) ==
  /\ subscriptions_' =
       IF Known(client)
         THEN [subscriptions_ EXCEPT ![subscriber[1]] = Toggle(@, subscriber)]
         ELSE subscriptions_
  /\ UNCHANGED <<registered_names_, update_sockets>>

\* One call subscribes, the same call again unsubscribes.
ChangeSubscription(subscriber, client) ==
  /\ subscriptions_' = IF Known(client)
                         THEN [subscriptions_ EXCEPT ![client] = Toggle(@, subscriber)]
                         ELSE subscriptions_
  /\ UNCHANGED <<registered_names_, update_sockets>>

-------------------------------------------------------------------------------
\* Wrong: operator[] taken to insert for every subscriber.
NamesAfterUpdateErasing(name, address) ==
  [n \in Names |->
     IF n = name THEN address
     ELSE IF \E p \in Ports : <<n, p>> \in subscriptions_[name]
       THEN NoAddr
       ELSE registered_names_[n]]

\* Reading registered_names_[i->first] for a subscriber that never registered
\* inserts the empty string under its name.
NamesAfterUpdate(name, address) ==
  [n \in Names |->
     IF n = name THEN address
     ELSE IF ~Known(n) /\ \E p \in Ports : <<n, p>> \in subscriptions_[name]
       THEN NoAddr
       ELSE registered_names_[n]]

SocketLeft == update_sockets < MaxSockets

\* Wrong: the updates carry the address the name had before.
UpdatesStale(name, address) ==
  IF SocketLeft
    THEN {[to   |-> NamesAfterUpdate(name, address)[s[1]],
           port |-> s[2],
           text |-> registered_names_[name]] : s \in subscriptions_[name]}
    ELSE {}

\* The datagrams UpdateAddress sends.  Without a descriptor, socket() returns
\* -1 and every sendto() on it fails unnoticed.
Updates(name, address) ==
  IF SocketLeft
    THEN {[to   |-> NamesAfterUpdate(name, address)[s[1]],
           port |-> s[2],
           text |-> address] : s \in subscriptions_[name]}
    ELSE {}

\* Wrong: a subscription is good for one update.
UpdateAddressOnce(name, address) ==
  /\ registered_names_' = NamesAfterUpdate(name, address)
  /\ update_sockets' = IF SocketLeft THEN update_sockets + 1 ELSE update_sockets
  /\ subscriptions_' = [subscriptions_ EXCEPT ![name] = {}]

UpdateAddress(name, address) ==
  /\ registered_names_' = NamesAfterUpdate(name, address)
  /\ update_sockets' = IF SocketLeft THEN update_sockets + 1 ELSE update_sockets
  /\ UNCHANGED subscriptions_

===============================================================================
