------------------------------ MODULE UdpNetwork ------------------------------
(***************************************************************************)
(* What the program runs on: the machines, their addresses and UDP.        *)
(* External to the code, and modelled from how the code uses it.           *)
(*                                                                         *)
(* A datagram sent is in flight until it is delivered to the socket it was *)
(* addressed to or lost; datagrams in flight overtake each other, except   *)
(* that with InOrder the server's notices to one address do not.  An       *)
(* address belongs to the machine that has it at the moment of delivery: a *)
(* reply to an address its requester has left is not delivered to the      *)
(* requester.  The network never duplicates a datagram.                    *)
(*                                                                         *)
(* In flight are, by destination socket: registrations and lookups (the    *)
(* server's two ports), queries (the DNS), replies to a vanilla socket,    *)
(* and what the application sockets receive -- from the rendezvous server  *)
(* (to_app) and from each other (to_peer, a bag: a resend may put a second *)
(* copy of a message in flight).  app_queue is the receive queue of the    *)
(* application socket, the only one that two threads read.                 *)
(***************************************************************************)
EXTENDS Types, Naturals, Sequences, Bags

CONSTANTS
  Offline,          \* the location of a machine between two networks
  Homes,            \* Homes[h]: the addresses machine h may be given
  Visible,          \* addresses whose first octet exceeds 127
  RendezvousServer, \* the server's own address
  Lossy,            \* whether datagrams may be lost
  InOrder           \* whether notices arrive in the order they were sent

ASSUME NetworkAssumption ==
  /\ Homes \in [Names -> SUBSET Addresses]
  /\ Offline \notin Addresses \cup {NoAddr, Absent}
  /\ RendezvousServer \notin Addresses \cup {NoAddr, Absent, Offline}
  /\ Names \cap (Addresses \cup {NoAddr, Absent, RendezvousServer}) = {}
  /\ Visible \subseteq Addresses
  /\ Lossy \in BOOLEAN /\ InOrder \in BOOLEAN

VARIABLES
  loc,          \* loc[h]: the address machine h has now
  moves,        \* how often a machine changed its location
  incarnation,  \* which process owns the sockets of machine h
  to_regist, to_lookup, to_dns, to_private, to_app, to_peer,
  app_queue     \* datagrams the application socket holds, oldest first

flightVars == <<to_regist, to_lookup, to_dns, to_private, to_app, to_peer>>
networkVars == <<loc, moves, incarnation, flightVars, app_queue>>

\* Every request carries where it was sent from: the address its reply goes
\* to, and the process whose vanilla socket is open for it.
Registration == [name : Names, from : Addresses, inc : Nat]
Lookup == [subscriber : Names, port : Ports, subscribee : Names,
           from : Addresses, inc : Nat]
Query == [name : Names, by : Names, from : Addresses, inc : Nat]
Reply == [host : Names, thread : {"daemon", "app"}, inc : Nat,
          to : Addresses, text : Addresses \cup {NoAddr, RendezvousServer}]
Notice == [to : Addresses, port : Ports, text : Addresses \cup {NoAddr},
           seq : Nat]
PeerMessage == [to : Addresses \cup Names, from : Addresses \cup {NoAddr},
                text : Names]
Received == [from : {RendezvousServer}, text : Addresses \cup {NoAddr}]
              \cup [from : Addresses \cup {NoAddr}, text : Names]

NetworkTypeOK ==
  /\ loc \in [Names -> Addresses \cup {Offline}]
  /\ moves \in Nat
  /\ incarnation \in [Names -> Nat]
  /\ to_regist \subseteq Registration
  /\ to_lookup \subseteq Lookup
  /\ to_dns \subseteq Query
  /\ to_private \subseteq Reply
  /\ to_app \subseteq Notice
  /\ IsABag(to_peer) /\ BagToSet(to_peer) \subseteq PeerMessage
  /\ app_queue \in [Names -> Seq(Received)]

NetworkInit ==
  /\ loc \in {l \in [Names -> Addresses] :
                \A h, i \in Names : l[h] \in Homes[h] /\ (h # i => l[h] # l[i])}
  /\ moves = 0
  /\ incarnation = [h \in Names |-> 0]
  /\ to_regist = {} /\ to_lookup = {} /\ to_dns = {}
  /\ to_private = {} /\ to_app = {}
  /\ to_peer = EmptyBag
  /\ app_queue = [h \in Names |-> <<>>]

-------------------------------------------------------------------------------
\* Utils::GetCurrentIPAddress: interfaces with a first octet up to 127 are
\* skipped, and without another one the answer is -1 (Absent here).
GetCurrentIPAddress(h) == IF loc[h] \in Visible THEN loc[h] ELSE Absent

\* sendto() on a machine without a network fails, and nobody looks.
Sent(h, inFlight, datagram) ==
  IF loc[h] = Offline THEN inFlight ELSE inFlight \cup {datagram}

\* Datagrams from one application socket to another.  The address 0.0.0.0 is
\* the sending machine itself: those never leave it (to |-> h).
PeerDatagram(h, to, text) ==
  IF to = NoAddr THEN [to |-> h, from |-> NoAddr, text |-> text]
                 ELSE [to |-> to, from |-> loc[h], text |-> text]

SentToPeer(h, to, text) ==
  IF loc[h] = Offline /\ to # NoAddr
    THEN to_peer
    ELSE to_peer (+) SetToBag({PeerDatagram(h, to, text)})

\* The replies thread of h, blocked in recvfrom() on its vanilla socket, gets.
RepliesFor(h, thread) ==
  {r \in to_private : /\ r.host = h /\ r.thread = thread
                      /\ r.inc = incarnation[h] /\ r.to = loc[h]}

-------------------------------------------------------------------------------
\* Deliveries to the application socket of h.
DeliverNotice(h, AppPort) ==
  \E d \in to_app :
    /\ d.to = loc[h] /\ d.port = AppPort
    /\ InOrder => \A e \in to_app : e.to = d.to => d.seq <= e.seq
    /\ to_app' = to_app \ {d}
    /\ app_queue' = [app_queue EXCEPT ![h] =
                       Append(@, [from |-> RendezvousServer, text |-> d.text])]
    /\ UNCHANGED <<loc, moves, incarnation, to_regist, to_lookup, to_dns,
                   to_private, to_peer>>

DeliverPeer(h) ==
  \E d \in BagToSet(to_peer) :
    /\ d.to \in {loc[h], h}
    /\ to_peer' = to_peer (-) SetToBag({d})
    /\ app_queue' = [app_queue EXCEPT ![h] =
                       Append(@, [from |-> d.from, text |-> d.text])]
    /\ UNCHANGED <<loc, moves, incarnation, to_regist, to_lookup, to_dns,
                   to_private, to_app>>

\* A datagram for an address where nobody listens disappears; with Lossy, any
\* may.  (listening: the machines whose application has its socket open)
MayVanish(to, listening) == Lossy \/ \A h \in listening : to # h /\ to # loc[h]

LoseRequest ==
  /\ Lossy
  /\ \/ /\ \E m \in to_regist : to_regist' = to_regist \ {m}
        /\ UNCHANGED <<to_lookup, to_dns>>
     \/ /\ \E m \in to_lookup : to_lookup' = to_lookup \ {m}
        /\ UNCHANGED <<to_regist, to_dns>>
     \/ /\ \E m \in to_dns : to_dns' = to_dns \ {m}
        /\ UNCHANGED <<to_regist, to_lookup>>
  /\ UNCHANGED <<loc, moves, incarnation, to_private, to_app, to_peer, app_queue>>

LoseReply(listening) ==
  /\ \E r \in to_private :
       /\ \/ MayVanish(r.to, listening)
          \/ r.inc # incarnation[r.host] \/ r.to # loc[r.host]
       /\ to_private' = to_private \ {r}
  /\ UNCHANGED <<loc, moves, incarnation, to_regist, to_lookup, to_dns, to_app,
                 to_peer, app_queue>>

LoseNotice(listening) ==
  /\ \E d \in to_app : MayVanish(d.to, listening) /\ to_app' = to_app \ {d}
  /\ UNCHANGED <<loc, moves, incarnation, to_regist, to_lookup, to_dns,
                 to_private, to_peer, app_queue>>

LosePeer(listening) ==
  /\ \E d \in BagToSet(to_peer) :
       MayVanish(d.to, listening) /\ to_peer' = to_peer (-) SetToBag({d})
  /\ UNCHANGED <<loc, moves, incarnation, to_regist, to_lookup, to_dns,
                 to_private, to_app, app_queue>>

\* Machine h gets another address, one that no other machine has.
Move(h) ==
  /\ \E a \in Homes[h] \ {loc[i] : i \in Names} : loc' = [loc EXCEPT ![h] = a]
  /\ moves' = moves + 1
  /\ UNCHANGED <<incarnation, flightVars, app_queue>>

\* Machine h leaves its network and has none for a while.
Disconnect(h) ==
  /\ loc[h] # Offline
  /\ loc' = [loc EXCEPT ![h] = Offline]
  /\ moves' = moves + 1
  /\ UNCHANGED <<incarnation, flightVars, app_queue>>

===============================================================================
