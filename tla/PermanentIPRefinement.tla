------------------------- MODULE PermanentIPRefinement -------------------------
(***************************************************************************)
(* PermanentIP implements LocationService when machines move by the rule   *)
(* "settled", notices arrive in order, nothing is lost, no process is      *)
(* restarted and nobody chats: all that a socket ever holds comes from the *)
(* server then.                                                            *)
(***************************************************************************)
EXTENDS PermanentIP, FiniteSets

\* The notices that will reach node h where it is.
NoticesTo(h) == {d \in to_app : d.to = loc[h]}

\* order lists notices as they were sent.
InOrderSent(order, notices) ==
  /\ order \in Seq(notices)
  /\ \A d \in notices : \E i \in DOMAIN order : order[i] = d
  /\ \A i, j \in DOMAIN order : i < j => order[i].seq < order[j].seq

Ordered(notices) ==
  CHOOSE order \in [1 .. Cardinality(notices) -> notices] : InOrderSent(order, notices)

Texts(datagrams) == [i \in DOMAIN datagrams |-> datagrams[i].text]

\* What node h will read: what its socket holds, then what is in flight.  A
\* failed lookup tells nothing.
ToldTo(h) ==
  IF Subscribed(h) THEN Texts(app_queue[h]) \o Texts(Ordered(NoticesTo(h))) ELSE <<>>

\* Where node h believes its peer is, or is about to believe: what the daemon has
\* taken from the socket it writes next.
View == [h \in Names |-> IF daemon[h] = "writing" THEN IPStringToInt(buffer[h])
                                                  ELSE app_sockets_[h]]

UpNodes == {h \in Names : Running(h)}
Subscribers == {h \in Names : Subscribed(h)}
Told == [h \in Names |-> ToldTo(h)]

Service == INSTANCE LocationService WITH
  Unknown    <- Absent,
  up         <- UpNodes,
  registered <- registered_names_,
  subscribed <- Subscribers,
  told       <- Told,
  view       <- View

\* Every step of the system registers an address, subscribes a node, hands on
\* in order what a node was told, or is invisible: no step of two threads, two
\* servers and a network loses or invents an address.
ImplementsLocationService == Service!Spec

-------------------------------------------------------------------------------
(* The inductive invariant behind it, on top of those of PermanentIP. *)

\* A registration under way brings the server news.
RegistersNews ==
  \A m \in to_regist : /\ m.from = loc[m.name]
                       /\ Known(m.name) => registered_names_[m.name] # loc[m.name]

\* The server has the former address of h, and will hear of the present one.
Outdated(h) == Known(h) /\ registered_names_[h] # loc[h]
Behind(h) == Outdated(h) /\ (Running(h) \/ \E m \in to_regist : m.name = h)

OneBehind == \A h, i \in Names : Behind(h) /\ Behind(i) => h = i

\* A process that ended has no thread, a name is known when it was registered.
ThreadsEnd ==
  \A h \in Names : /\ ~Running(h) => daemon[h] = "stopped"
                   /\ Known(h) => daemon[h] # "start"

\* Whatever the server sent will be read, in the order it was sent.
NoticesReachable ==
  /\ \A d \in to_app : /\ d.seq < handled /\ d.port = AppPort
                       /\ \E h \in Names : Running(h) /\ d.to = loc[h]
  /\ \A h \in Names : InOrderSent(Ordered(NoticesTo(h)), NoticesTo(h))
  /\ \A h \in Names : \A i \in DOMAIN app_queue[h] :
       app_queue[h][i].from = RendezvousServer

\* The server opens a socket for the first registration of a name, and for one
\* that follows a move.
SocketsAccounted ==
  /\ moves <= MaxMoves
  /\ update_sockets + Cardinality({h \in Names : Outdated(h)})
       <= Cardinality({h \in Names : Known(h)}) + moves

\* The last a subscriber was told, or else what it believes, is where its peer is
\* registered.
Newest(h) ==
  Subscribed(h) =>
    LET heard == <<View[h]>> \o Told[h]
    IN  heard[Len(heard)] = registered_names_[PeerOf[h]]

ConvergenceInv ==
  /\ RegistersNews
  /\ OneBehind
  /\ ThreadsEnd
  /\ NoticesReachable
  /\ SocketsAccounted
  /\ \A h \in Names : Newest(h)
===============================================================================
