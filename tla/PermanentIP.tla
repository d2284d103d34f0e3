----------------------------- MODULE PermanentIP -----------------------------
(***************************************************************************)
(* The deployed system: one mobile node per name -- an application and its *)
(* daemon in one process --, the rendezvous server, the DNS, and the       *)
(* network between them.                                                   *)
(*                                                                         *)
(* When machines move is not the program's choice, and what it guarantees  *)
(* depends on it.  MoveRule says what the environment does:                *)
(*   "any"      a machine moves or disconnects at any moment;              *)
(*   "asleep"   a machine moves only while its own daemon sleeps and has   *)
(*              noted the address it leaves; other machines do not matter; *)
(*   "connected" as "asleep", once every application has found its peer;   *)
(*   "settled"  a machine moves only when the last move has been pushed to *)
(*              everybody.                                                 *)
(***************************************************************************)
EXTENDS SimpleRendezvousServer, SimpleDNS, EchoApp

CONSTANTS
  MoveRule,
  MaxMoves,     \* bound: how often machines move, all together
  Restarting,   \* the nodes whose process may be killed and started again
  MaxRestarts   \* bound: how often each of them is

ASSUME PermanentIPAssumption ==
  /\ MoveRule \in {"any", "asleep", "connected", "settled"}
  /\ MaxMoves \in Nat
  /\ Restarting \subseteq Names
  /\ MaxRestarts \in Nat

vars == <<serverVars, networkVars, nodeVars, appVars>>

TypeOK ==
  /\ TablesTypeOK
  /\ handled \in Nat /\ crashes \in Nat
  /\ NetworkTypeOK
  /\ MobileNodeTypeOK
  /\ EchoAppTypeOK

Init ==
  /\ ServerInit
  /\ NetworkInit
  /\ MobileNodeInit
  /\ EchoAppInit

-------------------------------------------------------------------------------
Running(h) == app_thread[h] # "exited"

\* The daemon has noted the address its machine has.
UpToDate(h) ==
  daemon[h] = "asleep" /\ last_known_ip_address_[h] = GetCurrentIPAddress(h)

\* Nothing of the control traffic is under way.
Settled ==
  /\ to_regist = {} /\ to_lookup = {} /\ to_dns = {}
  /\ to_private = {} /\ to_app = {}
  /\ \A h \in Names : Running(h) =>
       /\ UpToDate(h)
       /\ \A i \in DOMAIN app_queue[h] : app_queue[h][i].from # RendezvousServer

MayMove(h) ==
  /\ moves < MaxMoves
  /\ \/ MoveRule = "any"
     \/ MoveRule = "asleep" /\ UpToDate(h)
     \/ /\ MoveRule = "connected" /\ UpToDate(h)
        /\ \A i \in Names : app_sockets_[i] # Absent /\ daemon[i] # "registering"
     \/ MoveRule = "settled" /\ Settled /\ Running(h)

MachineMoves(h) ==
  /\ MayMove(h)
  /\ Move(h)
  /\ UNCHANGED <<serverVars, nodeVars, appVars>>

MachineDisconnects(h) ==
  /\ MayMove(h)
  /\ MoveRule = "any"
  /\ Disconnect(h)
  /\ UNCHANGED <<serverVars, nodeVars, appVars>>

Delivery(h) ==
  /\ Running(h)
  /\ DeliverNotice(h, AppPort) \/ DeliverPeer(h)
  /\ UNCHANGED <<serverVars, nodeVars, appVars>>

Loss ==
  /\ LET listening == {h \in Names : Running(h)}
     IN  \/ LoseRequest \/ LoseReply(listening)
         \/ LoseNotice(listening) \/ LosePeer(listening)
  /\ UNCHANGED <<serverVars, nodeVars, appVars>>

Server == HandleRequests /\ UNCHANGED <<nodeVars, appVars>>

ServerCrash == ServerRestarts /\ UNCHANGED <<nodeVars, appVars>>

DNS == HandleQuery /\ UNCHANGED <<serverVars, nodeVars, appVars>>

DaemonThread(h) == Daemon(h) /\ UNCHANGED <<serverVars, appVars>>

AppThread(h) ==
  \/ RegisterPeer(h) /\ UNCHANGED <<serverVars, appVars>>
  \/ App(h) /\ UNCHANGED serverVars

\* The user ends the application of node h.
Interrupt(h) == Interrupted(h) /\ UNCHANGED serverVars

\* The process of node h is killed and started again, with nothing remembered;
\* the servers are not told.
Restart(h) ==
  /\ h \in Restarting
  /\ incarnation[h] < MaxRestarts
  /\ incarnation' = [incarnation EXCEPT ![h] = @ + 1]
  /\ app_queue' = [app_queue EXCEPT ![h] = <<>>]
  /\ daemon' = [daemon EXCEPT ![h] = "start"]
  /\ app_thread' = [app_thread EXCEPT ![h] = "query"]
  /\ last_known_ip_address_' =
       [last_known_ip_address_ EXCEPT ![h] = GetCurrentIPAddress(h)]
  /\ app_sockets_' = [app_sockets_ EXCEPT ![h] = Absent]
  /\ app_socket_messages_' = [app_socket_messages_ EXCEPT ![h] = {}]
  /\ sent_from' = [sent_from EXCEPT ![h] = Absent]
  /\ buffer' = [buffer EXCEPT ![h] = Absent]
  /\ unsent' = [unsent EXCEPT ![h] = {}]
  /\ backoff' = [backoff EXCEPT ![h] = 0]
  /\ received_' = [received_ EXCEPT ![h] = TRUE]
  /\ sending' = [sending EXCEPT ![h] = Absent]
  /\ UNCHANGED <<serverVars, loc, moves, flightVars, resent>>

Next ==
  \/ \E h \in Names : DaemonThread(h)
  \/ \E h \in Names : AppThread(h)
  \/ \E h \in Names : Interrupt(h)
  \/ Server
  \/ ServerCrash
  \/ DNS
  \/ \E h \in Names : Delivery(h)
  \/ Loss
  \/ \E h \in Names : MachineMoves(h)
  \/ \E h \in Names : MachineDisconnects(h)

Spec == Init /\ [][Next]_vars

RestartNext == Next \/ \E h \in Names : Restart(h)

RestartSpec == Init /\ [][RestartNext]_vars

\* The operating systems run every thread, the servers poll both ports, and the
\* network delivers what is not lost.
FairSpec ==
  /\ Spec
  /\ \A h \in Names : /\ WF_vars(DaemonThread(h))
                      /\ WF_vars(AppThread(h))
                      /\ WF_vars(Delivery(h))
  /\ WF_vars(Server)
  /\ WF_vars(DNS)

-------------------------------------------------------------------------------
(* Safety *)

\* The server was killed, and has no address for h since.
Forgotten(h) == crashes > 0 /\ registered_names_[h] \notin Addresses

\* The process is the first one of node h; a later one may be overtaken by what
\* its predecessor sent.
Original(h) == incarnation[h] = 0

HasLastSent(h) ==
  IF registered_names_[h] \in Addresses
    THEN registered_names_[h] = sent_from[h]
    ELSE crashes > 0 \/ sent_from[h] = Absent

\* While the daemon runs its loop, the server has it under the address its last
\* registration came from, or has forgotten it in a crash: an older registration
\* never overwrites a newer one, although UDP reorders and registrations carry no
\* sequence number, because ConnectToServer does not return before its own
\* registration was handled.  A daemon that got no socket has sent none.
RegisteredIsLastSent ==
  \A h \in Names :
    Original(h) /\ daemon[h] \in LoopState => HasLastSent(h)

\* A name the server has an address for keeps one until the server is killed:
\* neither a later registration nor the operator[] of UpdateAddress takes it away.
RegistrationSticks ==
  [][crashes' = crashes => \A n \in Names :
       registered_names_[n] \in Addresses => registered_names_'[n] \in Addresses]_vars

\* Nobody is subscribed to a name the server does not hold, whatever was asked
\* twice, and by whom: ChangeSubscription leaves such names alone, and no name is
\* taken out of the map.
SubscribedOnlyToKnown ==
  \A n \in Names : subscriptions_[n] # {} => Known(n)

\* The address a node sends its application's messages to has belonged to its
\* peer or is 0.0.0.0, never a third machine's: updates are told apart by no
\* more than the socket they arrive on, and still never cross over, provided
\* no two machines ever have the same address.
NoCrossTalk ==
  \A h \in Names : app_sockets_[h] \in Homes[PeerOf[h]] \cup {NoAddr, Absent}

\* RegisterPeer makes a peer address out of an address, nothing else.
PeerIsAnAddress ==
  \A h \in Names : app_sockets_[h] # NoAddr

\* What the server has for h when the daemon sleeps and believes that its address
\* is known: the machine's address, or none since the server was restarted.
UpToDateIsRegistered(h) ==
  UpToDate(h) => registered_names_[h] = loc[h] \/ Forgotten(h)

\* The daemon of a process that is the node's first and always gets its socket
\* does not miss a move, if its machine moves only while it sleeps: whatever is
\* lost, overtaken or handled late, and whatever the other node does.
NotedIsRegistered ==
  \A h \in Names \ Failing : Original(h) => UpToDateIsRegistered(h)

\* RendezvousServer.h: the server "has the ability to register a new address and,
\* when that node is mobile, update that address".  So it holds the address that a
\* process started again has registered, too.  It does not: README, section 5.
RestartedIsRegistered ==
  \A h \in Names \ Failing : ~Original(h) => UpToDateIsRegistered(h)

\* MobileNode.h: Start "is responsible for registering the current IP address at
\* the designated rendezvous server".  So the server knows whose daemon is in its
\* loop.  It does not, if a socket is missing: README, section 5.
StartRegisters ==
  \A h \in Names : daemon[h] \in LoopState => Known(h) \/ crashes > 0

\* Between the peek at a datagram and the recvfrom() that takes it the other thread
\* does not take it away: the daemon takes the server's datagrams only, and the
\* application, once connected, all others, without a lock.
PeekedIsTaken ==
  \A h \in Names :
    /\ daemon[h] = "taking" => app_queue[h] # <<>> /\ FromServer(h)
    /\ app_thread[h] = "take" => app_queue[h] # <<>> /\ ~FromServer(h)

\* Whoever was given an address by the server is told when it changes: an
\* application that RegisterPeer connected is a subscriber of its peer.
ConnectedIsSubscribed ==
  \A h \in Names :
    app_thread[h] \in ConnectedState
      => <<h, AppPort>> \in subscriptions_[PeerOf[h]]

\* When the control traffic has died down, connected applications have their
\* peer's address.
Converged ==
  Settled => \A h \in Names :
               app_sockets_[h] # Absent /\ Running(h) /\ Running(PeerOf[h])
                 => app_sockets_[h] = loc[PeerOf[h]]

-------------------------------------------------------------------------------
(* Liveness *)

\* A daemon that registers a new address gets back to its loop, if its machine
\* does not stay without a network for ever.
UpdateEnds ==
  \A h \in Names :
    <>[](loc[h] # Offline) => (daemon[h] = "updating" ~> daemon[h] # "updating")

\* Every pair of applications ends up connected to where the peer is, unless
\* one of the two has given up.
EventuallyInContact ==
  \A h \in Names :
    <>[](\/ ~Running(h)
         \/ ~Running(PeerOf[h])
         \/ app_sockets_[h] = loc[PeerOf[h]])

-------------------------------------------------------------------------------
(* Inductive invariants, from which the safety properties are proved *)

Waiting(h) == daemon[h] \in {"registering", "updating", "stopped"}

\* RegisteredIsLastSent: of the first process of each node at most one registration
\* or one reply to a registration is under way, and only while its daemon waits.
RegistrationUnderWay ==
  \A m \in to_regist : Original(m.name) =>
    Waiting(m.name) /\ m.from = sent_from[m.name] /\ m.inc = incarnation[m.name]

AckUnderWay ==
  \A r \in to_private : r.thread = "daemon" /\ Original(r.host) =>
    /\ Waiting(r.host)
    /\ r.to = sent_from[r.host] /\ r.text = sent_from[r.host]
    /\ r.inc = incarnation[r.host]
    /\ HasLastSent(r.host)
    /\ \A m \in to_regist : m.name # r.host

RegisteredInLoop ==
  \A h \in Names : Original(h) /\ daemon[h] \in LoopState \cup {"start"} =>
    /\ sent_from[h] \in Addresses \cup {Absent}
    /\ HasLastSent(h)

RegistrationInv == RegistrationUnderWay /\ AckUnderWay /\ RegisteredInLoop

\* NotedIsRegistered, when machines move while their daemons sleep only: what
\* the address is that the last registration came from.
LastSentIsNoted ==
  \A h \in Names \ Failing : Original(h) =>
    /\ loc[h] # Offline
    /\ daemon[h] \in {"start", "registering"} => last_known_ip_address_[h] = loc[h]
    /\ daemon[h] \in {"registering", "updating"} \cup PollingState
         => sent_from[h] = loc[h]
    /\ daemon[h] = "asleep" => sent_from[h] = last_known_ip_address_[h]

\* PeekedIsTaken: no thread of a connected application waits for a lookup's reply.
ConnectedForGood ==
  \A h \in Names :
    /\ app_sockets_[h] # Absent => app_thread[h] \in ConnectedState \cup {"exited"}
    /\ daemon[h] \in {"taking", "writing"} => app_sockets_[h] # Absent

PeekInv == PeekedIsTaken /\ ConnectedForGood

\* NoCrossTalk: where an address can have come from, at every stage of its way
\* from a machine to its peer's application.
HomeAddresses ==
  /\ \A h \in Names : loc[h] \in Homes[h] \cup {Offline}
  /\ \A m \in to_regist : m.from \in Homes[m.name]
  /\ \A n \in Names : registered_names_[n] \in Homes[n] \cup {Absent, NoAddr}

PeerSubscriptions ==
  /\ \A m \in to_lookup : /\ m.from \in Homes[m.subscriber]
                          /\ m.subscribee = PeerOf[m.subscriber]
  /\ \A n \in Names : \A s \in subscriptions_[n] : PeerOf[s[1]] = n

PeerNotices ==
  /\ \A d \in to_app : \A h \in Names :
       d.to \in Homes[h] => d.text \in Homes[PeerOf[h]] \cup {NoAddr}
  /\ \A h \in Names : \A i \in DOMAIN app_queue[h] :
       app_queue[h][i].from = RendezvousServer =>
         app_queue[h][i].text \in Homes[PeerOf[h]] \cup {NoAddr}
  /\ \A h \in Names : buffer[h] \in Homes[PeerOf[h]] \cup {NoAddr, Absent} \cup Names

CrossTalkInv == HomeAddresses /\ PeerSubscriptions /\ PeerNotices /\ NoCrossTalk

\* ConnectedIsSubscribed, when machines move by the rule "settled" and nobody
\* chats.  The server's operator[] makes no entry, because whoever is subscribed
\* to a name is registered before the name is registered a second time.
NoPhantoms ==
  /\ crashes = 0
  /\ \A n \in Names : registered_names_[n] # NoAddr
  /\ moves = 0 => \A h \in Names :
       /\ last_known_ip_address_[h] = GetCurrentIPAddress(h)
       /\ Known(h) => daemon[h] # "start" /\ \A m \in to_regist : m.name # h
  /\ moves > 0 => \A h \in Names : Running(h) => Known(h)

NobodyChats ==
  /\ BagToSet(to_peer) = {}
  /\ \A h \in Names :
       /\ app_socket_messages_[h] = {} /\ unsent[h] = {}
       /\ app_thread[h] \in RegisterPeerState \cup {"exited"}
       /\ app_sockets_[h] # Absent => app_thread[h] = "found"

LookupUnderWay ==
  /\ \A m \in to_lookup :
       /\ app_thread[m.subscriber] = "rs_wait"
       /\ m.port = AppPort
       /\ m.from = loc[m.subscriber] /\ m.inc = incarnation[m.subscriber]
  /\ \A n \in Names : \A s \in subscriptions_[n] : s[2] = AppPort

Subscribed(h) == <<h, AppPort>> \in subscriptions_[PeerOf[h]]
LookupSent(h) == \E m \in to_lookup : m.subscriber = h
NoticesFor(h) == {d \in to_app : d.to \in Homes[h]}
NothingTold(h) == NoticesFor(h) = {} /\ app_queue[h] = <<>>

\* A subscriber is not about to ask again, and is told addresses only.  The
\* others are told at most once, that their peer is not known, and then only
\* after their lookup was handled.
SubscribedOnce(h) ==
  /\ app_thread[h] \in {"rs_wait", "found"}
  /\ ~LookupSent(h)
  /\ \A d \in NoticesFor(h) : d.text # NoAddr
  /\ \A i \in DOMAIN app_queue[h] : app_queue[h][i].text # NoAddr

UnknownToldOnce(h) ==
  /\ app_thread[h] # "found"
  /\ LookupSent(h) \/ app_thread[h] # "rs_wait" => NothingTold(h)
  /\ \A d \in NoticesFor(h) : d.text = NoAddr
  /\ \A d, e \in NoticesFor(h) : d = e
  /\ NoticesFor(h) # {} => app_queue[h] = <<>>
  /\ Len(app_queue[h]) <= 1
  /\ \A i \in DOMAIN app_queue[h] : app_queue[h][i].text = NoAddr

Answered(h) ==
  /\ Subscribed(h) => SubscribedOnce(h)
  /\ ~Subscribed(h) => UnknownToldOnce(h)

SubscriptionInv ==
  /\ NoPhantoms
  /\ NobodyChats
  /\ LookupUnderWay
  /\ \A h \in Names : Answered(h)

===============================================================================
