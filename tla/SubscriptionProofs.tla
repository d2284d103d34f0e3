--------------------------- MODULE SubscriptionProofs ---------------------------
(***************************************************************************)
(* ConnectedIsSubscribed, for any number of nodes: when machines move only *)
(* after the last move was pushed to everybody, nobody chats and the       *)
(* server lives, no lookup is ever handled twice for the same node, so     *)
(* that ChangeSubscription, which unsubscribes who asks again, never takes *)
(* a connected application off the list.  The inductive invariant is       *)
(* SubscriptionInv of PermanentIP, on top of those of the other theorems.  *)
(***************************************************************************)
EXTENDS CrossTalkProofs

\* What ConnectedIsSubscribed needs of the environment.
Peaceful ==
  /\ MoveRule = "settled"
  /\ MaxCrashes = 0
  /\ Chatting = {}
  /\ Interruptible = {}
  /\ Failing = {}

-------------------------------------------------------------------------------
\* Every process is its node's first and always gets its sockets, so that every
\* daemon has sent a registration before it gets to its loop.
AllRegister ==
  \A h \in Names :
    /\ Original(h) /\ h \notin Failing
    /\ daemon[h] \notin {"start", "stopped"} => sent_from[h] # Absent

LEMMA NextAllRegister ==
  ASSUME TypeOK, AllRegister, Peaceful, [Next]_vars
  PROVE  AllRegister'
<1>t. /\ daemon \in [Names -> DaemonState]
      /\ sent_from \in [Names -> Addresses \cup {Absent, Offline}]
      /\ loc \in [Names -> Addresses \cup {Offline}]
  BY DEF TypeOK, MobileNodeTypeOK, NetworkTypeOK
<1>q. ASSUME UNCHANGED <<incarnation, daemon, sent_from>>
      PROVE  AllRegister'
  BY <1>q DEF AllRegister, Original
<1>e. ASSUME NEW h \in Names, NEW next \in DaemonState,
             daemon[h] \notin {"start", "stopped"} \/ next = "stopped",
             daemon' = [daemon EXCEPT ![h] = next], UNCHANGED <<incarnation, sent_from>>
      PROVE  AllRegister'
  BY <1>e, <1>t DEF AllRegister, Original
<1>1. ASSUME NEW h \in Names, DaemonThread(h)
      PROVE  AllRegister'
  <2>1. ASSUME NEW waiting, SendRegistration(h, waiting)
        PROVE  AllRegister'
    BY <2>1, <1>t, NetworkAssumption, TypesAssumption
       DEF SendRegistration, AllRegister, Original
  <2>2. CASE FirstRegistration(h) \/ WakeMoved(h)
    BY <2>1, <2>2 DEF FirstRegistration, WakeMoved
  <2>3. CASE RegistrationAcked(h)
    BY <2>3, <1>e DEF RegistrationAcked, DaemonState, LoopState, PollingState
  <2>4. CASE \/ WakeUnmoved(h) \/ PollSubscriptions(h) \/ NoteAddress(h)
    BY <2>4, <1>e DEF WakeUnmoved, PollSubscriptions, PollNothing, PollError, PeekUpdate,
       TakeUpdate, WriteAddress, CopyMessages, Resend, Resent, NoteAddress, DaemonGoto,
       DaemonState, LoopState, PollingState
  <2>5. ~RegistrationFails(h)
    BY DEF RegistrationFails, Peaceful
  <2>6. QED
    BY <1>1, <2>2, <2>3, <2>4, <2>5 DEF DaemonThread, Daemon
<1>2. ASSUME NEW h \in Names, ProcessEnds(h)
      PROVE  AllRegister'
  BY <1>2, <1>e DEF ProcessEnds, DaemonState, LoopState, PollingState
<1>3. ASSUME NEW h \in Names, RegisterPeer(h)
      PROVE  AllRegister'
  BY <1>3, <1>q DEF RegisterPeer, QueryDns, QueryFails, DnsReplied, LookupPeer,
     LookupReplied, networkVars
<1>4. ASSUME NEW h \in Names, App(h)
      PROVE  AllRegister'
  <2>1. CASE BindFails(h) \/ GiveUp(h) \/ ReceiveError(h)
    BY <1>2, <2>1 DEF BindFails, GiveUp, ReceiveError
  <2>2. CASE Retry(h) \/ Connected(h)
    BY <1>q, <2>2 DEF Retry, Connected, networkVars
  <2>3. CASE \/ ReceiveNothing(h) \/ PeekMessage(h) \/ ReceiveOwn(h) \/ ReceiveAndEcho(h)
             \/ SendKeyword(h) \/ SkipSend(h) \/ NoteSent(h)
    BY <1>q, <2>3 DEF ReceiveNothing, PeekMessage, ReceiveOwn, ReceiveAndEcho,
       SendKeyword, SkipSend, NoteSent, TakeMessage, loopUnchanged
  <2>4. QED
    BY <1>4, <2>1, <2>2, <2>3 DEF App
<1>5. CASE Server \/ ServerCrash \/ DNS \/ Loss
  BY <1>5, <1>q DEF Server, ServerCrash, DNS, Loss, HandleRequests, HandleLookup,
     HandleRegistration, ServerRestarts, HandleQuery, LoseRequest, LoseReply, LoseNotice,
     LosePeer, nodeVars
<1>6. ASSUME NEW h \in Names, Delivery(h) \/ MachineMoves(h) \/ MachineDisconnects(h)
      PROVE  AllRegister'
  BY <1>6, <1>q DEF Delivery, DeliverNotice, DeliverPeer, MachineMoves,
     MachineDisconnects, Move, Disconnect, nodeVars
<1>7. CASE UNCHANGED vars
  BY <1>7, <1>q DEF vars, networkVars, nodeVars
<1>8. QED
  BY <1>1, <1>2, <1>3, <1>4, <1>5, <1>6, <1>7 DEF Next, AppThread, Interrupt, Interrupted

LEMMA InitAllRegister ==
  ASSUME Init, Peaceful
  PROVE  AllRegister
  BY DEF Peaceful, Init, MobileNodeInit, NetworkInit, AllRegister, Original

-------------------------------------------------------------------------------
(* NobodyChats *)

LEMMA NextNobodyChats ==
  ASSUME TypeOK, PeekInv, NobodyChats, Peaceful, [Next]_vars
  PROVE  NobodyChats'
<1> DEFINE SameChat == UNCHANGED <<to_peer, app_socket_messages_, app_thread, app_sockets_,
                              unsent>>
<1>q. ASSUME SameChat
      PROVE  NobodyChats'
  BY <1>q DEF NobodyChats
<1>t. /\ app_thread \in [Names -> AppState]
      /\ app_sockets_ \in [Names -> Addresses \cup {Absent, NoAddr}]
      /\ app_socket_messages_ \in [Names -> SUBSET Names]
      /\ unsent \in [Names -> SUBSET Names]
  BY DEF TypeOK, MobileNodeTypeOK
<1>e. ASSUME NEW h \in Names, NEW next \in (RegisterPeerState \ {"found"}) \cup {"exited"},
             app_thread[h] # "found", AppGoto(h, next),
             UNCHANGED <<to_peer, app_socket_messages_, app_sockets_, unsent>>
      PROVE  NobodyChats'
  BY <1>e, <1>t DEF NobodyChats, AppGoto
<1>1. ASSUME NEW h \in Names, DaemonThread(h)
      PROVE  NobodyChats'
  <2>1. CASE WriteAddress(h)
    BY <2>1, <1>t DEF WriteAddress, DaemonGoto, PeekInv, ConnectedForGood, NobodyChats
  <2>2. CASE CopyMessages(h)
    BY <2>2, <1>t DEF CopyMessages, DaemonGoto, NobodyChats
  <2>3. ~Resend(h)
    BY DEF Resend, NobodyChats
  <2>4. CASE \/ FirstRegistration(h) \/ RegistrationAcked(h) \/ WakeMoved(h)
             \/ WakeUnmoved(h) \/ RegistrationFails(h) \/ NoteAddress(h)
             \/ PollNothing(h) \/ PollError(h) \/ PeekUpdate(h) \/ TakeUpdate(h)
             \/ Resent(h)
    BY <2>4, <1>q DEF FirstRegistration, RegistrationAcked, WakeMoved, WakeUnmoved,
       SendRegistration, RegistrationFails, NoteAddress, PollNothing, PollError,
       PeekUpdate, TakeUpdate, Resent, DaemonGoto, pollVars
  <2>5. QED
    BY <1>1, <2>1, <2>2, <2>3, <2>4 DEF DaemonThread, Daemon, PollSubscriptions
<1>2. ASSUME NEW h \in Names, AppThread(h)
      PROVE  NobodyChats'
  <2>1. CASE QueryDns(h) \/ DnsReplied(h) \/ LookupPeer(h)
    BY <2>1, <1>e DEF QueryDns, DnsReplied, LookupPeer, RegisterPeerState, pollVars
  <2>2. CASE LookupReplied(h)
    BY <2>2, <1>t DEF LookupReplied, AppGoto, NobodyChats, RegisterPeerState, flightVars,
       pollVars
  <2>3. CASE Retry(h)
    BY <2>3, <1>e DEF Retry, RegisterPeerState, networkVars, flightVars, pollVars
  <2>4. CASE GiveUp(h) \/ BindFails(h)
    BY <2>4, <1>e DEF GiveUp, BindFails, ReceiveError, ProcessEnds, RegisterPeerState, flightVars,
       pollVars
  <2>5. app_thread[h] \notin {"receive", "take", "echoed", "send", "sent"}
    BY DEF NobodyChats, RegisterPeerState
  <2>6. QED
    BY <1>2, <2>1, <2>2, <2>3, <2>4, <2>5 DEF AppThread, RegisterPeer, QueryFails, App,
       Peaceful, Connected, ReceiveNothing, ReceiveError, PeekMessage, ReceiveOwn,
       ReceiveAndEcho, TakeMessage, SendKeyword, SkipSend, NoteSent
<1>3. CASE Server \/ ServerCrash
  BY <1>3, <1>q DEF Server, ServerCrash, ServerRestarts, HandleRequests, HandleLookup,
     HandleRegistration, nodeVars, pollVars
<1>4. CASE DNS
  BY <1>4, <1>q DEF DNS, HandleQuery, nodeVars, pollVars
<1>5. ASSUME NEW h \in Names, Delivery(h)
      PROVE  NobodyChats'
  BY <1>5, <1>q DEF Delivery, DeliverNotice, DeliverPeer, nodeVars, pollVars, NobodyChats
<1>6. CASE Loss
  BY <1>6, <1>q DEF Loss, LoseRequest, LoseReply, LoseNotice, LosePeer, nodeVars, pollVars,
     NobodyChats
<1>7. ASSUME NEW h \in Names, MachineMoves(h) \/ MachineDisconnects(h)
      PROVE  NobodyChats'
  BY <1>7, <1>q DEF MachineMoves, MachineDisconnects, Move, Disconnect, nodeVars,
     pollVars, flightVars
<1>8. CASE UNCHANGED vars
  BY <1>8, <1>q DEF vars, nodeVars, pollVars, networkVars, flightVars
<1>9. QED
  BY <1>1, <1>2, <1>3, <1>4, <1>5, <1>6, <1>7, <1>8 DEF Next, Interrupt, Interrupted,
     Peaceful

-------------------------------------------------------------------------------
(* NoPhantoms *)

LEMMA PhantomsQuiet ==
  ASSUME NoPhantoms, UNCHANGED <<crashes, registered_names_, moves, loc>>,
         to_regist' \subseteq to_regist,
         \A h \in Names :
           /\ daemon'[h] = "start" => daemon[h] = "start"
           /\ last_known_ip_address_'[h] \in
                {last_known_ip_address_[h], GetCurrentIPAddress(h)}
           /\ app_thread'[h] # "exited" => app_thread[h] # "exited"
  PROVE  NoPhantoms'
  BY DEF NoPhantoms, Known, Running, GetCurrentIPAddress

\* Whoever is subscribed to a name that registers has an entry already.
LEMMA RegistrationPhantoms ==
  ASSUME TypeOK, RegistrationInv, SubscribedOnlyToKnown, SubscriptionInv,
         CrossTalkInv, AllRegister, NEW m \in to_regist, HandleRegistration(m), UNCHANGED nodeVars
  PROVE  NoPhantoms'
<1>1. m.name \in Names /\ m.from \in Addresses
  BY DEF TypeOK, NetworkTypeOK, Registration
<1>2. /\ registered_names_' = NamesAfterUpdate(m.name, m.from)
      /\ to_regist' = to_regist \ {m}
      /\ UNCHANGED <<crashes, moves, loc, daemon, last_known_ip_address_, app_thread>>
  BY DEF HandleRegistration, UpdateAddress, nodeVars
<1>3. \A n \in Names, p \in Ports :
        n # m.name /\ <<n, p>> \in subscriptions_[m.name] => Known(n)
  <2>1. CASE moves = 0
    <3>1. ~Known(m.name)
      BY <1>1, <2>1 DEF SubscriptionInv, NoPhantoms
    <3>2. QED
      BY <1>1, <3>1 DEF SubscribedOnlyToKnown
  <2>2. CASE moves # 0
    <3> SUFFICES ASSUME NEW n \in Names, NEW p \in Ports,
                        <<n, p>> \in subscriptions_[m.name]
                 PROVE  Known(n)
      OBVIOUS
    <3>1. p = AppPort /\ PeerOf[n] = m.name
      BY <1>1 DEF SubscriptionInv, LookupUnderWay, CrossTalkInv, PeerSubscriptions
    <3>2. app_thread[n] \in {"rs_wait", "found"}
      BY <3>1 DEF SubscriptionInv, Answered, Subscribed, SubscribedOnce
    <3>3. moves > 0
      BY <2>2 DEF TypeOK, NetworkTypeOK
    <3>4. QED
      BY <3>2, <3>3 DEF SubscriptionInv, NoPhantoms, Running
  <2>3. QED
    BY <2>1, <2>2
<1>4. \A n \in Names : registered_names_'[n] # NoAddr
  BY <1>1, <1>2, <1>3, TypesAssumption DEF NamesAfterUpdate, SubscriptionInv, NoPhantoms
<1>5. \A n \in Names : Known(n)' <=> Known(n) \/ n = m.name
  BY <1>1, <1>2, <1>3, TypesAssumption DEF NamesAfterUpdate, Known
<1>6. \A q \in to_regist' : q.name # m.name
  BY <1>1, <1>2, OneRegistration DEF AllRegister
<1>7. daemon[m.name] # "start"
  BY <1>1 DEF AllRegister, RegistrationInv, RegistrationUnderWay, Waiting
<1>8. QED
  BY <1>2, <1>4, <1>5, <1>6, <1>7 DEF SubscriptionInv, NoPhantoms, Running,
     GetCurrentIPAddress

\* Machines move when every daemon sleeps, and sleeping daemons are registered.
LEMMA MovePhantoms ==
  ASSUME TypeOK, RegistrationInv, AllRegister, NoPhantoms, Peaceful, NEW g \in Names,
         MachineMoves(g)
  PROVE  NoPhantoms'
<1>1. Settled /\ moves' = moves + 1
  BY DEF MachineMoves, MayMove, Move, Peaceful
<1>2. \A h \in Names : Running(h) => registered_names_[h] \in Addresses
  BY <1>1 DEF Settled, UpToDate, RegistrationInv, RegisteredInLoop, HasLastSent, LoopState,
     AllRegister, NoPhantoms
<1>3. moves \in Nat
  BY DEF TypeOK, NetworkTypeOK
<1>4. UNCHANGED <<crashes, registered_names_, app_thread>>
  BY DEF MachineMoves, serverVars, tableVars, nodeVars
<1>5. QED
  BY <1>1, <1>2, <1>3, <1>4, TypesAssumption DEF NoPhantoms, Known, Running

LEMMA DaemonPhantoms ==
  ASSUME TypeOK, Peaceful, NoPhantoms, NEW g \in Names, DaemonThread(g)
  PROVE  NoPhantoms'
<1>1. UNCHANGED <<crashes, registered_names_>>
  BY DEF DaemonThread, serverVars, tableVars
<1>2. /\ daemon \in [Names -> DaemonState]
      /\ last_known_ip_address_ \in [Names -> Addresses \cup {Absent}]
      /\ moves \in Nat
  BY DEF TypeOK, MobileNodeTypeOK, NetworkTypeOK
<1>3. ASSUME NEW waiting \in {"registering", "updating"}, SendRegistration(g, waiting),
             moves = 0 => ~Known(g)
      PROVE  NoPhantoms'
  BY <1>1, <1>2, <1>3 DEF SendRegistration, Sent, NoPhantoms, Known, Running,
     GetCurrentIPAddress
<1>4. CASE FirstRegistration(g)
  BY <1>3, <1>4 DEF FirstRegistration, NoPhantoms
<1>5. CASE WakeMoved(g)
  BY <1>3, <1>5 DEF WakeMoved, NoPhantoms
<1>6. CASE RegistrationAcked(g)
  BY <1>1, <1>2, <1>6, PhantomsQuiet DEF RegistrationAcked
<1>7. CASE WakeUnmoved(g)
  BY <1>1, <1>2, <1>7, PhantomsQuiet DEF WakeUnmoved, DaemonGoto
<1>8. CASE PollSubscriptions(g) \/ NoteAddress(g)
  <2>1. \E next \in DaemonState \ {"start"} : DaemonGoto(g, next)
    BY <1>8 DEF PollSubscriptions, PollNothing, PollError, PeekUpdate, TakeUpdate,
       WriteAddress, CopyMessages, Resend, Resent, NoteAddress, DaemonState, LoopState,
       PollingState
  <2>2. \A h \in Names : last_known_ip_address_'[h] \in
                            {last_known_ip_address_[h], GetCurrentIPAddress(h)}
    BY <1>2, <1>8 DEF PollSubscriptions, PollNothing, PollError, PeekUpdate, TakeUpdate,
       WriteAddress, CopyMessages, Resend, Resent, NoteAddress
  <2>3. QED
    BY <1>1, <1>2, <2>1, <2>2, PhantomsQuiet DEF DaemonGoto
<1>9. QED
  BY <1>4, <1>5, <1>6, <1>7, <1>8 DEF DaemonThread, Daemon, RegistrationFails, Peaceful

LEMMA AppPhantoms ==
  ASSUME TypeOK, NoPhantoms, NEW g \in Names, AppThread(g)
  PROVE  NoPhantoms'
<1>1. UNCHANGED <<crashes, registered_names_>>
  BY DEF AppThread, serverVars, tableVars
<1>2. app_thread \in [Names -> AppState] /\ daemon \in [Names -> DaemonState]
  BY DEF TypeOK, MobileNodeTypeOK
<1>3. CASE RegisterPeer(g)
  BY <1>1, <1>2, <1>3, PhantomsQuiet DEF RegisterPeer, QueryDns, QueryFails, DnsReplied,
     LookupPeer, LookupReplied, AppGoto, networkVars, flightVars
<1>4. CASE GiveUp(g) \/ BindFails(g) \/ ReceiveError(g)
  BY <1>1, <1>2, <1>4, PhantomsQuiet DEF GiveUp, BindFails, ReceiveError, ProcessEnds, AppGoto,
     flightVars
<1>5. CASE App(g) /\ ~(GiveUp(g) \/ BindFails(g) \/ ReceiveError(g))
  BY <1>1, <1>2, <1>5, PhantomsQuiet DEF App, Retry, Connected, ReceiveNothing,
     PeekMessage, ReceiveOwn, ReceiveAndEcho, TakeMessage, SendKeyword, SkipSend,
     NoteSent, AppGoto,
     loopUnchanged, networkVars, flightVars
<1>6. QED
  BY <1>3, <1>4, <1>5 DEF AppThread

LEMMA NextNoPhantoms ==
  ASSUME TypeOK, RegistrationInv, SubscribedOnlyToKnown, CrossTalkInv,
         SubscriptionInv, AllRegister, Peaceful, [Next]_vars
  PROVE  NoPhantoms'
<1> NoPhantoms
  BY DEF SubscriptionInv
<1>1. CASE Server
  <2>1. UNCHANGED nodeVars
    BY <1>1 DEF Server
  <2>2. ASSUME NEW m \in to_lookup, HandleLookup(m)
        PROVE  NoPhantoms'
    BY <2>1, <2>2, PhantomsQuiet DEF HandleLookup, ChangeSubscription, nodeVars
  <2>3. QED
    BY <1>1, <2>1, <2>2, RegistrationPhantoms DEF Server, HandleRequests
<1>2. CASE ServerCrash
  BY <1>2 DEF ServerCrash, ServerRestarts, Peaceful, NoPhantoms
<1>3. CASE DNS
  BY <1>3, PhantomsQuiet DEF DNS, HandleQuery, serverVars, tableVars, nodeVars
<1>4. ASSUME NEW g \in Names, Delivery(g)
      PROVE  NoPhantoms'
  BY <1>4, PhantomsQuiet DEF Delivery, DeliverNotice, DeliverPeer, serverVars,
     tableVars, nodeVars
<1>5. CASE Loss
  BY <1>5, PhantomsQuiet DEF Loss, LoseRequest, LoseReply, LoseNotice, LosePeer,
     serverVars, tableVars, nodeVars
<1>6. CASE UNCHANGED vars
  BY <1>6, PhantomsQuiet DEF vars, serverVars, tableVars, networkVars, flightVars,
     nodeVars
<1>7. QED
  BY <1>1, <1>2, <1>3, <1>4, <1>5, <1>6, DaemonPhantoms, AppPhantoms, MovePhantoms
     DEF Next, Interrupt, Interrupted, MachineDisconnects, Peaceful

-------------------------------------------------------------------------------
(* LookupUnderWay *)

\* Of each node at most one lookup is under way.
LEMMA OneLookup ==
  ASSUME TypeOK, LookupUnderWay, CrossTalkInv, NEW m \in to_lookup,
         NEW q \in to_lookup, q.subscriber = m.subscriber
  PROVE  q = m
<1>1. \A r \in Lookup :
        r = [subscriber |-> r.subscriber, port |-> r.port, subscribee |-> r.subscribee,
             from |-> r.from, inc |-> r.inc]
  BY DEF Lookup
<1>2. \A r \in to_lookup :
        /\ r \in Lookup /\ r.port = AppPort /\ r.subscribee = PeerOf[r.subscriber]
        /\ r.from = loc[r.subscriber] /\ r.inc = incarnation[r.subscriber]
  BY DEF LookupUnderWay, TypeOK, NetworkTypeOK, CrossTalkInv, PeerSubscriptions
<1>3. QED
  BY <1>1, <1>2

\* A node whose socket holds a datagram has no lookup under way.
LEMMA ToldHasNoLookup ==
  ASSUME SubscriptionInv, NEW h \in Names, app_queue[h] # <<>>
  PROVE  ~LookupSent(h)
  BY DEF SubscriptionInv, Answered, SubscribedOnce, UnknownToldOnce, NothingTold

LEMMA LookupQuiet ==
  ASSUME TypeOK, LookupUnderWay,
         UNCHANGED <<loc, incarnation, subscriptions_>>, to_lookup' \subseteq to_lookup,
         \A h \in Names : LookupSent(h) => app_thread'[h] = app_thread[h]
  PROVE  LookupUnderWay'
<1>1. \A m \in to_lookup : m.subscriber \in Names
  BY DEF TypeOK, NetworkTypeOK, Lookup
<1>2. QED
  BY <1>1 DEF LookupUnderWay, LookupSent

LEMMA AppLookups ==
  ASSUME TypeOK, SubscriptionInv, NEW g \in Names, AppThread(g)
  PROVE  LookupUnderWay'
<1>1. /\ app_thread \in [Names -> AppState]
      /\ UNCHANGED subscriptions_ /\ LookupUnderWay
  BY DEF TypeOK, MobileNodeTypeOK, AppThread, serverVars, tableVars, SubscriptionInv
<1>2. app_thread[g] # "rs_wait" => ~LookupSent(g)
  BY DEF SubscriptionInv, LookupUnderWay, LookupSent
<1>3. CASE LookupPeer(g)
  <2>1. ~LookupSent(g)
    BY <1>2, <1>3 DEF LookupPeer
  <2>2. /\ UNCHANGED <<loc, incarnation>>
        /\ app_thread' = [app_thread EXCEPT ![g] = "rs_wait"]
        /\ to_lookup' \subseteq to_lookup \cup
             {[subscriber |-> g, port |-> AppPort, subscribee |-> PeerOf[g],
               from |-> loc[g], inc |-> incarnation[g]]}
    BY <1>3 DEF LookupPeer, AppGoto, Sent
  <2>3. QED
    BY <1>1, <2>1, <2>2 DEF LookupUnderWay, LookupSent
<1>4. CASE LookupReplied(g)
  <2>1. ~LookupSent(g)
    BY <1>4, ToldHasNoLookup DEF LookupReplied
  <2>2. QED
    BY <1>1, <1>4, <2>1, LookupQuiet DEF LookupReplied, AppGoto, flightVars
<1>5. CASE QueryDns(g) \/ QueryFails(g) \/ DnsReplied(g)
  BY <1>1, <1>2, <1>5, LookupQuiet DEF QueryDns, QueryFails, DnsReplied, AppGoto,
     networkVars, flightVars
<1>6. CASE GiveUp(g) \/ BindFails(g) \/ ReceiveError(g)
  BY <1>1, <1>2, <1>6, LookupQuiet DEF GiveUp, BindFails, ReceiveError, ProcessEnds, AppGoto, flightVars
<1>7. CASE App(g) /\ ~(GiveUp(g) \/ BindFails(g) \/ ReceiveError(g))
  BY <1>1, <1>2, <1>7, LookupQuiet DEF App, Retry, Connected, ReceiveNothing,
     PeekMessage, ReceiveOwn, ReceiveAndEcho, TakeMessage, SendKeyword, SkipSend,
     NoteSent, AppGoto,
     loopUnchanged, networkVars, flightVars
<1>8. QED
  BY <1>3, <1>4, <1>5, <1>6, <1>7 DEF AppThread, RegisterPeer

LEMMA NextLookups ==
  ASSUME TypeOK, SubscriptionInv, Peaceful, [Next]_vars
  PROVE  LookupUnderWay'
<1> LookupUnderWay
  BY DEF SubscriptionInv
<1>1. ASSUME NEW g \in Names, DaemonThread(g)
      PROVE  LookupUnderWay'
  BY <1>1, LookupQuiet DEF DaemonThread, Daemon, FirstRegistration, RegistrationAcked,
     WakeMoved, WakeUnmoved, SendRegistration, RegistrationFails,
     PollSubscriptions, PollNothing, PollError, PeekUpdate, TakeUpdate, WriteAddress,
     CopyMessages, Resend, Resent, NoteAddress, DaemonGoto, serverVars, tableVars
<1>2. CASE Server
  <2>1. UNCHANGED app_thread
    BY <1>2 DEF Server, nodeVars
  <2>2. ASSUME NEW m \in to_lookup, HandleLookup(m)
        PROVE  LookupUnderWay'
    <3>1. /\ to_lookup' \subseteq to_lookup
          /\ UNCHANGED <<loc, incarnation>>
      BY <2>2 DEF HandleLookup
    <3>2. \A n \in Names : \A s \in subscriptions_'[n] :
            s \in subscriptions_[n] \/ s = <<m.subscriber, m.port>>
      BY <2>2 DEF HandleLookup, ChangeSubscription, Toggle, TypeOK, TablesTypeOK
    <3>3. QED
      BY <2>1, <3>1, <3>2 DEF LookupUnderWay
  <2>3. ASSUME NEW m \in to_regist, HandleRegistration(m)
        PROVE  LookupUnderWay'
    BY <2>1, <2>3, LookupQuiet DEF HandleRegistration, UpdateAddress
  <2>4. QED
    BY <1>2, <2>2, <2>3 DEF Server, HandleRequests
<1>3. CASE ServerCrash
  BY <1>3 DEF ServerCrash, ServerRestarts, Peaceful, SubscriptionInv, NoPhantoms
<1>4. CASE DNS
  BY <1>4, LookupQuiet DEF DNS, HandleQuery, serverVars, tableVars, nodeVars
<1>5. ASSUME NEW g \in Names, Delivery(g)
      PROVE  LookupUnderWay'
  BY <1>5, LookupQuiet DEF Delivery, DeliverNotice, DeliverPeer, serverVars, tableVars,
     nodeVars
<1>6. CASE Loss
  BY <1>6, LookupQuiet DEF Loss, LoseRequest, LoseReply, LoseNotice, LosePeer,
     serverVars, tableVars, nodeVars
<1>7. ASSUME NEW g \in Names, MachineMoves(g)
      PROVE  LookupUnderWay'
  <2>1. to_lookup' = {} /\ UNCHANGED subscriptions_
    BY <1>7 DEF MachineMoves, MayMove, Settled, Peaceful, Move, flightVars, serverVars,
       tableVars
  <2>2. QED
    BY <2>1 DEF LookupUnderWay
<1>8. CASE UNCHANGED vars
  BY <1>8, LookupQuiet DEF vars, serverVars, tableVars, networkVars, flightVars, nodeVars
<1>9. QED
  BY <1>1, <1>2, <1>3, <1>4, <1>5, <1>6, <1>7, <1>8, AppLookups
     DEF Next, Interrupt, Interrupted, MachineDisconnects, Peaceful

-------------------------------------------------------------------------------
(* Answered *)

\* Steps that concern another node, or that drop what is under way.
LEMMA AnsweredQuiet ==
  ASSUME NEW h \in Names, Answered(h),
         app_thread'[h] = app_thread[h], app_queue'[h] = app_queue[h],
         Subscribed(h)' <=> Subscribed(h),
         NoticesFor(h)' \subseteq NoticesFor(h), LookupSent(h)' => LookupSent(h)
  PROVE  Answered(h)'
  BY DEF Answered, SubscribedOnce, UnknownToldOnce, NothingTold

\* What the oldest datagram of a queue says, and what is left without it.
LEMMA QueueTail ==
  ASSUME TypeOK, NEW h \in Names, app_queue[h] # <<>>
  PROVE  /\ 1 \in DOMAIN app_queue[h] /\ Head(app_queue[h]) = app_queue[h][1]
         /\ Len(app_queue[h]) <= 1 => Tail(app_queue[h]) = <<>>
         /\ \A i \in DOMAIN Tail(app_queue[h]) :
              i + 1 \in DOMAIN app_queue[h]
              /\ Tail(app_queue[h])[i] = app_queue[h][i + 1]
<1>1. app_queue[h] \in Seq(Received)
  BY DEF TypeOK, NetworkTypeOK
<1>2. QED
  BY <1>1

LEMMA DaemonAnswered ==
  ASSUME TypeOK, PeekInv, SubscriptionInv, NEW g \in Names, DaemonThread(g),
         NEW h \in Names
  PROVE  Answered(h)'
<1>1. Answered(h) /\ UNCHANGED <<subscriptions_, app_thread, to_app, to_lookup>>
  BY DEF SubscriptionInv, DaemonThread, Daemon, FirstRegistration, RegistrationAcked,
     WakeMoved, WakeUnmoved, SendRegistration, RegistrationFails,
     PollSubscriptions, PollNothing, PollError, PeekUpdate, TakeUpdate, WriteAddress,
     CopyMessages, Resend, Resent, NoteAddress, DaemonGoto, serverVars, tableVars
<1>2. app_queue \in [Names -> Seq(Received)]
  BY DEF TypeOK, NetworkTypeOK
<1>3. CASE app_queue'[h] = app_queue[h]
  BY <1>1, <1>3, AnsweredQuiet DEF Subscribed, NoticesFor, LookupSent
<1>4. CASE TakeUpdate(g) /\ g = h
  <2>1. app_thread[h] = "found" /\ app_queue[h] # <<>>
    BY <1>4 DEF TakeUpdate, PeekInv, ConnectedForGood, SubscriptionInv, NobodyChats
  <2>2. SubscribedOnce(h) /\ Subscribed(h)
    BY <1>1, <2>1 DEF Answered, UnknownToldOnce
  <2>3. app_queue'[h] = Tail(app_queue[h])
    BY <1>2, <1>4 DEF TakeUpdate
  <2>4. QED
    BY <1>1, <2>1, <2>2, <2>3, QueueTail
       DEF Answered, SubscribedOnce, Subscribed, NoticesFor, LookupSent
<1>5. app_queue'[h] = app_queue[h] \/ (TakeUpdate(g) /\ g = h)
  BY <1>2 DEF DaemonThread, Daemon, FirstRegistration, RegistrationAcked, WakeMoved,
     WakeUnmoved, SendRegistration, RegistrationFails, PollSubscriptions, PollNothing,
     PollError, PeekUpdate, TakeUpdate, WriteAddress, CopyMessages, Resend, Resent,
     NoteAddress
<1>6. QED
  BY <1>3, <1>4, <1>5

LEMMA AppAnswered ==
  ASSUME TypeOK, SubscriptionInv, Peaceful, NEW g \in Names, AppThread(g),
         NEW h \in Names
  PROVE  Answered(h)'
<1>1. Answered(h) /\ UNCHANGED subscriptions_
  BY DEF SubscriptionInv, AppThread, serverVars, tableVars
<1>2. /\ app_queue \in [Names -> Seq(Received)]
      /\ app_thread \in [Names -> AppState]
  BY DEF TypeOK, NetworkTypeOK, MobileNodeTypeOK
<1>3. Subscribed(h)' <=> Subscribed(h)
  BY <1>1 DEF Subscribed
<1> DEFINE Asking == {"query", "dns_wait", "lookup", "null"}
<1>q. ASSUME app_thread[g] \in Asking, app_thread'[g] # "found",
             \A i \in Names \ {g} : /\ app_thread'[i] = app_thread[i]
                                    /\ app_queue'[i] = app_queue[i],
             app_queue'[g] \in {app_queue[g], <<>>}, UNCHANGED to_app,
             \A i \in Names \ {g} : LookupSent(i)' => LookupSent(i)
      PROVE  Answered(h)'
  <2>1. CASE h # g
    BY <1>1, <1>3, <1>q, <2>1, AnsweredQuiet DEF NoticesFor
  <2>2. CASE h = g
    <3>1. ~Subscribed(h) /\ UnknownToldOnce(h)
      BY <1>1, <1>q, <2>2 DEF Answered, SubscribedOnce
    <3>2. NothingTold(h)
      BY <1>q, <2>2, <3>1 DEF UnknownToldOnce
    <3>3. NoticesFor(h)' = {} /\ app_queue'[h] = <<>>
      BY <1>q, <2>2, <3>2 DEF NothingTold, NoticesFor
    <3>4. QED
      BY <1>3, <1>q, <2>2, <3>1, <3>3 DEF Answered, UnknownToldOnce, NothingTold
  <2>3. QED
    BY <2>1, <2>2
<1>4. CASE QueryDns(g) \/ QueryFails(g) \/ DnsReplied(g)
  BY <1>2, <1>4, <1>q DEF QueryDns, QueryFails, DnsReplied, AppGoto, LookupSent,
     networkVars, flightVars
<1>5. CASE LookupPeer(g)
  <2>1. \A i \in Names \ {g} : LookupSent(i)' => LookupSent(i)
    BY <1>5 DEF LookupPeer, Sent, LookupSent
  <2>2. QED
    BY <1>2, <1>5, <1>q, <2>1 DEF LookupPeer, AppGoto
<1>6. CASE LookupReplied(g)
  <2>1. /\ app_thread[g] = "rs_wait" /\ app_queue[g] # <<>>
        /\ app_queue' = [app_queue EXCEPT ![g] = Tail(@)]
        /\ app_thread' = [app_thread EXCEPT ![g] =
                             IF Head(app_queue[g]).text = NoAddr THEN "null" ELSE "found"]
        /\ UNCHANGED <<to_app, to_lookup>>
    BY <1>6 DEF LookupReplied, AppGoto, flightVars
  <2>2. CASE h # g
    BY <1>1, <1>2, <1>3, <2>1, <2>2, AnsweredQuiet DEF NoticesFor, LookupSent
  <2>3. CASE h = g /\ Subscribed(h)
    <3>1. SubscribedOnce(h) /\ Head(app_queue[h]).text # NoAddr
      BY <1>1, <2>1, <2>3, QueueTail DEF Answered, SubscribedOnce
    <3>2. app_thread'[h] = "found" /\ app_queue'[h] = Tail(app_queue[h])
      BY <1>2, <2>1, <2>3, <3>1
    <3>3. QED
      BY <1>3, <2>1, <2>3, <3>1, <3>2, QueueTail
         DEF Answered, SubscribedOnce, NoticesFor, LookupSent
  <2>4. CASE h = g /\ ~Subscribed(h)
    <3>1. UnknownToldOnce(h) /\ Head(app_queue[h]).text = NoAddr
      BY <1>1, <2>1, <2>4, QueueTail DEF Answered, UnknownToldOnce
    <3>2. NoticesFor(h) = {} /\ Tail(app_queue[h]) = <<>>
      BY <2>1, <2>4, <3>1, QueueTail DEF UnknownToldOnce
    <3>3. app_thread'[h] = "null" /\ app_queue'[h] = <<>> /\ NoticesFor(h)' = {}
      BY <1>2, <2>1, <2>4, <3>1, <3>2 DEF NoticesFor
    <3>4. QED
      BY <1>3, <2>4, <3>3 DEF Answered, UnknownToldOnce, NothingTold
  <2>5. QED
    BY <2>2, <2>3, <2>4
<1>7. CASE Retry(g)
  BY <1>2, <1>7, <1>q DEF Retry, AppGoto, LookupSent, networkVars, flightVars
<1>8. CASE GiveUp(g) \/ BindFails(g)
  BY <1>2, <1>8, <1>q DEF GiveUp, BindFails, ProcessEnds, AppGoto, LookupSent, flightVars
<1>9. app_thread[g] \notin {"receive", "take", "echoed", "send", "sent"}
  BY DEF SubscriptionInv, NobodyChats, RegisterPeerState
<1>10. QED
  BY <1>4, <1>5, <1>6, <1>7, <1>8, <1>9 DEF AppThread, RegisterPeer, App, Peaceful,
     Connected, ReceiveNothing, ReceiveError, PeekMessage, ReceiveOwn, ReceiveAndEcho,
     TakeMessage, SendKeyword, SkipSend, NoteSent

\* A lookup handled makes its node a subscriber and tells it an address, or
\* tells it that its peer is not known; nothing else is under way to it.
LEMMA LookupAnswered ==
  ASSUME TypeOK, CrossTalkInv, DisjointHomes, SubscriptionInv, NEW m \in to_lookup,
         HandleLookup(m), UNCHANGED nodeVars, NEW h \in Names
  PROVE  Answered(h)'
<1> DEFINE s == m.subscriber
           reply == [to |-> m.from, port |-> m.port,
                     text |-> LookupResult(PeerOf[s]), seq |-> handled]
<1>1. /\ s \in Names /\ m.subscribee = PeerOf[s] /\ PeerOf[s] \in Names
      /\ m.port = AppPort /\ m.from \in Homes[s] /\ app_thread[s] = "rs_wait"
  BY DEF TypeOK, NetworkTypeOK, Lookup, CrossTalkInv, PeerSubscriptions,
     SubscriptionInv, LookupUnderWay
<1>2. /\ to_app' = to_app \cup {reply}
      /\ to_lookup' = to_lookup \ {m}
      /\ UNCHANGED <<app_queue, app_thread>>
  BY <1>1 DEF HandleLookup, Noted, nodeVars
<1>3. subscriptions_' = IF Known(PeerOf[s])
                          THEN [subscriptions_ EXCEPT ![PeerOf[s]] =
                                  Toggle(@, <<s, AppPort>>)]
                          ELSE subscriptions_
  BY <1>1 DEF HandleLookup, ChangeSubscription
<1>4. subscriptions_ \in [Names -> SUBSET Subscriber]
  BY DEF TypeOK, TablesTypeOK
<1>5. LookupSent(s) /\ ~Subscribed(s) /\ NothingTold(s)
  BY <1>1 DEF SubscriptionInv, Answered, SubscribedOnce, UnknownToldOnce, LookupSent
<1>6. CASE h # s
  <2>1. Subscribed(h)' <=> Subscribed(h)
    BY <1>1, <1>3, <1>4, <1>6, PeerOfType DEF Subscribed, Toggle
  <2>2. NoticesFor(h)' \subseteq NoticesFor(h)
    BY <1>1, <1>2, <1>6 DEF NoticesFor, DisjointHomes
  <2>3. QED
    BY <1>2, <2>1, <2>2, AnsweredQuiet DEF SubscriptionInv, LookupSent
<1>7. CASE h = s
  <2>1. NoticesFor(h)' \subseteq {reply} /\ app_queue'[h] = <<>>
    BY <1>2, <1>5, <1>7 DEF NothingTold, NoticesFor
  <2>2. ~LookupSent(h)'
    BY <1>2, <1>7, OneLookup DEF SubscriptionInv, LookupSent
  <2>3. app_thread'[h] = "rs_wait"
    BY <1>1, <1>2, <1>7
  <2>4. CASE Known(PeerOf[s])
    <3>1. Subscribed(h)'
      BY <1>1, <1>3, <1>4, <1>5, <1>7, <2>4 DEF Subscribed, Toggle
    <3>2. reply.text # NoAddr
      BY <1>1, <2>4 DEF LookupResult, SubscriptionInv, NoPhantoms
    <3>3. QED
      BY <2>1, <2>2, <2>3, <3>1, <3>2 DEF Answered, SubscribedOnce
  <2>5. CASE ~Known(PeerOf[s])
    <3>1. ~Subscribed(h)'
      BY <1>3, <1>5, <1>7, <2>5 DEF Subscribed
    <3>2. reply.text = NoAddr
      BY <2>5 DEF LookupResult
    <3>3. QED
      BY <2>1, <2>2, <2>3, <3>1, <3>2 DEF Answered, UnknownToldOnce
  <2>6. QED
    BY <2>4, <2>5
<1>8. QED
  BY <1>6, <1>7

\* Updates go to subscribers.
LEMMA RegistrationAnswered ==
  ASSUME TypeOK, CrossTalkInv, DisjointHomes, SubscriptionInv, NEW m \in to_regist,
         HandleRegistration(m), UNCHANGED nodeVars, NEW h \in Names
  PROVE  Answered(h)'
<1>1. /\ to_app' = to_app \cup Noted({u \in Updates(m.name, m.from) : u.to # NoAddr})
      /\ UNCHANGED <<subscriptions_, to_lookup, app_queue, app_thread>>
  BY DEF HandleRegistration, UpdateAddress, nodeVars
<1>2. /\ Answered(h)
      /\ m.name \in Names /\ m.from # NoAddr
  BY TypesAssumption DEF SubscriptionInv, TypeOK, NetworkTypeOK, Registration
<1>3. ASSUME NEW d \in Noted({u \in Updates(m.name, m.from) : u.to # NoAddr}),
             d.to \in Homes[h]
      PROVE  Subscribed(h) /\ d.text # NoAddr
  <2>1. PICK s \in subscriptions_[m.name] :
          /\ d.to = NamesAfterUpdate(m.name, m.from)[s[1]]
          /\ d.text = m.from /\ d.to # NoAddr
    BY DEF Noted, Updates
  <2>2. /\ s = <<s[1], s[2]>> /\ s[1] \in Names /\ PeerOf[s[1]] = m.name
        /\ d.to \in Homes[s[1]]
    BY <2>1, UpdatesGoHome
  <2>3. s[1] = h
    BY <1>3, <2>2 DEF DisjointHomes
  <2>4. s[2] = AppPort
    BY <1>2 DEF SubscriptionInv, LookupUnderWay
  <2>5. QED
    BY <1>2, <2>1, <2>2, <2>3, <2>4 DEF Subscribed
<1>4. CASE Subscribed(h)
  BY <1>1, <1>2, <1>3, <1>4 DEF Answered, Subscribed, SubscribedOnce, NoticesFor, LookupSent
<1>5. CASE ~Subscribed(h)
  <2>1. NoticesFor(h)' \subseteq NoticesFor(h)
    BY <1>1, <1>3, <1>5 DEF NoticesFor
  <2>2. QED
    BY <1>1, <1>2, <2>1, AnsweredQuiet DEF Subscribed, LookupSent
<1>6. QED
  BY <1>4, <1>5

LEMMA DeliveryAnswered ==
  ASSUME TypeOK, CrossTalkInv, SubscriptionInv, NEW g \in Names, Delivery(g),
         NEW h \in Names
  PROVE  Answered(h)'
<1>1. PICK d \in to_app :
        /\ d.to = loc[g]
        /\ to_app' = to_app \ {d}
        /\ app_queue' = [app_queue EXCEPT ![g] =
                           Append(@, [from |-> RendezvousServer, text |-> d.text])]
  BY DEF Delivery, DeliverNotice, DeliverPeer, SubscriptionInv, NobodyChats
<1>2. UNCHANGED <<subscriptions_, to_lookup, app_thread>> /\ Answered(h)
  BY DEF Delivery, DeliverNotice, DeliverPeer, serverVars, tableVars, nodeVars,
     SubscriptionInv
<1>3. app_queue \in [Names -> Seq(Received)] /\ app_queue[h] \in Seq(Received)
  BY DEF TypeOK, NetworkTypeOK
<1>4. NoticesFor(h)' \subseteq NoticesFor(h)
  BY <1>1 DEF NoticesFor
<1>5. CASE h # g
  BY <1>1, <1>2, <1>3, <1>4, <1>5, AnsweredQuiet DEF Subscribed, LookupSent
<1>6. CASE h = g
  <2> DEFINE q == Append(app_queue[h], [from |-> RendezvousServer, text |-> d.text])
  <2>1. app_queue'[h] = q
    BY <1>1, <1>3, <1>6
  <2>2. d \in NoticesFor(h)
    BY <1>1, <1>6, NetworkAssumption DEF NoticesFor, CrossTalkInv, HomeAddresses, TypeOK,
       NetworkTypeOK, Notice
  <2>3. \A i \in DOMAIN q : \/ i \in DOMAIN app_queue[h] /\ q[i] = app_queue[h][i]
                           \/ q[i].text = d.text
    BY <1>3
  <2>4. CASE Subscribed(h)
    BY <1>2, <1>4, <2>1, <2>2, <2>3, <2>4
       DEF Answered, Subscribed, SubscribedOnce, LookupSent
  <2>5. CASE ~Subscribed(h)
    <3>1. /\ UnknownToldOnce(h) /\ app_queue[h] = <<>> /\ d.text = NoAddr
          /\ ~LookupSent(h) /\ app_thread[h] = "rs_wait"
      BY <1>2, <2>2, <2>5 DEF Answered, UnknownToldOnce, NothingTold
    <3>2. NoticesFor(h)' = {}
      BY <1>1, <2>2, <3>1 DEF NoticesFor, UnknownToldOnce
    <3>3. Len(q) = 1
      BY <1>3, <3>1
    <3>4. QED
      BY <1>2, <2>1, <2>3, <2>5, <3>1, <3>2, <3>3
         DEF Answered, Subscribed, UnknownToldOnce, LookupSent
  <2>6. QED
    BY <2>4, <2>5
<1>7. QED
  BY <1>5, <1>6

LEMMA NextAnswered ==
  ASSUME TypeOK, PeekInv, CrossTalkInv, DisjointHomes, SubscriptionInv, Peaceful,
         [Next]_vars, NEW h \in Names
  PROVE  Answered(h)'
<1> Answered(h)
  BY DEF SubscriptionInv
<1>q. ASSUME UNCHANGED <<subscriptions_, app_thread, app_queue>>,
             to_app' \subseteq to_app, to_lookup' \subseteq to_lookup
      PROVE  Answered(h)'
  BY <1>q, AnsweredQuiet DEF Subscribed, NoticesFor, LookupSent
<1>1. CASE Server
  <2>1. UNCHANGED nodeVars
    BY <1>1 DEF Server
  <2>2. QED
    BY <1>1, <2>1, LookupAnswered, RegistrationAnswered DEF Server, HandleRequests
<1>2. CASE ServerCrash
  BY <1>2 DEF ServerCrash, ServerRestarts, Peaceful, SubscriptionInv, NoPhantoms
<1>3. CASE DNS
  BY <1>3, <1>q DEF DNS, HandleQuery, serverVars, tableVars, nodeVars
<1>4. CASE Loss
  BY <1>4, <1>q DEF Loss, LoseRequest, LoseReply, LoseNotice, LosePeer, serverVars,
     tableVars, nodeVars
<1>5. ASSUME NEW g \in Names, MachineMoves(g)
      PROVE  Answered(h)'
  BY <1>5, <1>q DEF MachineMoves, Move, serverVars, tableVars, nodeVars, flightVars
<1>6. CASE UNCHANGED vars
  BY <1>6, <1>q DEF vars, serverVars, tableVars, networkVars, flightVars, nodeVars
<1>7. QED
  BY <1>1, <1>2, <1>3, <1>4, <1>5, <1>6, DaemonAnswered, AppAnswered, DeliveryAnswered
     DEF Next, Interrupt, Interrupted, MachineDisconnects, Peaceful

-------------------------------------------------------------------------------

LEMMA InitSubscription ==
  ASSUME Init
  PROVE  SubscriptionInv
<1>1. NoPhantoms
  BY TypesAssumption DEF Init, ServerInit, TablesInit, NetworkInit, MobileNodeInit,
     NoPhantoms, Known
<1>2. BagToSet(to_peer) = {}
  BY NoBag DEF Init, NetworkInit
<1>3. NobodyChats
  BY <1>2 DEF Init, MobileNodeInit, NobodyChats, RegisterPeerState
<1>4. LookupUnderWay
  BY DEF Init, ServerInit, TablesInit, NetworkInit, LookupUnderWay
<1>5. ASSUME NEW h \in Names
      PROVE  Answered(h)
  <2>1. ~Subscribed(h)
    BY PeerOfType DEF Init, ServerInit, TablesInit, Subscribed
  <2>2. NoticesFor(h) = {} /\ app_queue[h] = <<>> /\ app_thread[h] = "query"
    BY DEF Init, NetworkInit, MobileNodeInit, NoticesFor
  <2>3. QED
    BY <2>1, <2>2 DEF Answered, UnknownToldOnce, NothingTold
<1>6. QED
  BY <1>1, <1>3, <1>4, <1>5 DEF SubscriptionInv

\* If machines move only when the last move has been pushed to everybody, nobody
\* chats, the server lives and no two machines can have the same address, then
\* whatever is lost or overtaken and however often RegisterPeer is tried again,
\* an application that was given its peer's address is told when it changes: the
\* toggle of ChangeSubscription never unsubscribes it.
THEOREM ConnectedAreSubscribed ==
  ASSUME Peaceful, DisjointHomes
  PROVE  Spec => []ConnectedIsSubscribed
<1> DEFINE Inv == /\ TypeOK /\ PeekInv /\ RegistrationInv /\ SubscribedOnlyToKnown
                  /\ CrossTalkInv /\ AllRegister /\ SubscriptionInv
<1>1. Init => Inv
  BY InitType, InitPeekInv, InitRegistrationInv, InitSubscription, InitAllRegister,
     InitCrossTalk, InitOnlyKnown
<1>2. Inv /\ [Next]_vars => Inv'
  <2> SUFFICES ASSUME Inv, [Next]_vars
               PROVE  Inv'
    OBVIOUS
  <2>1. [RestartNext]_vars
    BY DEF RestartNext
  <2>2. SubscriptionInv'
    BY NextNobodyChats, NextNoPhantoms, NextLookups, NextAnswered DEF SubscriptionInv
  <2>3. QED
    BY <2>1, <2>2, NextType, NextPeekInv, NextRegistrationInv, NextAllRegister,
       NextCrossTalk, NextOnlyKnown
<1>3. Inv => ConnectedIsSubscribed
  BY DEF SubscriptionInv, NobodyChats, Answered, UnknownToldOnce, Subscribed,
     ConnectedIsSubscribed, ConnectedState, RegisterPeerState
<1>4. QED
  BY <1>1, <1>2, <1>3, PTL DEF Spec

===============================================================================
