---------------------------- MODULE CrossTalkProofs ----------------------------
(***************************************************************************)
(* NoCrossTalk, for any number of nodes: when no two machines can ever     *)
(* have the same address, an application never sends to a machine that is  *)
(* not its peer.  The inductive invariant is CrossTalkInv of PermanentIP.  *)
(***************************************************************************)
EXTENDS PermanentIPProofs

\* No address is ever given to two machines.
DisjointHomes ==
  \A h, i \in Names : h # i => Homes[h] \cap Homes[i] = {}

LEMMA HomesType ==
  ASSUME NEW h \in Names
  PROVE  Homes[h] \subseteq Addresses /\ NoAddr \notin Homes[h] /\ Offline \notin Homes[h]
  BY NetworkAssumption, TypesAssumption

\* Steps of the network and of threads that hand on nothing but what there is.
LEMMA CrossTalkQuiet ==
  ASSUME CrossTalkInv,
         UNCHANGED <<loc, registered_names_, subscriptions_, app_sockets_, app_queue,
                     buffer>>,
         to_regist' \subseteq to_regist, to_lookup' \subseteq to_lookup,
         to_app' \subseteq to_app
  PROVE  CrossTalkInv'
  BY DEF CrossTalkInv, HomeAddresses, PeerSubscriptions, PeerNotices, NoCrossTalk

\* What an application socket's oldest datagram says.
LEMMA HeadOfQueue ==
  ASSUME TypeOK, CrossTalkInv, NEW h \in Names, app_queue[h] # <<>>
  PROVE  Head(app_queue[h]).text \in Homes[PeerOf[h]] \cup {NoAddr} \cup Names
<1>1. app_queue[h] \in Seq(Received)
  BY DEF TypeOK, NetworkTypeOK
<1>2. 1 \in DOMAIN app_queue[h] /\ Head(app_queue[h]) = app_queue[h][1]
  BY <1>1
<1>3. Head(app_queue[h]) \in Received
  BY <1>1
<1>4. CASE Head(app_queue[h]).from = RendezvousServer
  BY <1>2, <1>4 DEF CrossTalkInv, PeerNotices
<1>5. CASE Head(app_queue[h]).from # RendezvousServer
  BY <1>3, <1>5 DEF Received
<1>6. QED
  BY <1>4, <1>5

\* The same, read as an address.
LEMMA ReadAsAddress ==
  ASSUME NEW h \in Names, NEW text \in Homes[PeerOf[h]] \cup {NoAddr, Absent} \cup Names
  PROVE  IPStringToInt(text) \in Homes[PeerOf[h]] \cup {NoAddr}
  BY NetworkAssumption, TypesAssumption DEF IPStringToInt

\* Steps that change one application socket's queue by taking its head.
LEMMA TailOfQueue ==
  ASSUME TypeOK, CrossTalkInv, NEW h \in Names, app_queue[h] # <<>>,
         app_queue' = [app_queue EXCEPT ![h] = Tail(@)],
         buffer' \in {buffer, [buffer EXCEPT ![h] = Head(app_queue[h]).text]},
         UNCHANGED to_app
  PROVE  PeerNotices'
<1>1. app_queue[h] \in Seq(Received) /\ app_queue \in [Names -> Seq(Received)]
  BY DEF TypeOK, NetworkTypeOK
<1>2. \A i \in DOMAIN Tail(app_queue[h]) :
        i + 1 \in DOMAIN app_queue[h] /\ Tail(app_queue[h])[i] = app_queue[h][i + 1]
  BY <1>1
<1>3. \A n \in Names : buffer'[n] \in Homes[PeerOf[n]] \cup {NoAddr, Absent} \cup Names
  <2>1. Head(app_queue[h]).text \in Homes[PeerOf[h]] \cup {NoAddr} \cup Names
    BY HeadOfQueue
  <2>2. QED
    BY <2>1 DEF CrossTalkInv, PeerNotices, TypeOK, MobileNodeTypeOK
<1>4. QED
  BY <1>1, <1>2, <1>3 DEF CrossTalkInv, PeerNotices

LEMMA DaemonCrossTalk ==
  ASSUME TypeOK, CrossTalkInv, NEW h \in Names, DaemonThread(h)
  PROVE  CrossTalkInv'
<1>1. UNCHANGED <<registered_names_, subscriptions_>>
  BY DEF DaemonThread, serverVars, tableVars
<1>2. ASSUME NEW waiting, SendRegistration(h, waiting)
      PROVE  CrossTalkInv'
  <2> DEFINE m == [name |-> h, from |-> loc[h], inc |-> incarnation[h]]
  <2>1. loc[h] # Offline => m.from \in Homes[m.name]
    BY DEF CrossTalkInv, HomeAddresses
  <2>2. \A d \in to_regist' : d.from \in Homes[d.name]
    BY <1>2, <2>1 DEF SendRegistration, Sent, CrossTalkInv, HomeAddresses
  <2>3. QED
    BY <1>1, <1>2, <2>2 DEF SendRegistration, CrossTalkInv, HomeAddresses,
       PeerSubscriptions, PeerNotices, NoCrossTalk, pollVars
<1>3. CASE FirstRegistration(h) \/ WakeMoved(h)
  BY <1>2, <1>3 DEF FirstRegistration, WakeMoved
<1>4. CASE RegistrationAcked(h)
  BY <1>1, <1>4, CrossTalkQuiet DEF RegistrationAcked, pollVars
<1>5. CASE \/ WakeUnmoved(h) \/ RegistrationFails(h) \/ PollNothing(h) \/ PollError(h)
           \/ PeekUpdate(h) \/ CopyMessages(h) \/ Resend(h) \/ Resent(h) \/ NoteAddress(h)
  <2>1. UNCHANGED <<loc, app_sockets_, app_queue, to_regist, to_lookup, to_app, buffer>>
    BY <1>5 DEF WakeUnmoved, RegistrationFails, PollNothing, PollError, PeekUpdate,
       CopyMessages, Resend, Resent, NoteAddress, DaemonGoto, pollVars
  <2>2. QED
    BY <1>1, <2>1, CrossTalkQuiet
<1>6. CASE TakeUpdate(h)
  <2>1. /\ app_queue[h] # <<>>
        /\ app_queue' = [app_queue EXCEPT ![h] = Tail(@)]
        /\ buffer' = [buffer EXCEPT ![h] = Head(app_queue[h]).text]
        /\ UNCHANGED <<loc, to_regist, to_lookup, to_app, app_sockets_>>
    BY <1>6 DEF TakeUpdate, DaemonGoto
  <2>2. HomeAddresses' /\ PeerSubscriptions' /\ NoCrossTalk'
    BY <1>1, <2>1 DEF CrossTalkInv, HomeAddresses, PeerSubscriptions, NoCrossTalk
  <2>3. QED
    BY <2>1, <2>2, TailOfQueue DEF CrossTalkInv
<1>7. CASE WriteAddress(h)
  <2>1. /\ app_sockets_' = [app_sockets_ EXCEPT ![h] = IPStringToInt(buffer[h])]
        /\ buffer' = [buffer EXCEPT ![h] = Absent]
        /\ UNCHANGED <<loc, to_regist, to_lookup, to_app, app_queue>>
    BY <1>7 DEF WriteAddress, DaemonGoto
  <2>2. IPStringToInt(buffer[h]) \in Homes[PeerOf[h]] \cup {NoAddr}
    BY ReadAsAddress DEF CrossTalkInv, PeerNotices
  <2>3. NoCrossTalk'
    BY <2>1, <2>2 DEF CrossTalkInv, NoCrossTalk, TypeOK, MobileNodeTypeOK
  <2>4. PeerNotices'
    BY <2>1 DEF CrossTalkInv, PeerNotices, TypeOK, MobileNodeTypeOK
  <2>5. HomeAddresses' /\ PeerSubscriptions'
    BY <1>1, <2>1 DEF CrossTalkInv, HomeAddresses, PeerSubscriptions
  <2>6. QED
    BY <2>3, <2>4, <2>5 DEF CrossTalkInv
<1>8. QED
  BY <1>3, <1>4, <1>5, <1>6, <1>7 DEF DaemonThread, Daemon, PollSubscriptions

LEMMA ProcessEndsCrossTalk ==
  ASSUME TypeOK, CrossTalkInv, NEW h \in Names, ProcessEnds(h), UNCHANGED serverVars
  PROVE  CrossTalkInv'
<1>1. /\ app_queue' = [app_queue EXCEPT ![h] = <<>>]
      /\ UNCHANGED <<loc, registered_names_, subscriptions_, app_sockets_, to_regist,
                     to_lookup, to_app, buffer>>
  BY DEF ProcessEnds, flightVars, serverVars, tableVars, pollVars
<1>2. QED
  BY <1>1 DEF CrossTalkInv, HomeAddresses, PeerSubscriptions, PeerNotices,
     NoCrossTalk, TypeOK, NetworkTypeOK

LEMMA AppCrossTalk ==
  ASSUME TypeOK, CrossTalkInv, NEW h \in Names, AppThread(h)
  PROVE  CrossTalkInv'
<1>1. UNCHANGED <<registered_names_, subscriptions_>>
  BY DEF AppThread, serverVars, tableVars
<1>2. CASE LookupPeer(h)
  <2> DEFINE m == [subscriber |-> h, port |-> AppPort, subscribee |-> PeerOf[h],
                   from |-> loc[h], inc |-> incarnation[h]]
  <2>1. loc[h] # Offline => m.from \in Homes[m.subscriber]
    BY DEF CrossTalkInv, HomeAddresses
  <2>2. \A d \in to_lookup' : d.from \in Homes[d.subscriber]
                              /\ d.subscribee = PeerOf[d.subscriber]
    BY <1>2, <2>1 DEF LookupPeer, Sent, CrossTalkInv, PeerSubscriptions
  <2>3. QED
    BY <1>1, <1>2, <2>2 DEF LookupPeer, CrossTalkInv, HomeAddresses,
       PeerSubscriptions, PeerNotices, NoCrossTalk, pollVars
<1>3. CASE LookupReplied(h)
  <2>1. /\ app_queue[h] # <<>>
        /\ app_queue' = [app_queue EXCEPT ![h] = Tail(@)]
        /\ \/ UNCHANGED app_sockets_
           \/ app_sockets_' = [app_sockets_ EXCEPT ![h] =
                                 IPStringToInt(Head(app_queue[h]).text)]
        /\ UNCHANGED <<loc, to_regist, to_lookup, to_app, buffer>>
    BY <1>3 DEF LookupReplied, flightVars, pollVars
  <2>2. IPStringToInt(Head(app_queue[h]).text) \in Homes[PeerOf[h]] \cup {NoAddr}
    BY <2>1, HeadOfQueue, ReadAsAddress
  <2>3. NoCrossTalk'
    BY <2>1, <2>2 DEF CrossTalkInv, NoCrossTalk, TypeOK, MobileNodeTypeOK
  <2>4. HomeAddresses' /\ PeerSubscriptions'
    BY <1>1, <2>1 DEF CrossTalkInv, HomeAddresses, PeerSubscriptions
  <2>5. QED
    BY <2>1, <2>3, <2>4, TailOfQueue DEF CrossTalkInv
<1>4. CASE \/ QueryDns(h) \/ QueryFails(h) \/ DnsReplied(h) \/ Retry(h) \/ Connected(h)
           \/ ReceiveNothing(h) \/ PeekMessage(h) \/ SendKeyword(h) \/ SkipSend(h)
           \/ NoteSent(h)
  <2>1. UNCHANGED <<loc, app_sockets_, app_queue, to_regist, to_lookup, to_app, buffer>>
    BY <1>4 DEF QueryDns, QueryFails, DnsReplied, Retry, Connected, ReceiveNothing,
       PeekMessage, SendKeyword, SkipSend, NoteSent, loopUnchanged, networkVars,
       flightVars, pollVars
  <2>2. QED
    BY <1>1, <2>1, CrossTalkQuiet
<1>5. CASE ReceiveOwn(h) \/ ReceiveAndEcho(h)
  <2>1. /\ app_queue[h] # <<>>
        /\ app_queue' = [app_queue EXCEPT ![h] = Tail(@)]
        /\ UNCHANGED <<loc, app_sockets_, to_regist, to_lookup, to_app, buffer>>
    BY <1>5 DEF ReceiveOwn, ReceiveAndEcho, TakeMessage, loopUnchanged, pollVars
  <2>2. HomeAddresses' /\ PeerSubscriptions' /\ NoCrossTalk'
    BY <1>1, <2>1 DEF CrossTalkInv, HomeAddresses, PeerSubscriptions, NoCrossTalk
  <2>3. QED
    BY <2>1, <2>2, TailOfQueue DEF CrossTalkInv
<1>6. CASE GiveUp(h) \/ BindFails(h) \/ ReceiveError(h)
  BY <1>6, ProcessEndsCrossTalk DEF GiveUp, BindFails, ReceiveError, AppThread
<1>7. QED
  BY <1>2, <1>3, <1>4, <1>5, <1>6 DEF AppThread, RegisterPeer, App

\* A lookup is answered at the address it came from, which is one of its
\* subscriber's, and with an address of the subscriber's peer.
LEMMA LookupCrossTalk ==
  ASSUME TypeOK, CrossTalkInv, DisjointHomes, NEW m \in to_lookup, HandleLookup(m),
         UNCHANGED nodeVars
  PROVE  CrossTalkInv'
<1> DEFINE reply == [to |-> m.from, port |-> m.port,
                     text |-> LookupResult(m.subscribee), seq |-> handled]
<1>1. /\ m.subscriber \in Names /\ m.port \in Ports
      /\ m.from \in Homes[m.subscriber]
      /\ m.subscribee = PeerOf[m.subscriber] /\ m.subscribee \in Names
  BY DEF TypeOK, NetworkTypeOK, Lookup, CrossTalkInv, PeerSubscriptions
<1>2. /\ to_app' = to_app \cup {reply}
      /\ to_lookup' \subseteq to_lookup
      /\ UNCHANGED <<loc, registered_names_, to_regist, app_queue, app_sockets_,
                     buffer>>
  BY DEF HandleLookup, Noted, ChangeSubscription, nodeVars, pollVars
<1>3. LookupResult(m.subscribee) \in Homes[PeerOf[m.subscriber]] \cup {NoAddr}
  BY <1>1 DEF LookupResult, Known, CrossTalkInv, HomeAddresses
<1>4. \A h \in Names : reply.to \in Homes[h] => h = m.subscriber
  BY <1>1 DEF DisjointHomes
<1>5. PeerNotices'
  BY <1>2, <1>3, <1>4 DEF CrossTalkInv, PeerNotices
<1>6. PeerSubscriptions'
  <2>1. \A n \in Names : \A s \in subscriptions_'[n] :
          \/ s \in subscriptions_[n]
          \/ n = m.subscribee /\ s = <<m.subscriber, m.port>>
    BY <1>1 DEF HandleLookup, ChangeSubscription, Toggle, TypeOK, TablesTypeOK
  <2>2. QED
    BY <1>1, <1>2, <2>1 DEF CrossTalkInv, PeerSubscriptions
<1>7. HomeAddresses' /\ NoCrossTalk'
  BY <1>2 DEF CrossTalkInv, HomeAddresses, NoCrossTalk
<1>8. QED
  BY <1>5, <1>6, <1>7 DEF CrossTalkInv

\* Who is sent an update: a subscriber of the name, at an address of his own.
LEMMA UpdatesGoHome ==
  ASSUME TypeOK, CrossTalkInv, NEW m \in to_regist, NEW s \in subscriptions_[m.name],
         NamesAfterUpdate(m.name, m.from)[s[1]] # NoAddr
  PROVE  /\ s[1] \in Names /\ s[2] \in Ports /\ s = <<s[1], s[2]>>
         /\ PeerOf[s[1]] = m.name
         /\ NamesAfterUpdate(m.name, m.from)[s[1]] \in Homes[s[1]]
<1>1. m.name \in Names /\ m.from \in Homes[m.name]
  BY DEF TypeOK, NetworkTypeOK, Registration, CrossTalkInv, HomeAddresses
<1>2. \A n \in Names :
        NamesAfterUpdate(m.name, m.from)[n] \in Homes[n] \cup {Absent, NoAddr}
  BY <1>1 DEF NamesAfterUpdate, CrossTalkInv, HomeAddresses
<1>3. s[1] \in Names /\ s[2] \in Ports /\ s = <<s[1], s[2]>>
  BY <1>1 DEF TypeOK, TablesTypeOK, Subscriber
<1>4. NamesAfterUpdate(m.name, m.from)[s[1]] # Absent
  BY <1>1, <1>3, HomesType, TypesAssumption DEF NamesAfterUpdate, Known
<1>5. QED
  BY <1>1, <1>2, <1>3, <1>4 DEF CrossTalkInv, PeerSubscriptions

\* An update goes to the addresses of those who subscribed to the node that
\* moved, and they have it for their peer.
LEMMA RegistrationCrossTalk ==
  ASSUME TypeOK, CrossTalkInv, DisjointHomes, NEW m \in to_regist,
         HandleRegistration(m), UNCHANGED nodeVars
  PROVE  CrossTalkInv'
<1>1. m.name \in Names /\ m.from \in Homes[m.name]
  BY DEF TypeOK, NetworkTypeOK, Registration, CrossTalkInv, HomeAddresses
<1>2. /\ to_app' = to_app \cup Noted({u \in Updates(m.name, m.from) : u.to # NoAddr})
      /\ to_regist' \subseteq to_regist
      /\ registered_names_' = NamesAfterUpdate(m.name, m.from)
      /\ UNCHANGED <<loc, subscriptions_, to_lookup, app_queue, app_sockets_, buffer>>
  BY DEF HandleRegistration, UpdateAddress, nodeVars, pollVars
<1>3. \A n \in Names :
        NamesAfterUpdate(m.name, m.from)[n] \in Homes[n] \cup {Absent, NoAddr}
  BY <1>1 DEF NamesAfterUpdate, CrossTalkInv, HomeAddresses
<1>5. ASSUME NEW d \in Noted({u \in Updates(m.name, m.from) : u.to # NoAddr}),
             NEW h \in Names, d.to \in Homes[h]
      PROVE  d.text \in Homes[PeerOf[h]]
  <2>1. PICK s \in subscriptions_[m.name] :
          /\ d.to = NamesAfterUpdate(m.name, m.from)[s[1]]
          /\ d.text = m.from /\ d.to # NoAddr
    BY DEF Noted, Updates
  <2>2. s[1] = h
    BY <1>5, <2>1, UpdatesGoHome DEF DisjointHomes
  <2>3. QED
    BY <1>1, <2>1, <2>2, UpdatesGoHome
<1>6. PeerNotices'
  BY <1>2, <1>5 DEF CrossTalkInv, PeerNotices
<1>7. HomeAddresses' /\ PeerSubscriptions' /\ NoCrossTalk'
  BY <1>2, <1>3 DEF CrossTalkInv, HomeAddresses, PeerSubscriptions, NoCrossTalk
<1>8. QED
  BY <1>6, <1>7 DEF CrossTalkInv

LEMMA CrashCrossTalk ==
  ASSUME TypeOK, CrossTalkInv, ServerCrash
  PROVE  CrossTalkInv'
<1>1. /\ to_regist' \subseteq to_regist /\ to_lookup' \subseteq to_lookup
      /\ registered_names_' = [n \in Names |-> Absent]
      /\ subscriptions_' = [n \in Names |-> {}]
      /\ UNCHANGED <<loc, to_app, app_queue, app_sockets_, buffer>>
  BY DEF ServerCrash, ServerRestarts, nodeVars, pollVars
<1>2. QED
  BY <1>1 DEF CrossTalkInv, HomeAddresses, PeerSubscriptions, PeerNotices, NoCrossTalk

LEMMA DeliveryCrossTalk ==
  ASSUME TypeOK, CrossTalkInv, NEW h \in Names, Delivery(h)
  PROVE  CrossTalkInv'
<1>1. UNCHANGED <<loc, registered_names_, subscriptions_, app_sockets_, to_regist,
                  to_lookup, buffer>>
  BY DEF Delivery, DeliverNotice, DeliverPeer, serverVars, tableVars, nodeVars, pollVars
<1>2. HomeAddresses' /\ PeerSubscriptions' /\ NoCrossTalk'
  BY <1>1 DEF CrossTalkInv, HomeAddresses, PeerSubscriptions, NoCrossTalk
<1>3. ASSUME NEW d, app_queue' = [app_queue EXCEPT ![h] = Append(@, d)],
             d.from = RendezvousServer => d.text \in Homes[PeerOf[h]] \cup {NoAddr},
             to_app' \subseteq to_app
      PROVE  PeerNotices'
  <2>1. app_queue \in [Names -> Seq(Received)] /\ app_queue[h] \in Seq(Received)
    BY DEF TypeOK, NetworkTypeOK
  <2>2. \A i \in DOMAIN Append(app_queue[h], d) :
          \/ i \in DOMAIN app_queue[h] /\ Append(app_queue[h], d)[i] = app_queue[h][i]
          \/ Append(app_queue[h], d)[i] = d
    BY <2>1
  <2>3. QED
    BY <1>1, <1>3, <2>1, <2>2 DEF CrossTalkInv, PeerNotices
<1>4. CASE DeliverNotice(h, AppPort)
  <2>1. PICK d \in to_app :
          /\ d.to = loc[h]
          /\ to_app' = to_app \ {d}
          /\ app_queue' = [app_queue EXCEPT ![h] =
                             Append(@, [from |-> RendezvousServer, text |-> d.text])]
    BY <1>4 DEF DeliverNotice
  <2>2. loc[h] \in Homes[h]
    BY <2>1, NetworkAssumption DEF CrossTalkInv, HomeAddresses, TypeOK, NetworkTypeOK,
       Notice
  <2>3. d.text \in Homes[PeerOf[h]] \cup {NoAddr}
    BY <2>1, <2>2 DEF CrossTalkInv, PeerNotices
  <2>4. PeerNotices'
    BY <1>3, <2>1, <2>3
  <2>5. QED
    BY <1>2, <2>4 DEF CrossTalkInv
<1>5. CASE DeliverPeer(h)
  <2>1. PICK d \in BagToSet(to_peer) :
          /\ UNCHANGED to_app
          /\ app_queue' = [app_queue EXCEPT ![h] =
                             Append(@, [from |-> d.from, text |-> d.text])]
    BY <1>5 DEF DeliverPeer
  <2>2. d.from # RendezvousServer
    BY NetworkAssumption DEF TypeOK, NetworkTypeOK, PeerMessage
  <2>3. PeerNotices'
    BY <1>3, <2>1, <2>2
  <2>4. QED
    BY <1>2, <2>3 DEF CrossTalkInv
<1>6. QED
  BY <1>4, <1>5 DEF Delivery

LEMMA MachineCrossTalk ==
  ASSUME TypeOK, CrossTalkInv, NEW h \in Names,
         MachineMoves(h) \/ MachineDisconnects(h)
  PROVE  CrossTalkInv'
<1>1. UNCHANGED <<registered_names_, subscriptions_, app_sockets_, to_regist,
                  to_lookup, to_app, app_queue, buffer>>
  BY DEF MachineMoves, MachineDisconnects, Move, Disconnect, serverVars, tableVars,
     nodeVars, pollVars, flightVars
<1>2. \A n \in Names : loc'[n] \in Homes[n] \cup {Offline}
  BY DEF MachineMoves, MachineDisconnects, Move, Disconnect, CrossTalkInv,
     HomeAddresses, TypeOK, NetworkTypeOK
<1>3. QED
  BY <1>1, <1>2 DEF CrossTalkInv, HomeAddresses, PeerSubscriptions, PeerNotices,
     NoCrossTalk

LEMMA RestartCrossTalk ==
  ASSUME TypeOK, CrossTalkInv, NEW h \in Names, Restart(h)
  PROVE  CrossTalkInv'
<1>1. /\ UNCHANGED <<registered_names_, subscriptions_, to_regist, to_lookup, to_app,
                     loc>>
      /\ app_queue' = [app_queue EXCEPT ![h] = <<>>]
      /\ app_sockets_' = [app_sockets_ EXCEPT ![h] = Absent]
      /\ buffer' = [buffer EXCEPT ![h] = Absent]
  BY DEF Restart, serverVars, tableVars, flightVars
<1>2. QED
  BY <1>1 DEF CrossTalkInv, HomeAddresses, PeerSubscriptions, PeerNotices, NoCrossTalk,
     TypeOK, NetworkTypeOK, MobileNodeTypeOK

LEMMA NextCrossTalk ==
  ASSUME TypeOK, CrossTalkInv, DisjointHomes, [RestartNext]_vars
  PROVE  CrossTalkInv'
<1>1. CASE Server
  <2>1. UNCHANGED nodeVars
    BY <1>1 DEF Server
  <2>2. QED
    BY <1>1, <2>1, LookupCrossTalk, RegistrationCrossTalk DEF Server, HandleRequests
<1>2. CASE DNS
  <2>1. UNCHANGED <<loc, registered_names_, subscriptions_, app_sockets_, app_queue,
                    to_regist, to_lookup, to_app, buffer>>
    BY <1>2 DEF DNS, HandleQuery, serverVars, tableVars, nodeVars, pollVars
  <2>2. QED
    BY <2>1, CrossTalkQuiet
<1>3. CASE Loss
  <2>1. UNCHANGED <<loc, registered_names_, subscriptions_, app_sockets_, app_queue, buffer>>
    BY <1>3 DEF Loss, LoseRequest, LoseReply, LoseNotice, LosePeer, serverVars,
       tableVars, nodeVars, pollVars
  <2>2. /\ to_regist' \subseteq to_regist
        /\ to_lookup' \subseteq to_lookup
        /\ to_app' \subseteq to_app
    BY <1>3 DEF Loss, LoseRequest, LoseReply, LoseNotice, LosePeer
  <2>3. QED
    BY <2>1, <2>2, CrossTalkQuiet
<1>4. CASE UNCHANGED vars
  BY <1>4, CrossTalkQuiet DEF vars, serverVars, tableVars, networkVars, flightVars,
     nodeVars, pollVars
<1>5. ASSUME NEW h \in Names, Interrupt(h)
      PROVE  CrossTalkInv'
  BY <1>5, ProcessEndsCrossTalk DEF Interrupt, Interrupted
<1>6. QED
  BY <1>1, <1>2, <1>3, <1>4, <1>5, DaemonCrossTalk, AppCrossTalk, CrashCrossTalk,
     DeliveryCrossTalk, MachineCrossTalk, RestartCrossTalk DEF RestartNext, Next

LEMMA InitCrossTalk ==
  ASSUME Init
  PROVE  CrossTalkInv
  BY DEF Init, ServerInit, TablesInit, NetworkInit, MobileNodeInit, CrossTalkInv,
     HomeAddresses, PeerSubscriptions, PeerNotices, NoCrossTalk

\* If no two machines can have the same address, then whatever moves, is lost,
\* overtaken or restarted, no application ever sends to a machine other than
\* its peer: the updates of PollSubscriptions, which carry no name, and stray
\* datagrams in RegisterPeer never give it a third machine's address.
THEOREM UpdatesNeverCross ==
  ASSUME DisjointHomes
  PROVE  RestartSpec => []NoCrossTalk
<1>1. Init => CrossTalkInv
  BY InitCrossTalk
<1>2. TypeOK /\ CrossTalkInv /\ [RestartNext]_vars => CrossTalkInv'
  BY NextCrossTalk
<1>3. CrossTalkInv => NoCrossTalk
  BY DEF CrossTalkInv
<1>4. QED
  BY <1>1, <1>2, <1>3, TypeCorrect, PTL DEF RestartSpec

===============================================================================
