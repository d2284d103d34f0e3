--------------------------- MODULE PermanentIPProofs ---------------------------
(***************************************************************************)
(* Theorems of PermanentIP, for any number of nodes, any addresses, any    *)
(* rule of movement, with and without loss, reordering and restarts except *)
(* where a theorem says so.                                                *)
(***************************************************************************)
EXTENDS PermanentIP, TLAPS

-------------------------------------------------------------------------------
(* Lemmas about the operators the model is built from. *)

\* One more copy of d.
LEMMA BagAdd ==
  ASSUME NEW B, IsABag(B), NEW d
  PROVE  LET C == B (+) SetToBag({d})
         IN  /\ IsABag(C)
             /\ BagToSet(C) = BagToSet(B) \cup {d}
             /\ C[d] = IF d \in BagToSet(B) THEN B[d] + 1 ELSE 1
             /\ \A e \in BagToSet(B) \ {d} : C[e] = B[e]
<1> DEFINE C == B (+) SetToBag({d})
<1>1. B \in [DOMAIN B -> {n \in Nat : n > 0}]
  BY DEF IsABag
<1>2. C = [e \in DOMAIN B \cup {d} |->
             (IF e \in DOMAIN B THEN B[e] ELSE 0) + (IF e \in {d} THEN 1 ELSE 0)]
  BY DEF (+), SetToBag
<1> HIDE DEF C
<1>3. QED
  BY <1>1, <1>2 DEF IsABag, BagToSet, C

\* One copy of d less.
LEMMA BagRemove ==
  ASSUME NEW B, IsABag(B), NEW d \in BagToSet(B)
  PROVE  LET C == B (-) SetToBag({d})
         IN  /\ IsABag(C)
             /\ BagToSet(C) = IF B[d] = 1 THEN BagToSet(B) \ {d} ELSE BagToSet(B)
             /\ d \in BagToSet(C) => C[d] = B[d] - 1
             /\ \A e \in BagToSet(B) \ {d} : C[e] = B[e]
<1> DEFINE C == B (-) SetToBag({d})
           D == [e \in DOMAIN B |-> IF e \in {d} THEN B[e] - 1 ELSE B[e]]
<1>1. B \in [DOMAIN B -> {n \in Nat : n > 0}] /\ d \in DOMAIN B
  BY DEF IsABag, BagToSet
<1>2. D \in [DOMAIN B -> Nat]
  BY <1>1
<1>3. C = [e \in {f \in DOMAIN D : D[f] > 0} |-> D[e]]
  BY DEF (-), SetToBag
<1>4. C = [e \in {f \in DOMAIN B : D[f] > 0} |-> D[e]]
  BY <1>3
<1>5. {f \in DOMAIN B : D[f] > 0} = IF B[d] = 1 THEN DOMAIN B \ {d} ELSE DOMAIN B
  BY <1>1
<1>6. \A e \in DOMAIN B : D[e] = IF e = d THEN B[d] - 1 ELSE B[e]
  OBVIOUS
<1> HIDE DEF C, D
<1>7. QED
  BY <1>1, <1>2, <1>4, <1>5, <1>6 DEF IsABag, BagToSet, C

LEMMA NoBag == IsABag(EmptyBag) /\ BagToSet(EmptyBag) = {}
  BY DEF IsABag, BagToSet, EmptyBag, SetToBag

\* What GetCurrentIPAddress returns.
LEMMA CurrentAddressType ==
  ASSUME NEW h \in Names
  PROVE  GetCurrentIPAddress(h) \in Addresses \cup {Absent}
  BY NetworkAssumption DEF GetCurrentIPAddress

LEMMA PeerOfType ==
  ASSUME NEW h \in Names
  PROVE  PeerOf[h] \in Names
  BY MobileNodeAssumption

LEMMA IPStringToIntType ==
  ASSUME NEW text
  PROVE  IPStringToInt(text) \in Addresses \cup {NoAddr}
  BY DEF IPStringToInt

\* The datagram an application socket sends.
LEMMA SentToPeerType ==
  ASSUME TypeOK, NEW h \in Names, NEW to \in Addresses \cup {NoAddr}, NEW text \in Names
  PROVE  /\ IsABag(SentToPeer(h, to, text))
         /\ BagToSet(SentToPeer(h, to, text)) \subseteq PeerMessage
<1>1. IsABag(to_peer) /\ BagToSet(to_peer) \subseteq PeerMessage
  BY DEF TypeOK, NetworkTypeOK
<1>2. CASE loc[h] = Offline /\ to # NoAddr
  BY <1>1, <1>2 DEF SentToPeer
<1>3. CASE ~(loc[h] = Offline /\ to # NoAddr)
  <2>1. PeerDatagram(h, to, text) \in PeerMessage
    BY <1>3, TypesAssumption DEF PeerDatagram, PeerMessage, TypeOK, NetworkTypeOK
  <2>2. PICK d : d \in PeerMessage /\ SentToPeer(h, to, text) = to_peer (+) SetToBag({d})
    BY <1>3, <2>1 DEF SentToPeer
  <2>3. /\ IsABag(to_peer (+) SetToBag({d}))
        /\ BagToSet(to_peer (+) SetToBag({d})) = BagToSet(to_peer) \cup {d}
    BY <1>1, BagAdd
  <2>4. QED
    BY <1>1, <2>2, <2>3
<1>4. QED
  BY <1>2, <1>3

\* What a lookup answers, and what UpdateAddress sends and leaves behind.
LEMMA TablesOperators ==
  ASSUME TypeOK, NEW n \in Names, NEW address \in Addresses
  PROVE  /\ LookupResult(n) \in Addresses \cup {NoAddr}
         /\ NamesAfterUpdate(n, address) \in [Names -> Addresses \cup {Absent, NoAddr}]
         /\ Updates(n, address) \subseteq
              [to : Addresses \cup {NoAddr}, port : Ports,
               text : Addresses \cup {NoAddr}]
<1>1. LookupResult(n) \in Addresses \cup {NoAddr}
  BY DEF LookupResult, Known, TypeOK, TablesTypeOK
<1>2. NamesAfterUpdate(n, address) \in [Names -> Addresses \cup {Absent, NoAddr}]
  BY DEF NamesAfterUpdate, TypeOK, TablesTypeOK
<1>3. ASSUME NEW s \in subscriptions_[n]
      PROVE  /\ NamesAfterUpdate(n, address)[s[1]] \in Addresses \cup {NoAddr}
             /\ s[2] \in Ports
  <2>1. s[1] \in Names /\ s[2] \in Ports /\ s = <<s[1], s[2]>>
    BY DEF TypeOK, TablesTypeOK, Subscriber
  <2>2. QED
    BY <2>1 DEF NamesAfterUpdate, Known, TypeOK, TablesTypeOK
<1>4. QED
  BY <1>1, <1>2, <1>3 DEF Updates

-------------------------------------------------------------------------------
(* Every step preserves the types. *)

LEMMA DaemonType ==
  ASSUME TypeOK, NEW h \in Names, DaemonThread(h)
  PROVE  TypeOK'
<1> USE DEF TypeOK, NetworkTypeOK, MobileNodeTypeOK, serverVars, tableVars,
            networkVars, flightVars, appVars, pollVars, TablesTypeOK, EchoAppTypeOK,
            DaemonState, LoopState, PollingState, DaemonGoto
<1> GetCurrentIPAddress(h) \in Addresses \cup {Absent}
  BY CurrentAddressType
<1>1. ASSUME NEW waiting \in {"registering", "updating"}, SendRegistration(h, waiting)
      PROVE  TypeOK'
  BY <1>1 DEF DaemonThread, SendRegistration, Sent, Registration
<1>2. CASE FirstRegistration(h)
  BY <1>1, <1>2 DEF FirstRegistration
<1>3. CASE RegistrationAcked(h)
  BY <1>3 DEF DaemonThread, RegistrationAcked
<1>4. CASE WakeMoved(h)
  BY <1>1, <1>4 DEF WakeMoved
<1>5. CASE WakeUnmoved(h)
  BY <1>5 DEF DaemonThread, WakeUnmoved
<1>6. CASE RegistrationFails(h) \/ PollNothing(h) \/ PeekUpdate(h) \/ Resent(h) \/ PollError(h)
  BY <1>6 DEF DaemonThread, RegistrationFails, PollNothing, PeekUpdate, Resent, PollError
<1>7. CASE TakeUpdate(h)
  <2>1. app_queue[h] \in Seq(Received) /\ app_queue[h] # <<>>
    BY <1>7 DEF TakeUpdate
  <2>2. Head(app_queue[h]).text \in Addresses \cup Names \cup {NoAddr}
    BY <2>1 DEF Received
  <2>3. buffer' \in [Names -> Addresses \cup Names \cup {Absent, NoAddr}]
    BY <1>7, <2>2 DEF TakeUpdate
  <2>4. app_queue' \in [Names -> Seq(Received)]
    BY <1>7, <2>1 DEF TakeUpdate
  <2>5. QED
    BY <1>7, <2>3, <2>4 DEF DaemonThread, TakeUpdate
<1>8. CASE WriteAddress(h)
  <2>1. IPStringToInt(buffer[h]) \in Addresses \cup {NoAddr}
    BY IPStringToIntType
  <2>2. app_sockets_' \in [Names -> Addresses \cup {Absent, NoAddr}]
    BY <1>8, <2>1 DEF WriteAddress
  <2>3. \A n \in Names :
          app_thread'[n] \in ConnectedState \/ daemon'[n] \in {"copying", "resending"}
            => app_sockets_'[n] # Absent
    BY <1>8, <2>1, TypesAssumption DEF WriteAddress
  <2>4. buffer' \in [Names -> Addresses \cup Names \cup {Absent, NoAddr}]
    BY <1>8 DEF WriteAddress
  <2>5. QED
    BY <1>8, <2>2, <2>3, <2>4 DEF DaemonThread, WriteAddress
<1>9. CASE CopyMessages(h)
  BY <1>9 DEF DaemonThread, CopyMessages
<1>10. CASE Resend(h)
  <2>1. PICK text \in unsent[h] :
          /\ to_peer' = SentToPeer(h, app_sockets_[h], text)
          /\ unsent' = [unsent EXCEPT ![h] = @ \ {text}]
          /\ resent' = [resent EXCEPT ![text] = @ + 1]
    BY <1>10 DEF Resend
  <2>2. text \in Names
    OBVIOUS
  <2>3. app_sockets_[h] \in Addresses \cup {NoAddr}
    BY <1>10 DEF Resend
  <2>4. IsABag(to_peer') /\ BagToSet(to_peer') \subseteq PeerMessage
    BY <2>1, <2>2, <2>3, SentToPeerType
  <2>5. unsent' \in [Names -> SUBSET Names] /\ resent' \in [Names -> Nat]
    BY <2>1, <2>2
  <2>6. QED
    BY <1>10, <2>4, <2>5 DEF DaemonThread, Resend
<1>11. CASE NoteAddress(h)
  BY <1>11 DEF DaemonThread, NoteAddress
<1>12. QED
  BY <1>2, <1>3, <1>4, <1>5, <1>6, <1>7, <1>8, <1>9, <1>10, <1>11
     DEF DaemonThread, Daemon, PollSubscriptions

LEMMA RegisterPeerType ==
  ASSUME TypeOK, NEW h \in Names, RegisterPeer(h), UNCHANGED <<serverVars, appVars>>
  PROVE  TypeOK'
<1> USE DEF TypeOK, NetworkTypeOK, MobileNodeTypeOK, serverVars, tableVars,
            networkVars, flightVars, appVars, pollVars, TablesTypeOK, EchoAppTypeOK,
            AppGoto, AppState, RegisterPeerState, ConnectedState
<1>1. CASE QueryDns(h)
  <2> DEFINE q == [name |-> PeerOf[h], by |-> h, from |-> loc[h],
                   inc |-> incarnation[h]]
  <2>a. loc[h] # Offline => q \in Query
    BY PeerOfType DEF Query
  <2>1. to_dns' \subseteq Query
    BY <1>1, <2>a DEF QueryDns, Sent
  <2>2. app_thread' \in [Names -> AppState]
    BY <1>1 DEF QueryDns
  <2>3. QED
    BY <1>1, <2>1, <2>2 DEF QueryDns
<1>2. CASE DnsReplied(h) \/ QueryFails(h)
  BY <1>2 DEF DnsReplied, QueryFails
<1>3. CASE LookupPeer(h)
  <2> DEFINE m == [subscriber |-> h, port |-> AppPort, subscribee |-> PeerOf[h],
                   from |-> loc[h], inc |-> incarnation[h]]
  <2>a. loc[h] # Offline => m \in Lookup
    BY PeerOfType, MobileNodeAssumption DEF Lookup
  <2>1. to_lookup' \subseteq Lookup
    BY <1>3, <2>a DEF LookupPeer, Sent
  <2>2. app_thread' \in [Names -> AppState]
    BY <1>3 DEF LookupPeer
  <2>3. QED
    BY <1>3, <2>1, <2>2 DEF LookupPeer
<1>4. CASE LookupReplied(h)
  <2>1. app_queue' \in [Names -> Seq(Received)]
    BY <1>4 DEF LookupReplied
  <2> DEFINE peer_loc == Head(app_queue[h]).text
  <2>a. \/ AppGoto(h, "null") /\ UNCHANGED app_sockets_
        \/ /\ AppGoto(h, "found")
           /\ app_sockets_' = [app_sockets_ EXCEPT ![h] = IPStringToInt(peer_loc)]
    BY <1>4 DEF LookupReplied
  <2>b. IPStringToInt(peer_loc) \in Addresses \cup {NoAddr}
    BY IPStringToIntType
  <2>2. app_sockets_' \in [Names -> Addresses \cup {Absent, NoAddr}]
    BY <2>a, <2>b
  <2>3. app_thread' \in [Names -> AppState]
    BY <2>a
  <2>4. \A n \in Names :
          app_thread'[n] \in ConnectedState \/ daemon'[n] \in {"copying", "resending"}
            => app_sockets_'[n] # Absent
    BY <1>4, <2>a, <2>b, TypesAssumption DEF LookupReplied
  <2>5. \A n \in Names : app_thread'[n] \in {"echoed", "sent"} => sending'[n] # Absent
    BY <1>4, <2>a DEF LookupReplied
  <2>6. QED
    BY <1>4, <2>1, <2>2, <2>3, <2>4, <2>5 DEF LookupReplied
<1>5. QED
  BY <1>1, <1>2, <1>3, <1>4 DEF RegisterPeer

LEMMA ProcessEndsType ==
  ASSUME TypeOK, NEW h \in Names, ProcessEnds(h), UNCHANGED serverVars
  PROVE  TypeOK'
  BY DEF TypeOK, NetworkTypeOK, MobileNodeTypeOK, serverVars, tableVars, flightVars,
     appVars, pollVars, TablesTypeOK, EchoAppTypeOK, AppGoto, AppState,
     RegisterPeerState, ConnectedState, ProcessEnds, DaemonState

LEMMA AppType ==
  ASSUME TypeOK, PeekInv, NEW h \in Names, App(h), UNCHANGED serverVars
  PROVE  TypeOK'
<1> USE DEF TypeOK, NetworkTypeOK, MobileNodeTypeOK, serverVars, tableVars,
            networkVars, flightVars, appVars, pollVars, TablesTypeOK, EchoAppTypeOK,
            AppGoto, AppState, RegisterPeerState, ConnectedState,
            loopUnchanged
<1>1. CASE Retry(h)
  BY <1>1, EchoAppAssumption DEF Retry
<1>2. CASE GiveUp(h) \/ BindFails(h) \/ ReceiveError(h)
  BY <1>2, ProcessEndsType DEF GiveUp, BindFails, ReceiveError
<1>3. CASE Connected(h)
  BY <1>3 DEF Connected
<1>4. CASE ReceiveNothing(h) \/ PeekMessage(h)
  BY <1>4 DEF ReceiveNothing, PeekMessage
<1>5. CASE ReceiveOwn(h)
  BY <1>5 DEF ReceiveOwn, TakeMessage, MessageReceived
<1>6. CASE ReceiveAndEcho(h)
  <2> DEFINE message == Head(app_queue[h])
  <2>1. message \in Received
    BY <1>6 DEF ReceiveAndEcho, TakeMessage
  <2>2. message.from \in Addresses \cup {NoAddr} /\ message.text \in Names
    BY <1>6, <2>1 DEF ReceiveAndEcho, TakeMessage, PeekInv, PeekedIsTaken, FromServer,
       Received
  <2>a. /\ to_peer' = SentToPeer(h, message.from, message.text)
        /\ sending' = [sending EXCEPT ![h] = message.text]
        /\ AppGoto(h, "echoed")
    BY <1>6 DEF ReceiveAndEcho
  <2>3. IsABag(to_peer') /\ BagToSet(to_peer') \subseteq PeerMessage
    BY <2>a, <2>2, SentToPeerType
  <2>c. message.text # Absent
    BY <2>2, NetworkAssumption
  <2>d. \A n \in Names : app_thread'[n] \in {"echoed", "sent"} => sending'[n] # Absent
    BY <2>a, <2>c
  <2>e. /\ app_thread[h] \in ConnectedState
        /\ UNCHANGED <<app_sockets_, daemon>>
    BY <1>6 DEF ReceiveAndEcho, TakeMessage
  <2>f. \A n \in Names :
          app_thread'[n] \in ConnectedState \/ daemon'[n] \in {"copying", "resending"}
            => app_sockets_'[n] # Absent
    BY <2>a, <2>e
  <2>4. app_queue' \in [Names -> Seq(Received)]
    BY <1>6 DEF ReceiveAndEcho, TakeMessage
  <2>g. app_thread' \in [Names -> AppState] /\ sending' \in [Names -> Names \cup {Absent}]
    BY <2>2, <2>a
  <2>5. QED
    BY <1>6, <2>3, <2>4, <2>d, <2>f, <2>g DEF ReceiveAndEcho, MessageReceived
<1>7. CASE SendKeyword(h)
  <2>1. app_sockets_[h] \in Addresses \cup {NoAddr}
    BY <1>7 DEF SendKeyword
  <2>2. IsABag(to_peer') /\ BagToSet(to_peer') \subseteq PeerMessage
    BY <1>7, <2>1, SentToPeerType DEF SendKeyword
  <2>3. \A n \in Names :
          app_thread'[n] \in ConnectedState \/ daemon'[n] \in {"copying", "resending"}
            => app_sockets_'[n] # Absent
    BY <1>7 DEF SendKeyword
  <2>4. \A n \in Names : app_thread'[n] \in {"echoed", "sent"} => sending'[n] # Absent
    BY <1>7, NetworkAssumption DEF SendKeyword
  <2>5. QED
    BY <1>7, <2>2, <2>3, <2>4 DEF SendKeyword
<1>8. CASE SkipSend(h)
  BY <1>8 DEF SkipSend
<1>9. CASE NoteSent(h)
  <2>1. sending[h] \in Names
    BY <1>9 DEF NoteSent
  <2>2. QED
    BY <1>9, <2>1 DEF NoteSent, MessageSent
<1>10. QED
  BY <1>1, <1>2, <1>3, <1>4, <1>5, <1>6, <1>7, <1>8, <1>9 DEF App

LEMMA ServerType ==
  ASSUME TypeOK, Server
  PROVE  TypeOK'
<1> USE DEF TypeOK, NetworkTypeOK, MobileNodeTypeOK, nodeVars, pollVars, appVars,
            TablesTypeOK, EchoAppTypeOK
<1>1. ASSUME NEW m \in to_lookup, HandleLookup(m)
      PROVE  TypeOK'
  <2>1. m \in Lookup
    OBVIOUS
  <2>2. LookupResult(m.subscribee) \in Addresses \cup {NoAddr}
    BY <2>1 DEF LookupResult, Known, Lookup
  <2>3. to_app' \subseteq Notice
    BY <1>1, <2>1, <2>2 DEF HandleLookup, Noted, Notice, Lookup
  <2>4. <<m.subscriber, m.port>> \in Subscriber /\ m.subscribee \in Names
    BY <2>1 DEF Lookup, Subscriber
  <2>5. subscriptions_' \in [Names -> SUBSET Subscriber]
    BY <1>1, <2>4 DEF HandleLookup, ChangeSubscription, Toggle
  <2>a. /\ UNCHANGED <<registered_names_, update_sockets>>
        /\ handled' = handled + 1 /\ crashes' = crashes
    BY <1>1 DEF HandleLookup, ChangeSubscription
  <2>6. TablesTypeOK' /\ handled' \in Nat /\ crashes' \in Nat
    BY <2>5, <2>a
  <2>7. NetworkTypeOK'
    BY <1>1, <2>3 DEF HandleLookup
  <2>8. MobileNodeTypeOK' /\ EchoAppTypeOK'
    BY DEF Server
  <2>9. QED
    BY <2>6, <2>7, <2>8
<1>2. ASSUME NEW m \in to_regist, HandleRegistration(m)
      PROVE  TypeOK'
  <2>1. m.name \in Names /\ m.from \in Addresses /\ m.inc \in Nat
    BY DEF Registration
  <2>2. registered_names_' \in [Names -> Addresses \cup {Absent, NoAddr}]
    BY <1>2, <2>1, TablesOperators DEF HandleRegistration, UpdateAddress
  <2>3. Updates(m.name, m.from) \subseteq
          [to : Addresses \cup {NoAddr}, port : Ports, text : Addresses \cup {NoAddr}]
    BY <2>1, TablesOperators
  <2>4. to_app' \subseteq Notice
    BY <1>2, <2>3 DEF HandleRegistration, Noted, Notice
  <2> DEFINE ack == [host |-> m.name, thread |-> "daemon", inc |-> m.inc,
                     to |-> m.from, text |-> m.from]
  <2>a. ack \in Reply
    BY <2>1 DEF Reply
  <2>b. to_private' = to_private \cup {ack}
    BY <1>2 DEF HandleRegistration
  <2>5. to_private' \subseteq Reply
    BY <2>a, <2>b
  <2>6. update_sockets' \in 0 .. MaxSockets /\ handled' \in Nat /\ crashes' \in Nat
    BY <1>2, TablesAssumption DEF HandleRegistration, UpdateAddress, SocketLeft
  <2>7. QED
    BY <1>2, <2>2, <2>4, <2>5, <2>6 DEF HandleRegistration, UpdateAddress, Server
<1>3. QED
  BY <1>1, <1>2 DEF Server, HandleRequests

LEMMA CrashType ==
  ASSUME TypeOK, ServerCrash
  PROVE  TypeOK'
<1> USE DEF TypeOK, NetworkTypeOK, MobileNodeTypeOK, nodeVars, pollVars, appVars,
            TablesTypeOK, EchoAppTypeOK
<1>1. TablesTypeOK' /\ handled' \in Nat /\ crashes' \in Nat
  BY TablesAssumption DEF ServerCrash, ServerRestarts
<1>2. NetworkTypeOK'
  BY DEF ServerCrash, ServerRestarts
<1>3. MobileNodeTypeOK' /\ EchoAppTypeOK'
  BY DEF ServerCrash
<1>4. QED
  BY <1>1, <1>2, <1>3

LEMMA DNSType ==
  ASSUME TypeOK, DNS
  PROVE  TypeOK'
<1> USE DEF TypeOK, NetworkTypeOK, MobileNodeTypeOK, nodeVars, pollVars, appVars,
            serverVars, tableVars, TablesTypeOK, EchoAppTypeOK
<1>1. PICK q \in to_dns :
        /\ to_dns' = to_dns \ {q}
        /\ to_private' = to_private \cup {[host |-> q.by, thread |-> "app",
                                           inc |-> q.inc, to |-> q.from,
                                           text |-> LookupName(q.name)]}
        /\ UNCHANGED <<loc, moves, incarnation, to_regist, to_lookup, to_app,
                       to_peer, app_queue>>
  BY DEF DNS, HandleQuery
<1>2. to_private' \subseteq Reply
  BY <1>1 DEF Query, Reply, LookupName
<1>3. QED
  BY <1>1, <1>2 DEF DNS

LEMMA DeliveryType ==
  ASSUME TypeOK, NEW h \in Names, Delivery(h)
  PROVE  TypeOK'
<1> USE DEF TypeOK, NetworkTypeOK, MobileNodeTypeOK, nodeVars, pollVars, appVars,
            serverVars, tableVars, TablesTypeOK, EchoAppTypeOK
<1>1. CASE DeliverNotice(h, AppPort)
  <2>1. app_queue' \in [Names -> Seq(Received)] /\ to_app' \subseteq Notice
    BY <1>1 DEF DeliverNotice, Notice, Received
  <2>2. QED
    BY <1>1, <2>1 DEF Delivery, DeliverNotice
<1>2. CASE DeliverPeer(h)
  <2>a. PICK d \in BagToSet(to_peer) : to_peer' = to_peer (-) SetToBag({d})
    BY <1>2 DEF DeliverPeer
  <2>b. /\ IsABag(to_peer (-) SetToBag({d}))
        /\ BagToSet(to_peer (-) SetToBag({d})) \subseteq BagToSet(to_peer)
    BY BagRemove
  <2>1. IsABag(to_peer') /\ BagToSet(to_peer') \subseteq PeerMessage
    BY <2>a, <2>b
  <2>2. app_queue' \in [Names -> Seq(Received)]
    BY <1>2 DEF DeliverPeer, PeerMessage, Received
  <2>3. QED
    BY <1>2, <2>1, <2>2 DEF Delivery, DeliverPeer
<1>3. QED
  BY <1>1, <1>2 DEF Delivery

LEMMA LossType ==
  ASSUME TypeOK, Loss
  PROVE  TypeOK'
<1> USE DEF TypeOK, NetworkTypeOK, MobileNodeTypeOK, nodeVars, pollVars, appVars,
            serverVars, tableVars, TablesTypeOK, EchoAppTypeOK
<1> DEFINE listening == {n \in Names : Running(n)}
<1>1. CASE LoseRequest
  BY <1>1 DEF Loss, LoseRequest
<1>2. CASE LoseReply(listening)
  BY <1>2 DEF Loss, LoseReply
<1>3. CASE LoseNotice(listening)
  BY <1>3 DEF Loss, LoseNotice
<1>4. CASE LosePeer(listening)
  <2>a. PICK d \in BagToSet(to_peer) : to_peer' = to_peer (-) SetToBag({d})
    BY <1>4 DEF LosePeer
  <2>b. /\ IsABag(to_peer (-) SetToBag({d}))
        /\ BagToSet(to_peer (-) SetToBag({d})) \subseteq BagToSet(to_peer)
    BY BagRemove
  <2>1. IsABag(to_peer') /\ BagToSet(to_peer') \subseteq PeerMessage
    BY <2>a, <2>b
  <2>2. QED
    BY <1>4, <2>1 DEF Loss, LosePeer
<1>5. QED
  BY <1>1, <1>2, <1>3, <1>4 DEF Loss

LEMMA MachineType ==
  ASSUME TypeOK, NEW h \in Names, MachineMoves(h) \/ MachineDisconnects(h)
  PROVE  TypeOK'
<1> USE DEF TypeOK, NetworkTypeOK, MobileNodeTypeOK, nodeVars, pollVars, appVars,
            serverVars, tableVars, flightVars, TablesTypeOK, EchoAppTypeOK
<1>1. CASE MachineMoves(h)
  <2>1. PICK a \in Homes[h] : loc' = [loc EXCEPT ![h] = a]
    BY <1>1 DEF MachineMoves, Move
  <2>2. loc' \in [Names -> Addresses \cup {Offline}]
    BY <2>1, NetworkAssumption
  <2>3. QED
    BY <1>1, <2>2 DEF MachineMoves, Move
<1>2. CASE MachineDisconnects(h)
  BY <1>2 DEF MachineDisconnects, Disconnect
<1>3. QED
  BY <1>1, <1>2

LEMMA RestartType ==
  ASSUME TypeOK, NEW h \in Names, Restart(h)
  PROVE  TypeOK'
<1> USE DEF TypeOK, NetworkTypeOK, MobileNodeTypeOK, serverVars,
            tableVars, flightVars, TablesTypeOK, EchoAppTypeOK, AppState,
            RegisterPeerState, ConnectedState, DaemonState, LoopState
<1> GetCurrentIPAddress(h) \in Addresses \cup {Absent}
  BY CurrentAddressType
<1>1. NetworkTypeOK'
  BY DEF Restart
<1>2. MobileNodeTypeOK'
  BY DEF Restart
<1>3. EchoAppTypeOK'
  BY EchoAppAssumption DEF Restart
<1>4. QED
  BY <1>1, <1>2, <1>3 DEF Restart

LEMMA InitType ==
  ASSUME Init
  PROVE  TypeOK
<1> USE DEF Init
<1>1. TablesTypeOK /\ handled \in Nat /\ crashes \in Nat
  BY TablesAssumption DEF ServerInit, TablesInit, TablesTypeOK
<1>2. NetworkTypeOK
  <2>1. loc \in [Names -> Addresses \cup {Offline}]
    BY DEF NetworkInit
  <2>2. IsABag(to_peer) /\ BagToSet(to_peer) = {}
    BY NoBag DEF NetworkInit
  <2>3. app_queue \in [Names -> Seq(Received)]
    BY DEF NetworkInit
  <2>4. incarnation \in [Names -> Nat] /\ moves \in Nat
    BY DEF NetworkInit
  <2>5. QED
    BY <2>1, <2>2, <2>3, <2>4 DEF NetworkInit, NetworkTypeOK
<1>3. MobileNodeTypeOK
  BY CurrentAddressType DEF MobileNodeInit, MobileNodeTypeOK, DaemonState, AppState,
     RegisterPeerState, ConnectedState
<1>4. EchoAppTypeOK
  BY EchoAppAssumption DEF EchoAppInit, EchoAppTypeOK, MobileNodeInit
<1>5. QED
  BY <1>1, <1>2, <1>3, <1>4 DEF TypeOK

LEMMA StutterType ==
  ASSUME TypeOK, UNCHANGED vars
  PROVE  TypeOK'
  BY DEF TypeOK, NetworkTypeOK, MobileNodeTypeOK, TablesTypeOK, EchoAppTypeOK, vars,
     serverVars, tableVars, networkVars, flightVars, nodeVars, pollVars, appVars

LEMMA NextType ==
  ASSUME TypeOK, PeekInv, [RestartNext]_vars
  PROVE  TypeOK'
<1>1. ASSUME NEW h \in Names, Interrupt(h)
      PROVE  TypeOK'
  BY <1>1, ProcessEndsType DEF Interrupt, Interrupted
<1>2. QED
  BY <1>1, DaemonType, RegisterPeerType, AppType, ServerType, CrashType, DNSType,
     DeliveryType, LossType, MachineType, RestartType, StutterType
     DEF RestartNext, Next, AppThread

-------------------------------------------------------------------------------
(* PeekedIsTaken: the inductive invariant is PeekInv.  The types need it too: an *)
(* application that took the server's datagram would send it back.              *)

\* Steps that touch neither the threads nor what they share.
LEMMA PeekQuiet ==
  ASSUME PeekInv, UNCHANGED <<daemon, app_thread, app_sockets_, app_queue>>
  PROVE  PeekInv'
  BY DEF PeekInv, PeekedIsTaken, ConnectedForGood, FromServer

\* Nor does a step of the daemon that peeks at nothing.
LEMMA DaemonGoesOn ==
  ASSUME TypeOK, PeekInv, NEW h \in Names, NEW next \in DaemonState \ {"taking", "writing"},
         daemon' = [daemon EXCEPT ![h] = next],
         UNCHANGED <<app_thread, app_sockets_, app_queue>>
  PROVE  PeekInv'
  BY DEF PeekInv, PeekedIsTaken, ConnectedForGood, FromServer, TypeOK, MobileNodeTypeOK

LEMMA DaemonPeekInv ==
  ASSUME TypeOK, PeekInv, NEW h \in Names, DaemonThread(h)
  PROVE  PeekInv'
<1> USE DEF DaemonState, LoopState, PollingState
<1>1. CASE FirstRegistration(h) \/ WakeMoved(h)
  BY <1>1, DaemonGoesOn DEF FirstRegistration, WakeMoved, SendRegistration
<1>2. CASE RegistrationAcked(h)
  BY <1>2, DaemonGoesOn DEF RegistrationAcked
<1>3. CASE WakeUnmoved(h) \/ RegistrationFails(h) \/ PollNothing(h) \/ CopyMessages(h)
             \/ Resend(h) \/ Resent(h) \/ PollError(h) \/ NoteAddress(h)
  BY <1>3, DaemonGoesOn DEF WakeUnmoved, RegistrationFails, PollNothing, CopyMessages,
     Resend, Resent, PollError, NoteAddress, DaemonGoto
<1> USE DEF PeekInv, PeekedIsTaken, ConnectedForGood, FromServer, TypeOK,
            MobileNodeTypeOK, NetworkTypeOK, DaemonGoto
<1>4. CASE PeekUpdate(h)
  BY <1>4 DEF PeekUpdate, Peeked
<1>5. CASE TakeUpdate(h)
  BY <1>5 DEF TakeUpdate
<1>6. CASE WriteAddress(h)
  BY <1>6, IPStringToIntType, TypesAssumption DEF WriteAddress
<1>7. QED
  BY <1>1, <1>2, <1>3, <1>4, <1>5, <1>6 DEF DaemonThread, Daemon, PollSubscriptions

LEMMA ProcessEndsPeekInv ==
  ASSUME TypeOK, PeekInv, NEW h \in Names, ProcessEnds(h)
  PROVE  PeekInv'
  BY DEF ProcessEnds, AppGoto, PeekInv, PeekedIsTaken, ConnectedForGood, FromServer,
     TypeOK, MobileNodeTypeOK, NetworkTypeOK

LEMMA AppPeekInv ==
  ASSUME TypeOK, PeekInv, NEW h \in Names, AppThread(h)
  PROVE  PeekInv'
<1>1. CASE GiveUp(h) \/ BindFails(h) \/ ReceiveError(h)
  BY <1>1, ProcessEndsPeekInv DEF GiveUp, BindFails, ReceiveError
<1> USE DEF PeekInv, PeekedIsTaken, ConnectedForGood, FromServer, TypeOK,
            MobileNodeTypeOK, NetworkTypeOK, AppGoto, ConnectedState
<1>2. CASE QueryDns(h) \/ QueryFails(h) \/ DnsReplied(h) \/ LookupPeer(h)
  BY <1>2 DEF QueryDns, QueryFails, DnsReplied, LookupPeer, networkVars
<1>3. CASE LookupReplied(h)
  <2>1. daemon[h] \notin {"taking", "writing"}
    BY <1>3 DEF LookupReplied
  <2>2. /\ app_queue' = [app_queue EXCEPT ![h] = Tail(@)]
        /\ UNCHANGED daemon
        /\ \/ AppGoto(h, "null") /\ UNCHANGED app_sockets_
           \/ /\ AppGoto(h, "found")
              /\ \E text : app_sockets_' = [app_sockets_ EXCEPT ![h] = IPStringToInt(text)]
    BY <1>3 DEF LookupReplied
  <2>3. QED
    BY <1>3, <2>1, <2>2, IPStringToIntType, TypesAssumption DEF LookupReplied
<1>4. CASE Retry(h) \/ Connected(h)
  BY <1>4 DEF Retry, Connected, networkVars
<1>5. CASE ReceiveNothing(h) \/ PeekMessage(h) \/ SkipSend(h) \/ SendKeyword(h) \/ NoteSent(h)
  BY <1>5 DEF ReceiveNothing, PeekMessage, SkipSend, SendKeyword, NoteSent, loopUnchanged
<1>6. CASE ReceiveOwn(h) \/ ReceiveAndEcho(h)
  <2>1. /\ app_thread[h] = "take"
        /\ app_queue' = [app_queue EXCEPT ![h] = Tail(@)]
        /\ UNCHANGED <<daemon, app_sockets_>>
        /\ \E next \in {"send", "echoed"} : AppGoto(h, next)
    BY <1>6 DEF ReceiveOwn, ReceiveAndEcho, TakeMessage, loopUnchanged
  <2>2. daemon[h] # "taking"
    BY <2>1
  <2>3. QED
    BY <2>1, <2>2
<1>7. QED
  BY <1>1, <1>2, <1>3, <1>4, <1>5, <1>6 DEF AppThread, RegisterPeer, App

LEMMA NextPeekInv ==
  ASSUME TypeOK, PeekInv, [RestartNext]_vars
  PROVE  PeekInv'
<1>1. CASE UNCHANGED vars
  BY <1>1, PeekQuiet DEF vars, networkVars, nodeVars
<1>2. CASE Server \/ ServerCrash \/ DNS \/ Loss
  <2>1. UNCHANGED nodeVars
    BY <1>2 DEF Server, ServerCrash, DNS, Loss
  <2>2. UNCHANGED app_queue
    BY <1>2 DEF Server, ServerCrash, DNS, Loss, HandleRequests, HandleLookup,
       HandleRegistration, ServerRestarts, HandleQuery, LoseRequest, LoseReply,
       LoseNotice, LosePeer
  <2>3. QED
    BY <2>1, <2>2, PeekQuiet DEF nodeVars
<1>3. ASSUME NEW h \in Names, Delivery(h)
      PROVE  PeekInv'
  <2>1. PICK d : app_queue' = [app_queue EXCEPT ![h] = Append(@, d)]
    BY <1>3 DEF Delivery, DeliverNotice, DeliverPeer
  <2>2. UNCHANGED nodeVars
    BY <1>3 DEF Delivery
  <2>3. \A n \in Names : app_queue[n] # <<>> =>
          app_queue'[n] # <<>> /\ Head(app_queue'[n]) = Head(app_queue[n])
    BY <2>1 DEF TypeOK, NetworkTypeOK
  <2>4. QED
    BY <2>2, <2>3 DEF nodeVars, PeekInv, PeekedIsTaken, ConnectedForGood, FromServer
<1>4. ASSUME NEW h \in Names, MachineMoves(h) \/ MachineDisconnects(h)
      PROVE  PeekInv'
  BY <1>4, PeekQuiet DEF MachineMoves, MachineDisconnects, Move, Disconnect, nodeVars
<1>5. ASSUME NEW h \in Names, Restart(h)
      PROVE  PeekInv'
  BY <1>5 DEF Restart, PeekInv, PeekedIsTaken, ConnectedForGood, FromServer, TypeOK,
     MobileNodeTypeOK, NetworkTypeOK
<1>6. ASSUME NEW h \in Names, Interrupt(h)
      PROVE  PeekInv'
  BY <1>6, ProcessEndsPeekInv DEF Interrupt, Interrupted
<1>7. QED
  BY <1>1, <1>2, <1>3, <1>4, <1>5, <1>6, DaemonPeekInv, AppPeekInv DEF RestartNext, Next

LEMMA InitPeekInv ==
  ASSUME Init
  PROVE  PeekInv
  BY DEF Init, MobileNodeInit, PeekInv, PeekedIsTaken, ConnectedForGood

\* No step of any thread, of the servers, the network or a restart takes a
\* variable out of its type; in particular an application past RegisterPeer has
\* a peer to send to.
THEOREM TypeCorrect == RestartSpec => []TypeOK
<1>1. Init => TypeOK /\ PeekInv
  BY InitType, InitPeekInv
<1>2. TypeOK /\ PeekInv /\ [RestartNext]_vars => (TypeOK /\ PeekInv)'
  BY NextType, NextPeekInv
<1>3. QED
  BY <1>1, <1>2, PTL DEF RestartSpec

\* The daemon and the application of a node peek at the head of one queue and take
\* it a step later, without a lock: however their steps, deliveries and restarts
\* interleave, each takes what it has peeked at, and never waits for ever.
THEOREM NoThreadTakesTheOthers == RestartSpec => [](PeekedIsTaken /\ ConnectedForGood)
<1>1. Init => TypeOK /\ PeekInv
  BY InitType, InitPeekInv
<1>2. TypeOK /\ PeekInv /\ [RestartNext]_vars => (TypeOK /\ PeekInv)'
  BY NextType, NextPeekInv
<1>3. QED
  BY <1>1, <1>2, PTL DEF RestartSpec, PeekInv

-------------------------------------------------------------------------------
(* RegisteredIsLastSent: the inductive invariant is RegistrationInv. *)

\* Steps that start no registration, end none and handle none.
LEMMA RegistrationQuiet ==
  ASSUME RegistrationInv,
         UNCHANGED <<daemon, sent_from, incarnation, registered_names_, crashes>>,
         to_regist' \subseteq to_regist,
         \A r \in to_private' : r.thread = "daemon" => r \in to_private
  PROVE  RegistrationInv'
  BY DEF RegistrationInv, RegistrationUnderWay, AckUnderWay, RegisteredInLoop, Waiting,
     HasLastSent, Original

\* A server killed has forgotten everybody.
LEMMA CrashRegistrationInv ==
  ASSUME TypeOK, RegistrationInv, ServerCrash
  PROVE  RegistrationInv'
<1>1. /\ UNCHANGED <<daemon, sent_from, incarnation, to_private>>
      /\ to_regist' \subseteq to_regist
  BY DEF ServerCrash, ServerRestarts, nodeVars
<1>2. \A n \in Names : HasLastSent(n)'
  BY TypesAssumption DEF ServerCrash, ServerRestarts, HasLastSent, TypeOK
<1>3. \A r \in to_private : r.host \in Names
  BY DEF TypeOK, NetworkTypeOK, Reply
<1>4. QED
  BY <1>1, <1>2, <1>3 DEF RegistrationInv, RegistrationUnderWay, AckUnderWay,
     RegisteredInLoop, Waiting, Original

LEMMA SendRegistrationInv ==
  ASSUME TypeOK, RegistrationInv, NEW h \in Names,
         daemon[h] \in {"start", "asleep"},
         NEW waiting \in {"registering", "updating"},
         SendRegistration(h, waiting), UNCHANGED serverVars
  PROVE  RegistrationInv'
<1> DEFINE sent == [name |-> h, from |-> loc[h], inc |-> incarnation[h]]
<1>1. /\ to_regist' \subseteq to_regist \cup {sent}
      /\ sent_from' = [sent_from EXCEPT ![h] = loc[h]]
      /\ daemon' = [daemon EXCEPT ![h] = waiting]
      /\ UNCHANGED <<incarnation, to_private, registered_names_, crashes>>
  BY DEF SendRegistration, Sent, serverVars, tableVars
<1>2. /\ daemon \in [Names -> DaemonState]
      /\ sent_from \in [Names -> Addresses \cup {Absent, Offline}]
      /\ \A m \in to_regist : m.name \in Names
      /\ \A r \in to_private : r.host \in Names
  BY DEF TypeOK, MobileNodeTypeOK, NetworkTypeOK, Registration, Reply
<1>3. \A m \in to_regist : m.name = h => ~Original(h)
  BY DEF RegistrationInv, RegistrationUnderWay, Waiting
<1>4. \A r \in to_private : r.thread = "daemon" /\ r.host = h => ~Original(h)
  BY DEF RegistrationInv, AckUnderWay, Waiting
<1>5. RegistrationUnderWay'
  BY <1>1, <1>2, <1>3 DEF RegistrationInv, RegistrationUnderWay, Waiting, Original
<1>6. AckUnderWay'
  BY <1>1, <1>2, <1>4 DEF RegistrationInv, AckUnderWay, Waiting, HasLastSent, Original
<1>7. RegisteredInLoop'
  <2>1. waiting \notin LoopState \cup {"start"}
    BY DEF LoopState, PollingState
  <2>2. QED
    BY <1>1, <1>2, <2>1 DEF RegistrationInv, RegisteredInLoop, HasLastSent, Original
<1>8. QED
  BY <1>5, <1>6, <1>7 DEF RegistrationInv

\* The daemon whose reply arrived was the only one to wait for it, and has
\* nothing under way any more.
LEMMA AckedInv ==
  ASSUME TypeOK, RegistrationInv, NEW h \in Names, RegistrationAcked(h),
         UNCHANGED serverVars
  PROVE  RegistrationInv'
<1>1. PICK r \in RepliesFor(h, "daemon") : to_private' = to_private \ {r}
  BY DEF RegistrationAcked
<1>2. /\ r \in to_private /\ r.host = h /\ r.thread = "daemon"
      /\ r \in Reply
  BY <1>1 DEF RepliesFor, TypeOK, NetworkTypeOK
<1>3. PICK next \in {"asleep", "polling"} :
        /\ daemon' = [daemon EXCEPT ![h] = next]
        /\ UNCHANGED <<incarnation, to_regist, sent_from, registered_names_, crashes>>
  BY DEF RegistrationAcked, serverVars, tableVars
<1>4. daemon \in [Names -> DaemonState]
  BY DEF TypeOK, MobileNodeTypeOK
<1>5. Original(h) => /\ r.to = sent_from[h]
                     /\ HasLastSent(h)
                     /\ \A m \in to_regist : m.name # h
  BY <1>2 DEF RegistrationInv, AckUnderWay
<1>6. \A q \in to_private : q.thread = "daemon" /\ q.host = h /\ Original(h) => q = r
  <2> DEFINE ack == [host |-> h, thread |-> "daemon", inc |-> incarnation[h],
                     to |-> sent_from[h], text |-> sent_from[h]]
  <2>1. \A q \in Reply : q = [host |-> q.host, thread |-> q.thread, inc |-> q.inc,
                              to |-> q.to, text |-> q.text]
    BY DEF Reply
  <2>2. ASSUME NEW q \in to_private, q.thread = "daemon", q.host = h, Original(h)
        PROVE  q = ack
    <3>1. q.to = sent_from[h] /\ q.text = sent_from[h] /\ q.inc = incarnation[h]
      BY <2>2 DEF RegistrationInv, AckUnderWay
    <3>2. q \in Reply
      BY DEF TypeOK, NetworkTypeOK
    <3>3. QED
      BY <2>1, <2>2, <3>1, <3>2
  <2>3. QED
    BY <1>2, <2>2
<1>7. RegistrationUnderWay'
  BY <1>3, <1>4, <1>5 DEF RegistrationInv, RegistrationUnderWay, Waiting, TypeOK,
     NetworkTypeOK, Registration, Original
<1>8. AckUnderWay'
  BY <1>1, <1>3, <1>4, <1>6 DEF RegistrationInv, AckUnderWay, Waiting, TypeOK,
     NetworkTypeOK, Reply, HasLastSent, Original
<1>9. RegisteredInLoop'
  BY <1>2, <1>3, <1>4, <1>5 DEF RegistrationInv, RegisteredInLoop, Reply, HasLastSent,
     Original
<1>10. QED
  BY <1>7, <1>8, <1>9 DEF RegistrationInv

\* Steps of a thread that move the daemon on without its having anything under
\* way, or stop it.
LEMMA DaemonMovesOn ==
  ASSUME TypeOK, RegistrationInv, NEW h \in Names,
         NEW next \in LoopState \cup {"stopped"},
         daemon' = [daemon EXCEPT ![h] = next],
         next # "stopped" => daemon[h] \in LoopState \cup {"start"},
         UNCHANGED <<sent_from, incarnation, registered_names_, crashes, to_regist,
                     to_private>>
  PROVE  RegistrationInv'
<1>1. daemon \in [Names -> DaemonState]
  BY DEF TypeOK, MobileNodeTypeOK
<1>2. next # "stopped" => ~Waiting(h)
  BY DEF Waiting, LoopState, PollingState
<1>3. RegistrationUnderWay'
  BY <1>1, <1>2 DEF RegistrationInv, RegistrationUnderWay, Waiting, TypeOK,
     NetworkTypeOK, Registration, Original
<1>4. AckUnderWay'
  BY <1>1, <1>2 DEF RegistrationInv, AckUnderWay, Waiting, TypeOK, NetworkTypeOK, Reply,
     HasLastSent, Original
<1>5. RegisteredInLoop'
  <2>1. "stopped" \notin LoopState \cup {"start"}
    BY DEF LoopState, PollingState
  <2>2. QED
    BY <1>1, <2>1 DEF RegistrationInv, RegisteredInLoop, HasLastSent, Original
<1>6. QED
  BY <1>3, <1>4, <1>5 DEF RegistrationInv

LEMMA DaemonRegistrationInv ==
  ASSUME TypeOK, RegistrationInv, NEW h \in Names, DaemonThread(h)
  PROVE  RegistrationInv'
<1>1. UNCHANGED serverVars
  BY DEF DaemonThread
<1>2. CASE FirstRegistration(h)
  BY <1>1, <1>2, SendRegistrationInv DEF FirstRegistration
<1>3. CASE RegistrationAcked(h)
  BY <1>1, <1>3, AckedInv
<1>4. CASE WakeMoved(h)
  BY <1>1, <1>4, SendRegistrationInv DEF WakeMoved
<1>5. ASSUME NEW next \in LoopState \cup {"stopped"}, DaemonGoto(h, next),
             daemon[h] \in LoopState \cup {"start"}
      PROVE  RegistrationInv'
  BY <1>1, <1>5, DaemonMovesOn DEF DaemonGoto, serverVars, tableVars
<1>6. CASE WakeUnmoved(h) \/ RegistrationFails(h) \/ PollSubscriptions(h) \/ NoteAddress(h)
  <2>1. /\ \E next \in LoopState \cup {"stopped"} : DaemonGoto(h, next)
        /\ daemon[h] \in LoopState \cup {"start"}
    BY <1>6 DEF WakeUnmoved, RegistrationFails, PollSubscriptions, NoteAddress,
       PollNothing, PollError, PeekUpdate, TakeUpdate, WriteAddress, CopyMessages,
       Resend, Resent, LoopState, PollingState
  <2>2. QED
    BY <1>5, <2>1
<1>7. QED
  BY <1>2, <1>3, <1>4, <1>6 DEF DaemonThread, Daemon

LEMMA ProcessEndsRegistrationInv ==
  ASSUME TypeOK, RegistrationInv, NEW h \in Names, ProcessEnds(h), UNCHANGED serverVars
  PROVE  RegistrationInv'
  BY DaemonMovesOn DEF ProcessEnds, flightVars, serverVars, tableVars

LEMMA AppRegistrationInv ==
  ASSUME TypeOK, RegistrationInv, NEW h \in Names, AppThread(h)
  PROVE  RegistrationInv'
<1>1. CASE RegisterPeer(h)
  <2>1. UNCHANGED <<daemon, sent_from, incarnation, to_regist>>
    BY <1>1 DEF RegisterPeer, QueryDns, QueryFails, DnsReplied, LookupPeer,
       LookupReplied, networkVars, flightVars
  <2>2. to_private' \subseteq to_private
    BY <1>1 DEF RegisterPeer, QueryDns, QueryFails, DnsReplied, LookupPeer,
       LookupReplied, networkVars, flightVars
  <2>3. UNCHANGED <<registered_names_, crashes>>
    BY <1>1 DEF AppThread, serverVars, tableVars
  <2>4. QED
    BY <2>1, <2>2, <2>3, RegistrationQuiet
<1>2. CASE GiveUp(h) \/ BindFails(h) \/ ReceiveError(h)
  <2>1. UNCHANGED serverVars
    BY DEF AppThread
  <2>2. QED
    BY <1>2, <2>1, ProcessEndsRegistrationInv DEF GiveUp, BindFails, ReceiveError
<1>3. CASE App(h) /\ ~(GiveUp(h) \/ BindFails(h) \/ ReceiveError(h))
  <2>1. UNCHANGED <<daemon, sent_from, incarnation, to_regist, to_private>>
    BY <1>3 DEF App, Retry, Connected, ReceiveNothing, PeekMessage, ReceiveOwn,
       ReceiveAndEcho, SendKeyword, SkipSend, NoteSent, loopUnchanged, networkVars,
       flightVars
  <2>2. UNCHANGED <<registered_names_, crashes>>
    BY <1>3 DEF AppThread, serverVars, tableVars
  <2>3. QED
    BY <2>1, <2>2, RegistrationQuiet
<1>4. QED
  BY <1>1, <1>2, <1>3 DEF AppThread

\* Of each node's first process at most one registration is under way.
LEMMA OneRegistration ==
  ASSUME TypeOK, RegistrationInv, NEW m \in to_regist, NEW q \in to_regist,
         q.name = m.name, Original(m.name)
  PROVE  q = m
<1>1. \A r \in Registration : r = [name |-> r.name, from |-> r.from, inc |-> r.inc]
  BY DEF Registration
<1>2. \A r \in {m, q} : /\ r \in Registration /\ r.from = sent_from[r.name]
                        /\ r.inc = incarnation[r.name]
  BY DEF RegistrationInv, RegistrationUnderWay, TypeOK, NetworkTypeOK
<1>3. QED
  BY <1>1, <1>2

\* The server handles the one registration under way, and its reply becomes the
\* one thing under way.  Entries that operator[] inserts for other names are not
\* addresses, and replace none.
LEMMA HandledRegistrationInv ==
  ASSUME TypeOK, RegistrationInv, NEW m \in to_regist, HandleRegistration(m),
         UNCHANGED nodeVars
  PROVE  RegistrationInv'
<1> DEFINE h == m.name
           ack == [host |-> h, thread |-> "daemon", inc |-> m.inc, to |-> m.from,
                   text |-> m.from]
<1>1. /\ to_regist' = to_regist \ {m}
      /\ to_private' = to_private \cup {ack}
      /\ registered_names_' = NamesAfterUpdate(h, m.from)
      /\ UNCHANGED <<daemon, sent_from, incarnation, crashes>>
  BY DEF HandleRegistration, UpdateAddress, nodeVars
<1>2. m \in Registration /\ h \in Names /\ m.from \in Addresses
  BY DEF TypeOK, NetworkTypeOK, Registration
<1>3. Original(h) => Waiting(h) /\ m.from = sent_from[h] /\ m.inc = incarnation[h]
  BY DEF RegistrationInv, RegistrationUnderWay
<1>4. registered_names_'[h] = m.from
  BY <1>1, <1>2 DEF NamesAfterUpdate
<1>5. \A n \in Names \ {h} : HasLastSent(n) => HasLastSent(n)'
  BY <1>1, TypesAssumption DEF NamesAfterUpdate, Known, HasLastSent
<1>6. Original(h) => \A q \in to_regist : q.name = h => q = m
  BY OneRegistration
<1>7. \A r \in to_private : r.thread = "daemon" /\ Original(r.host) => r.host # h
  BY DEF RegistrationInv, AckUnderWay
<1>8. RegistrationUnderWay'
  BY <1>1 DEF RegistrationInv, RegistrationUnderWay, Waiting, Original
<1>9. AckUnderWay'
  <2>1. ASSUME NEW r \in to_private, r.thread = "daemon", Original(r.host)
        PROVE  /\ HasLastSent(r.host)'
               /\ \A q \in to_regist' : q.name # r.host
    <3>1. r.host \in Names
      BY DEF TypeOK, NetworkTypeOK, Reply
    <3>2. HasLastSent(r.host)
      BY <2>1 DEF RegistrationInv, AckUnderWay
    <3>3. HasLastSent(r.host)'
      BY <1>5, <1>7, <2>1, <3>1, <3>2
    <3>4. \A q \in to_regist' : q.name # r.host
      BY <1>1, <2>1 DEF RegistrationInv, AckUnderWay
    <3>5. QED
      BY <3>3, <3>4
  <2>2. Original(h) => /\ HasLastSent(h)'
                       /\ \A q \in to_regist' : q.name # h
    BY <1>1, <1>2, <1>3, <1>4, <1>6 DEF HasLastSent
  <2>3. \A r \in to_private' : r \in to_private \/ r = ack
    BY <1>1
  <2>4. QED
    BY <1>1, <1>3, <2>1, <2>2, <2>3 DEF RegistrationInv, AckUnderWay, Waiting, Original
<1>10. RegisteredInLoop'
  <2>1. ASSUME NEW n \in Names, Original(n), daemon[n] \in LoopState \cup {"start"}
        PROVE  HasLastSent(n)' /\ sent_from[n] \in Addresses \cup {Absent}
    <3>1. sent_from[n] \in Addresses \cup {Absent} /\ HasLastSent(n)
      BY <2>1 DEF RegistrationInv, RegisteredInLoop
    <3>2. n # h
      BY <1>3, <2>1 DEF Waiting, LoopState, PollingState
    <3>3. QED
      BY <1>5, <3>1, <3>2
  <2>2. QED
    BY <1>1, <2>1 DEF RegisteredInLoop, Original
<1>11. QED
  BY <1>8, <1>9, <1>10 DEF RegistrationInv

\* A process started again is no original one.
LEMMA RestartRegistrationInv ==
  ASSUME TypeOK, RegistrationInv, NEW h \in Names, Restart(h)
  PROVE  RegistrationInv'
<1>1. /\ UNCHANGED <<to_regist, to_private, registered_names_, crashes>>
      /\ daemon' = [daemon EXCEPT ![h] = "start"]
      /\ sent_from' = [sent_from EXCEPT ![h] = Absent]
      /\ incarnation' = [incarnation EXCEPT ![h] = @ + 1]
  BY DEF Restart, serverVars, tableVars, flightVars
<1>2. /\ incarnation \in [Names -> Nat]
      /\ daemon \in [Names -> DaemonState]
      /\ sent_from \in [Names -> Addresses \cup {Absent, Offline}]
      /\ \A m \in to_regist : m.name \in Names
      /\ \A r \in to_private : r.host \in Names
  BY DEF TypeOK, NetworkTypeOK, MobileNodeTypeOK, Registration, Reply
<1>3. /\ ~Original(h)'
      /\ \A n \in Names \ {h} : /\ Original(n)' = Original(n)
                                /\ Waiting(n)' = Waiting(n)
                                /\ HasLastSent(n)' = HasLastSent(n)
                                /\ UNCHANGED <<daemon[n], sent_from[n], incarnation[n]>>
  BY <1>1, <1>2 DEF Original, Waiting, HasLastSent
<1>4. RegistrationUnderWay'
  BY <1>1, <1>2, <1>3 DEF RegistrationInv, RegistrationUnderWay
<1>5. AckUnderWay'
  BY <1>1, <1>2, <1>3 DEF RegistrationInv, AckUnderWay
<1>6. RegisteredInLoop'
  BY <1>2, <1>3 DEF RegistrationInv, RegisteredInLoop
<1>7. QED
  BY <1>4, <1>5, <1>6 DEF RegistrationInv

LEMMA NextRegistrationInv ==
  ASSUME TypeOK, RegistrationInv, [RestartNext]_vars
  PROVE  RegistrationInv'
<1>1. ASSUME NEW h \in Names, DaemonThread(h)
      PROVE  RegistrationInv'
  BY <1>1, DaemonRegistrationInv
<1>2. ASSUME NEW h \in Names, AppThread(h)
      PROVE  RegistrationInv'
  BY <1>2, AppRegistrationInv
<1>3. CASE Server
  <2>1. ASSUME NEW m \in to_lookup, HandleLookup(m)
        PROVE  RegistrationInv'
    <3>1. UNCHANGED <<daemon, sent_from, incarnation, registered_names_, crashes,
                      to_regist, to_private>>
      BY <1>3, <2>1 DEF Server, nodeVars, HandleLookup, ChangeSubscription
    <3>2. QED
      BY <3>1, RegistrationQuiet
  <2>2. QED
    BY <1>3, <2>1, HandledRegistrationInv DEF Server, HandleRequests
<1>4. CASE DNS
  <2>1. UNCHANGED <<daemon, sent_from, incarnation, registered_names_, crashes,
                    to_regist>>
    BY <1>4 DEF DNS, nodeVars, HandleQuery, serverVars, tableVars
  <2>2. \A r \in to_private' : r.thread = "daemon" => r \in to_private
    BY <1>4 DEF DNS, HandleQuery
  <2>3. QED
    BY <2>1, <2>2, RegistrationQuiet
<1>5. ASSUME NEW h \in Names, Delivery(h)
      PROVE  RegistrationInv'
  <2>1. UNCHANGED <<daemon, sent_from, incarnation, registered_names_, crashes,
                    to_regist, to_private>>
    BY <1>5 DEF Delivery, DeliverNotice, DeliverPeer, nodeVars, serverVars, tableVars
  <2>2. QED
    BY <2>1, RegistrationQuiet
<1>6. CASE Loss
  <2>1. UNCHANGED <<daemon, sent_from, incarnation, registered_names_, crashes>>
    BY <1>6 DEF Loss, LoseRequest, LoseReply, LoseNotice, LosePeer, nodeVars,
       serverVars, tableVars
  <2>2. to_regist' \subseteq to_regist /\ to_private' \subseteq to_private
    BY <1>6 DEF Loss, LoseRequest, LoseReply, LoseNotice, LosePeer
  <2>3. QED
    BY <2>1, <2>2, RegistrationQuiet
<1>7. ASSUME NEW h \in Names, MachineMoves(h) \/ MachineDisconnects(h)
      PROVE  RegistrationInv'
  <2>1. UNCHANGED <<daemon, sent_from, incarnation, registered_names_, crashes,
                    to_regist, to_private>>
    BY <1>7 DEF MachineMoves, MachineDisconnects, Move, Disconnect, nodeVars,
       serverVars, tableVars, flightVars
  <2>2. QED
    BY <2>1, RegistrationQuiet
<1>8. CASE UNCHANGED vars
  <2>1. UNCHANGED <<daemon, sent_from, incarnation, registered_names_, crashes,
                    to_regist, to_private>>
    BY <1>8 DEF vars, nodeVars, serverVars, tableVars, networkVars, flightVars
  <2>2. QED
    BY <2>1, RegistrationQuiet
<1>9. ASSUME NEW h \in Names, Interrupt(h)
      PROVE  RegistrationInv'
  BY <1>9, ProcessEndsRegistrationInv DEF Interrupt, Interrupted
<1>10. QED
  BY <1>1, <1>2, <1>3, <1>4, <1>5, <1>6, <1>7, <1>8, <1>9, CrashRegistrationInv,
     RestartRegistrationInv DEF Next, RestartNext

LEMMA InitRegistrationInv ==
  ASSUME Init
  PROVE  RegistrationInv
  BY TypesAssumption DEF Init, ServerInit, TablesInit, NetworkInit, MobileNodeInit,
     RegistrationInv, RegistrationUnderWay, AckUnderWay, RegisteredInLoop, HasLastSent

THEOREM RegistrationsOrdered == RestartSpec => []RegistrationInv
<1>1. TypeOK /\ RegistrationInv /\ [RestartNext]_vars => RegistrationInv'
  BY NextRegistrationInv
<1>2. QED
  BY <1>1, InitRegistrationInv, TypeCorrect, PTL DEF RestartSpec

\* No interleaving, loss, delay or reordering of datagrams, no movement, no crash of
\* the server, no failing socket() and no restart of another node makes the server
\* hold an address of a node in its loop other than the one its last registration
\* came from.
THEOREM LastRegistrationHolds == RestartSpec => []RegisteredIsLastSent
<1>1. RegistrationInv => RegisteredIsLastSent
  BY DEF RegistrationInv, RegisteredInLoop, RegisteredIsLastSent
<1>2. QED
  BY <1>1, RegistrationsOrdered, PTL

-------------------------------------------------------------------------------
(* NotedIsRegistered: the inductive invariant is LastSentIsNoted, on top of *)
(* RegistrationInv. *)

LEMMA CurrentAddressIsLoc ==
  ASSUME TypeOK, Visible = Addresses, NEW h \in Names, loc[h] # Offline
  PROVE  GetCurrentIPAddress(h) = loc[h]
  BY DEF GetCurrentIPAddress, TypeOK, NetworkTypeOK

\* Steps that touch neither the machine's address nor what is noted or sent,
\* except that they stop daemons.
LEMMA NotedQuiet ==
  ASSUME LastSentIsNoted,
         UNCHANGED <<loc, incarnation, last_known_ip_address_, sent_from>>,
         \A h \in Names : daemon'[h] \in {daemon[h], "stopped"}
  PROVE  LastSentIsNoted'
  BY DEF LastSentIsNoted, Original, PollingState

\* Of a step of node h's daemon only what it does to node h matters, and only if
\* the node's system calls do not fail.
LEMMA DaemonNoted ==
  ASSUME TypeOK, LastSentIsNoted, Visible = Addresses, NEW h \in Names, DaemonThread(h)
  PROVE  LastSentIsNoted'
<1>1. h \notin Failing /\ Original(h) => GetCurrentIPAddress(h) = loc[h]
  BY CurrentAddressIsLoc DEF LastSentIsNoted
<1>2. /\ daemon \in [Names -> DaemonState]
      /\ last_known_ip_address_ \in [Names -> Addresses \cup {Absent}]
      /\ sent_from \in [Names -> Addresses \cup {Absent, Offline}]
  BY DEF TypeOK, MobileNodeTypeOK
<1> USE DEF LastSentIsNoted, Original, PollingState
<1>3. CASE FirstRegistration(h)
  BY <1>2, <1>3 DEF FirstRegistration, SendRegistration
<1>4. CASE RegistrationAcked(h)
  BY <1>2, <1>4 DEF RegistrationAcked
<1>5. CASE WakeMoved(h)
  BY <1>2, <1>5 DEF WakeMoved, SendRegistration
<1>6. CASE WakeUnmoved(h)
  BY <1>1, <1>2, <1>6 DEF WakeUnmoved, DaemonGoto
<1>7. CASE RegistrationFails(h)
  BY <1>2, <1>7 DEF RegistrationFails, DaemonGoto
<1>8. CASE PollSubscriptions(h)
  <2>1. /\ daemon[h] \in PollingState
        /\ \E next \in PollingState \cup {"stopped"} : DaemonGoto(h, next)
        /\ UNCHANGED last_known_ip_address_
    BY <1>8 DEF PollSubscriptions, PollNothing, PollError, PeekUpdate, TakeUpdate,
       WriteAddress, CopyMessages, Resend, Resent
  <2>2. QED
    BY <1>2, <2>1 DEF DaemonGoto
<1>9. CASE NoteAddress(h)
  BY <1>1, <1>2, <1>9 DEF NoteAddress, DaemonGoto
<1>10. QED
  BY <1>3, <1>4, <1>5, <1>6, <1>7, <1>8, <1>9 DEF DaemonThread, Daemon

\* A machine that moves leaves an address its sleeping daemon has noted.
LEMMA MoveNoted ==
  ASSUME TypeOK, LastSentIsNoted, MoveRule # "any", NEW h \in Names, MachineMoves(h)
  PROVE  LastSentIsNoted'
<1>1. daemon[h] = "asleep"
  BY DEF MachineMoves, MayMove, UpToDate, Settled, PermanentIPAssumption
<1>2. PICK a \in Homes[h] : loc' = [loc EXCEPT ![h] = a]
  BY DEF MachineMoves, Move
<1>3. a # Offline
  BY <1>2, NetworkAssumption
<1>4. UNCHANGED <<daemon, incarnation, last_known_ip_address_, sent_from>>
  BY DEF MachineMoves, Move, nodeVars
<1>5. QED
  BY <1>1, <1>2, <1>3, <1>4 DEF LastSentIsNoted, TypeOK, NetworkTypeOK, Original,
     PollingState

LEMMA NextNoted ==
  ASSUME TypeOK, LastSentIsNoted, MoveRule # "any", Visible = Addresses,
         [RestartNext]_vars
  PROVE  LastSentIsNoted'
<1>a. ASSUME NEW h \in Names, ProcessEnds(h)
      PROVE  LastSentIsNoted'
  BY <1>a, NotedQuiet DEF ProcessEnds, TypeOK, MobileNodeTypeOK
<1>1. ASSUME NEW h \in Names, AppThread(h)
      PROVE  LastSentIsNoted'
  <2>1. CASE GiveUp(h) \/ BindFails(h) \/ ReceiveError(h)
    BY <1>a, <2>1 DEF GiveUp, BindFails, ReceiveError
  <2>2. CASE RegisterPeer(h)
    BY <2>2, NotedQuiet DEF RegisterPeer, QueryDns, QueryFails, DnsReplied, LookupPeer,
       LookupReplied, networkVars
  <2>3. CASE App(h) /\ ~(GiveUp(h) \/ BindFails(h) \/ ReceiveError(h))
    BY <2>3, NotedQuiet DEF App, Retry, Connected, ReceiveNothing, PeekMessage,
       ReceiveOwn, ReceiveAndEcho, SendKeyword, SkipSend, NoteSent, loopUnchanged,
       networkVars
  <2>4. QED
    BY <1>1, <2>1, <2>2, <2>3 DEF AppThread
<1>2. CASE Server \/ ServerCrash \/ DNS
  BY <1>2, NotedQuiet DEF Server, ServerCrash, ServerRestarts, DNS, HandleRequests,
     HandleLookup, HandleRegistration, HandleQuery, nodeVars
<1>3. ASSUME NEW h \in Names, Delivery(h)
      PROVE  LastSentIsNoted'
  BY <1>3, NotedQuiet DEF Delivery, DeliverNotice, DeliverPeer, nodeVars
<1>4. CASE Loss
  BY <1>4, NotedQuiet DEF Loss, LoseRequest, LoseReply, LoseNotice, LosePeer, nodeVars
<1>5. ASSUME NEW h \in Names, MachineDisconnects(h)
      PROVE  LastSentIsNoted'
  BY <1>5 DEF MachineDisconnects
<1>6. CASE UNCHANGED vars
  BY <1>6, NotedQuiet DEF vars, networkVars, nodeVars
<1>7. ASSUME NEW h \in Names, Interrupt(h)
      PROVE  LastSentIsNoted'
  BY <1>a, <1>7 DEF Interrupt, Interrupted
<1>8. ASSUME NEW h \in Names, Restart(h)
      PROVE  LastSentIsNoted'
  BY <1>8 DEF Restart, LastSentIsNoted, Original, TypeOK, NetworkTypeOK, MobileNodeTypeOK
<1>9. QED
  BY <1>1, <1>2, <1>3, <1>4, <1>5, <1>6, <1>7, <1>8, DaemonNoted, MoveNoted
     DEF Next, RestartNext

LEMMA InitNoted ==
  ASSUME Init, Visible = Addresses
  PROVE  LastSentIsNoted
<1>1. TypeOK
  BY InitType
<1>2. \A h \in Names : loc[h] # Offline
  BY NetworkAssumption DEF Init, NetworkInit
<1>3. \A h \in Names : GetCurrentIPAddress(h) = loc[h]
  BY <1>1, <1>2, CurrentAddressIsLoc
<1>4. QED
  BY <1>2, <1>3 DEF Init, MobileNodeInit, LastSentIsNoted, PollingState

\* When machines move only while their own daemon sleeps -- whatever the others
\* do, whatever is lost or overtaken, and whoever is killed and started again or
\* gets no socket -- and every address is visible to GetCurrentIPAddress, the
\* comparison misses no move: if the daemon of a node's first process, one that
\* always gets its socket, finds its address unchanged, the server has the address
\* too, or was killed and has none.
THEOREM NoMoveIsMissed ==
  ASSUME MoveRule # "any", Visible = Addresses
  PROVE  RestartSpec => []NotedIsRegistered
<1>1. Init => LastSentIsNoted
  BY InitNoted
<1>2. TypeOK /\ LastSentIsNoted /\ [RestartNext]_vars => LastSentIsNoted'
  BY NextNoted
<1>3. TypeOK /\ RegistrationInv /\ LastSentIsNoted => NotedIsRegistered
  <2> SUFFICES ASSUME TypeOK, RegistrationInv, LastSentIsNoted, NEW h \in Names \ Failing,
                      Original(h), UpToDate(h)
               PROVE  registered_names_[h] = loc[h] \/ Forgotten(h)
    BY DEF NotedIsRegistered, UpToDateIsRegistered
  <2>1. loc[h] # Offline /\ loc[h] \in Addresses /\ GetCurrentIPAddress(h) = loc[h]
    BY CurrentAddressIsLoc DEF LastSentIsNoted, TypeOK, NetworkTypeOK
  <2>2. sent_from[h] = loc[h]
    BY <2>1 DEF UpToDate, LastSentIsNoted
  <2>3. HasLastSent(h)
    BY DEF UpToDate, RegistrationInv, RegisteredInLoop, LoopState
  <2>4. QED
    BY <2>1, <2>2, <2>3, TypesAssumption DEF HasLastSent, Forgotten
<1>4. QED
  BY <1>1, <1>2, <1>3, TypeCorrect, RegistrationsOrdered, PTL DEF RestartSpec

-------------------------------------------------------------------------------
(* What the server's tables keep. *)

\* Only the server's handlers and its end touch the tables.
LEMMA TablesChange ==
  ASSUME [RestartNext]_vars
  PROVE  \/ UNCHANGED <<registered_names_, subscriptions_>>
         \/ \E m \in to_lookup : HandleLookup(m)
         \/ \E m \in to_regist : HandleRegistration(m)
         \/ ServerRestarts
<1> USE DEF serverVars, tableVars
<1>1. CASE UNCHANGED vars
  BY <1>1 DEF vars
<1>2. CASE \E h \in Names : DaemonThread(h) \/ AppThread(h) \/ Interrupt(h)
  BY <1>2 DEF DaemonThread, AppThread, Interrupt
<1>3. CASE Server \/ ServerCrash
  BY <1>3 DEF Server, ServerCrash, HandleRequests
<1>4. CASE DNS \/ Loss \/ \E h \in Names : Delivery(h)
  BY <1>4 DEF DNS, Loss, Delivery
<1>5. CASE \E h \in Names : MachineMoves(h) \/ MachineDisconnects(h) \/ Restart(h)
  BY <1>5 DEF MachineMoves, MachineDisconnects, Restart
<1>6. QED
  BY <1>1, <1>2, <1>3, <1>4, <1>5 DEF RestartNext, Next

\* Whatever is registered, looked up twice or lost, and whichever nodes are
\* restarted, a name the server has an address for is not without one again as
\* long as the server lives.
THEOREM RegistrationsStick == RestartSpec => RegistrationSticks
<1> DEFINE Sticks == crashes' = crashes => \A n \in Names :
             registered_names_[n] \in Addresses => registered_names_'[n] \in Addresses
<1>1. TypeOK /\ [RestartNext]_vars => [Sticks]_vars
  <2> SUFFICES ASSUME TypeOK, [RestartNext]_vars
               PROVE  Sticks
    OBVIOUS
  <2>1. CASE UNCHANGED <<registered_names_, subscriptions_>>
    BY <2>1
  <2>2. ASSUME NEW m \in to_lookup, HandleLookup(m)
        PROVE  Sticks
    BY <2>2 DEF HandleLookup, ChangeSubscription
  <2>3. ASSUME NEW m \in to_regist, HandleRegistration(m)
        PROVE  Sticks
    <3>1. m.from \in Addresses
      BY DEF TypeOK, NetworkTypeOK, Registration
    <3>2. registered_names_' = NamesAfterUpdate(m.name, m.from)
      BY <2>3 DEF HandleRegistration, UpdateAddress
    <3>3. QED
      BY <3>1, <3>2, TypesAssumption DEF NamesAfterUpdate, Known
  <2>4. CASE ServerRestarts
    BY <2>4 DEF ServerRestarts, TypeOK
  <2>5. QED
    BY <2>1, <2>2, <2>3, <2>4, TablesChange
<1>2. QED
  BY <1>1, TypeCorrect, PTL DEF RestartSpec, RegistrationSticks

LEMMA InitOnlyKnown ==
  ASSUME Init
  PROVE  SubscribedOnlyToKnown
  BY DEF Init, ServerInit, TablesInit, SubscribedOnlyToKnown

LEMMA NextOnlyKnown ==
  ASSUME TypeOK, SubscribedOnlyToKnown, [RestartNext]_vars
  PROVE  SubscribedOnlyToKnown'
<1> USE DEF SubscribedOnlyToKnown, Known
<1>1. CASE UNCHANGED <<registered_names_, subscriptions_>>
  BY <1>1
<1>2. ASSUME NEW m \in to_lookup, HandleLookup(m)
      PROVE  SubscribedOnlyToKnown'
  <2>1. UNCHANGED registered_names_
    BY <1>2 DEF HandleLookup, ChangeSubscription
  <2>2. \A n \in Names : subscriptions_'[n] # {} => subscriptions_[n] # {}
                                                   \/ Known(n)
    BY <1>2 DEF HandleLookup, ChangeSubscription, TypeOK, TablesTypeOK
  <2>3. QED
    BY <2>1, <2>2
<1>3. ASSUME NEW m \in to_regist, HandleRegistration(m)
      PROVE  SubscribedOnlyToKnown'
  <2>1. m.from \in Addresses
    BY DEF TypeOK, NetworkTypeOK, Registration
  <2>2. UNCHANGED subscriptions_
    BY <1>3 DEF HandleRegistration, UpdateAddress
  <2>3. registered_names_' = NamesAfterUpdate(m.name, m.from)
    BY <1>3 DEF HandleRegistration, UpdateAddress
  <2>4. QED
    BY <2>1, <2>2, <2>3, TypesAssumption DEF NamesAfterUpdate
<1>4. CASE ServerRestarts
  BY <1>4 DEF ServerRestarts
<1>5. QED
  BY <1>1, <1>2, <1>3, <1>4, TablesChange

\* No order of lookups, registrations and crashes subscribes anybody to a name
\* that the server does not hold.
THEOREM OnlyKnownHaveSubscribers == RestartSpec => []SubscribedOnlyToKnown
<1>1. QED
  BY InitOnlyKnown, NextOnlyKnown, TypeCorrect, PTL DEF RestartSpec

===============================================================================
