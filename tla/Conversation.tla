----------------------------- MODULE Conversation -----------------------------
(***************************************************************************)
(* Properties of the messages two EchoApps exchange, each its keyword.     *)
(***************************************************************************)
EXTENDS PermanentIP, FiniteSets

\* Where the keyword of h is under way, in flight or in a queue, copy by copy.
InFlight(h) ==
  UNION {{d} \X (1 .. to_peer[d]) : d \in {e \in BagToSet(to_peer) : e.text = h}}
InQueues(h) ==
  UNION {{n} \X {i \in DOMAIN app_queue[n] : app_queue[n][i].text = h} : n \in Names}

Copies(h) == Cardinality(InFlight(h)) + Cardinality(InQueues(h))

\* A second copy of a keyword has one of two origins only: a daemon resent it, or
\* its application was started again while the former one's was under way.
\* Sending, echoing, noting and taking off the queue multiply nothing, in whatever
\* order the two threads of the two nodes do it and whatever is lost meanwhile.
CopiesAreResends ==
  \A h \in Names :
    Copies(h) + (IF received_[h] THEN 1 ELSE 0) <= 1 + resent[h] + incarnation[h]

\* Both applications have got through RegisterPeer, each with the address of the
\* other.
InContact(h) ==
  /\ {h, PeerOf[h]} \subseteq {i \in Names : app_thread[i] \in ConnectedState}
  /\ app_sockets_[h] = loc[PeerOf[h]] /\ app_sockets_[PeerOf[h]] = loc[h]

\* MobileNode.h says that the application reports a message received "so that it can
\* free it from the buffer pool and not resend".  So no daemon of two applications in
\* contact picks a keyword for resending that is back already.  They do: README,
\* section 5.
AcknowledgedNotResent ==
  [][\A h \in Names :
       received_[h] /\ InContact(h) /\ h \in unsent'[h] => h \in unsent[h]]_vars

\* MobileNode.h has every message sent packed "into a buffer" to "resend if
\* necessary": when a move was pushed to everybody and the two are in contact again,
\* a keyword that is not back is under way.  It may be gone: README, section 5.
NoKeywordLost ==
  \A h \in Names :
    moves > 0 /\ Settled /\ InContact(h) => received_[h] \/ Copies(h) > 0

\* FairSpec, and the network overtakes no keyword and no notice for ever.
Delivered(h, text) ==
  /\ Delivery(h)
  /\ app_queue'[h] # <<>> /\ app_queue'[h][Len(app_queue'[h])].text = text

ChatSpec ==
  /\ FairSpec
  /\ \A h \in Names : \A text \in Names \cup Addresses :
       WF_vars(Delivered(h, text))

\* A keyword under way while the two are in contact comes back, if both processes
\* stay alive: no step of the two loops and the two daemons swallows it.
KeywordReturns ==
  \A h \in Chatting :
    Copies(h) > 0 /\ InContact(h)
      ~> received_[h] \/ ~Running(h) \/ ~Running(PeerOf[h])
===============================================================================
