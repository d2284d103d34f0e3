------------------------------- MODULE EchoApp -------------------------------
(***************************************************************************)
(* The demonstration application: ConnectToPeer with its retries, and then *)
(* the loop of Start(), which echoes the peer's messages and keeps one     *)
(* message of its own, keyword_, going round.  The keyword of node h is h  *)
(* itself: no two applications have the same.                              *)
(*                                                                         *)
(* A peek and the recvfrom() after it are two steps, and so are a sendto() *)
(* and the MessageSent() after it, because the daemon thread may poll in   *)
(* between.                                                                *)
(***************************************************************************)
EXTENDS SimpleMobileNode

CONSTANTS
  MaxAttempts,  \* MAX_ATTEMPTS
  Chatting,     \* the nodes whose application gets past sleep(5) to its loop
  Interruptible \* the nodes whose process may get a SIGINT

ASSUME EchoAppAssumption ==
  /\ MaxAttempts \in Nat
  /\ Chatting \subseteq Names
  /\ Interruptible \subseteq Names

VARIABLES
  backoff,      \* failed attempts of ConnectToPeer
  received_,    \* our own message is back
  sending       \* the message sent but not yet noted by MessageSent

appVars == <<backoff, received_, sending>>

EchoAppTypeOK ==
  /\ backoff \in [Names -> 0 .. MaxAttempts]
  /\ received_ \in [Names -> BOOLEAN]
  /\ sending \in [Names -> Names \cup {Absent}]
  /\ \A h \in Names : app_thread[h] \in {"echoed", "sent"} => sending[h] # Absent

EchoAppInit ==
  /\ backoff = [h \in Names |-> 0]
  /\ received_ = [h \in Names |-> TRUE]
  /\ sending = [h \in Names |-> Absent]

-------------------------------------------------------------------------------
(* ConnectToPeer *)

\* Start returns, and the process ends with all its threads and sockets; the
\* servers are not told.
ProcessEnds(h) ==
  /\ AppGoto(h, "exited")
  /\ daemon' = [daemon EXCEPT ![h] = "stopped"]
  /\ app_queue' = [app_queue EXCEPT ![h] = <<>>]
  /\ UNCHANGED <<loc, moves, incarnation, flightVars, last_known_ip_address_,
                 app_sockets_, app_socket_messages_, sent_from, pollVars, appVars>>

\* socket() or bind() fails, before RegisterPeer is called the first time.
\* ShutDown, and Start returns; the daemon may have registered already.
BindFails(h) ==
  /\ app_thread[h] = "query"
  /\ backoff[h] = 0
  /\ ProcessEnds(h)

\* sleep(backoff++), then call RegisterPeer again.
Retry(h) ==
  /\ app_thread[h] = "null"
  /\ backoff[h] < MaxAttempts
  /\ backoff' = [backoff EXCEPT ![h] = @ + 1]
  /\ AppGoto(h, "query")
  /\ UNCHANGED <<networkVars, daemon, last_known_ip_address_, app_sockets_,
                 app_socket_messages_, sent_from, pollVars, received_, sending>>

\* "Peer lookup failed": ShutDown, and Start returns.
GiveUp(h) ==
  /\ app_thread[h] = "null"
  /\ backoff[h] = MaxAttempts
  /\ ProcessEnds(h)

\* SIGINT kills the process until HandleSignalInterrupts is called; in the loop
\* it ends the round and then the loop.
Interrupted(h) ==
  /\ h \in Interruptible
  /\ app_thread[h] \notin {"take", "echoed", "send", "sent", "exited"}
  /\ ProcessEnds(h)

\* ConnectToPeer is done; sleep(5), however far the peer is, and the loop begins.
Connected(h) ==
  /\ app_thread[h] = "found"
  /\ h \in Chatting
  /\ AppGoto(h, "receive")
  /\ UNCHANGED <<networkVars, daemon, last_known_ip_address_, app_sockets_,
                 app_socket_messages_, sent_from, pollVars, appVars>>

-------------------------------------------------------------------------------
(* The loop of Start() *)

loopUnchanged == <<loc, moves, incarnation, to_regist, to_lookup, to_dns,
                   to_private, to_app, daemon, last_known_ip_address_,
                   app_sockets_, sent_from, pollVars, backoff>>

\* PrintReceivedData finds nothing, or a datagram of the server's, which it
\* leaves to the daemon.
ReceiveNothing(h) ==
  /\ app_thread[h] = "receive"
  /\ app_queue[h] # <<>> => FromServer(h)
  /\ AppGoto(h, "send")
  /\ UNCHANGED <<loopUnchanged, to_peer, app_queue, app_socket_messages_,
                 received_, sending>>

\* The peek fails: ShutDown closes the socket and tells the daemon to stop, the
\* round's SendMessage finds no socket, and Start returns.
ReceiveError(h) ==
  /\ app_thread[h] = "receive"
  /\ h \in Failing
  /\ ProcessEnds(h)

\* Wrong: nobody looks who sent it.
PeekAnything(h) ==
  /\ app_thread[h] = "receive"
  /\ app_queue[h] # <<>>
  /\ AppGoto(h, "take")
  /\ UNCHANGED <<loopUnchanged, to_peer, app_queue, app_socket_messages_,
                 received_, sending>>

\* A datagram that is not the server's.
PeekMessage(h) ==
  /\ app_thread[h] = "receive"
  /\ app_queue[h] # <<>> /\ ~FromServer(h)
  /\ AppGoto(h, "take")
  /\ UNCHANGED <<loopUnchanged, to_peer, app_queue, app_socket_messages_,
                 received_, sending>>

\* The second recvfrom() takes what is first in the queue by then.
TakeMessage(h) ==
  /\ app_thread[h] = "take"
  /\ app_queue[h] # <<>>
  /\ app_queue' = [app_queue EXCEPT ![h] = Tail(@)]

\* Our own message is back: allow the next one.
ReceiveOwn(h) ==
  /\ TakeMessage(h)
  /\ Head(app_queue[h]).text = h
  /\ MessageReceived(h, h)
  /\ received_' = [received_ EXCEPT ![h] = TRUE]
  /\ AppGoto(h, "send")
  /\ UNCHANGED <<loopUnchanged, to_peer, sending>>

\* Wrong: SendMessage sends nothing while our own message is out.
ReceiveAndEchoUnlessWaiting(h) ==
  /\ TakeMessage(h)
  /\ Head(app_queue[h]).text # h
  /\ LET message == Head(app_queue[h])
     IN  /\ to_peer' = IF received_[h] THEN SentToPeer(h, message.from, message.text)
                                      ELSE to_peer
         /\ sending' = [sending EXCEPT ![h] = message.text]
  /\ AppGoto(h, IF received_[h] THEN "echoed" ELSE "send")
  /\ UNCHANGED <<loopUnchanged, app_socket_messages_, received_>>

\* Somebody else's message: send it back to where it came from.
ReceiveAndEcho(h) ==
  /\ TakeMessage(h)
  /\ Head(app_queue[h]).text # h
  /\ LET message == Head(app_queue[h])
     IN  /\ MessageReceived(h, message.text)
         /\ to_peer' = SentToPeer(h, message.from, message.text)
         /\ sending' = [sending EXCEPT ![h] = message.text]
  /\ AppGoto(h, "echoed")
  /\ UNCHANGED <<loopUnchanged, received_>>

\* Wrong: received_ is not reset, so the next round sends again.
SendKeywordAgain(h) ==
  /\ app_thread[h] = "send"
  /\ received_[h]
  /\ to_peer' = SentToPeer(h, app_sockets_[h], h)
  /\ sending' = [sending EXCEPT ![h] = h]
  /\ AppGoto(h, "sent")
  /\ UNCHANGED <<loopUnchanged, app_queue, app_socket_messages_, received_>>

\* SendMessage(keyword_), if the previous one is back.
SendKeyword(h) ==
  /\ app_thread[h] = "send"
  /\ received_[h]
  /\ received_' = [received_ EXCEPT ![h] = FALSE]
  /\ to_peer' = SentToPeer(h, app_sockets_[h], h)
  /\ sending' = [sending EXCEPT ![h] = h]
  /\ AppGoto(h, "sent")
  /\ UNCHANGED <<loopUnchanged, app_queue, app_socket_messages_>>

SkipSend(h) ==
  /\ app_thread[h] = "send"
  /\ ~received_[h]
  /\ AppGoto(h, "receive")
  /\ UNCHANGED <<loopUnchanged, to_peer, app_queue, app_socket_messages_,
                 received_, sending>>

\* The MessageSent() at the end of SendMessage; after an echo, the "HACK" call
\* of MessageReceived follows.
NoteSent(h) ==
  /\ app_thread[h] \in {"echoed", "sent"}
  /\ MessageSent(h, sending[h])
  /\ sending' = [sending EXCEPT ![h] = Absent]
  /\ AppGoto(h, IF app_thread[h] = "echoed" THEN "send" ELSE "receive")
  /\ UNCHANGED <<loopUnchanged, to_peer, app_queue, received_>>

App(h) ==
  \/ BindFails(h)
  \/ Retry(h)
  \/ GiveUp(h)
  \/ Connected(h)
  \/ ReceiveNothing(h)
  \/ ReceiveError(h)
  \/ PeekMessage(h)
  \/ ReceiveOwn(h)
  \/ ReceiveAndEcho(h)
  \/ SendKeyword(h)
  \/ SkipSend(h)
  \/ NoteSent(h)

===============================================================================
