--------------------------- MODULE SimpleMobileNode ---------------------------
(***************************************************************************)
(* The mobile node agent: the daemon thread that SimpleMobileNode::Start   *)
(* runs, and the methods the application's own thread calls on it          *)
(* (RegisterPeer, MessageSent, MessageReceived).  Both threads share       *)
(* app_sockets_ and app_socket_messages_, without a lock.                  *)
(*                                                                         *)
(* An application has one socket, so the maps keyed by socket hold one     *)
(* entry per node.  A call of ConnectToServer is two steps, the send and   *)
(* the return of the blocking recvfrom() that follows it.  Handling an     *)
(* update in PollSubscriptions is a step for every access to what the      *)
(* application's thread uses too: the peek, the taking, the writing of the *)
(* peer's address, the copying of the buffer, and each datagram resent.    *)
(***************************************************************************)
EXTENDS UdpNetwork

CONSTANTS
  PeerOf,     \* PeerOf[h]: the peer the application of node h talks to
  AppPort,    \* the port application sockets are bound to
  PeekLens,   \* what PollSubscriptions may find in the uninitialized
              \* server_size: "full" (room for the sender's address),
              \* "short" (it comes back cut) or "negative" (EINVAL)
  Failing     \* the nodes on which system calls may fail, for want of memory
              \* or descriptors

ASSUME MobileNodeAssumption ==
  /\ PeerOf \in [Names -> Names]
  /\ AppPort \in Ports
  /\ PeekLens \subseteq {"full", "short", "negative"}
  /\ Failing \subseteq Names

VARIABLES
  daemon,                  \* where the daemon thread of each node is
  app_thread,              \* where its application's thread is
  last_known_ip_address_,
  app_sockets_,            \* the peer's address, shared with the application
  app_socket_messages_,    \* messages to resend when the peer moves
  buffer, unsent,          \* of PollSubscriptions: what was received, and the
                           \* copy of the messages that are still to be resent
  sent_from,               \* history: where the last registration came from
  resent                   \* history: how often daemons resent a text

pollVars == <<buffer, unsent, resent>>
nodeVars == <<daemon, app_thread, last_known_ip_address_, app_sockets_,
              app_socket_messages_, sent_from, pollVars>>

PollingState == {"polling", "taking", "writing", "copying", "resending", "noting"}
LoopState == PollingState \cup {"asleep"}
DaemonState == LoopState \cup {"start", "registering", "updating", "stopped"}
RegisterPeerState == {"query", "dns_wait", "lookup", "rs_wait", "found", "null"}
ConnectedState == {"found", "receive", "take", "echoed", "send", "sent"}
AppState == RegisterPeerState \cup ConnectedState \cup {"exited"}

MobileNodeTypeOK ==
  /\ daemon \in [Names -> DaemonState]
  /\ app_thread \in [Names -> AppState]
  /\ last_known_ip_address_ \in [Names -> Addresses \cup {Absent}]
  /\ app_sockets_ \in [Names -> Addresses \cup {Absent, NoAddr}]
  /\ app_socket_messages_ \in [Names -> SUBSET Names]
  /\ buffer \in [Names -> Addresses \cup Names \cup {Absent, NoAddr}]
  /\ unsent \in [Names -> SUBSET Names]
  /\ sent_from \in [Names -> Addresses \cup {Absent, Offline}]
  /\ resent \in [Names -> Nat]
  /\ \A h \in Names :
       app_thread[h] \in ConnectedState \/ daemon[h] \in {"copying", "resending"}
         => app_sockets_[h] # Absent

\* The constructor has noted the current address, the daemon thread is created,
\* and the application is about to open its socket and to call RegisterPeer.
MobileNodeInit ==
  /\ daemon = [h \in Names |-> "start"]
  /\ app_thread = [h \in Names |-> "query"]
  /\ last_known_ip_address_ = [h \in Names |-> GetCurrentIPAddress(h)]
  /\ app_sockets_ = [h \in Names |-> Absent]
  /\ app_socket_messages_ = [h \in Names |-> {}]
  /\ buffer = [h \in Names |-> Absent]
  /\ unsent = [h \in Names |-> {}]
  /\ sent_from = [h \in Names |-> Absent]
  /\ resent = [h \in Names |-> 0]

-------------------------------------------------------------------------------
(* The daemon thread. *)

\* ConnectToServer(rendezvous_server_, rendezvous_port_, logical_address_), up
\* to the recvfrom() in which the daemon then waits, with no timeout.
SendRegistration(h, waiting) ==
  /\ to_regist' = Sent(h, to_regist,
                       [name |-> h, from |-> loc[h], inc |-> incarnation[h]])
  /\ sent_from' = [sent_from EXCEPT ![h] = loc[h]]
  /\ daemon' = [daemon EXCEPT ![h] = waiting]
  /\ UNCHANGED <<loc, moves, incarnation, to_lookup, to_dns, to_private, to_app,
                 to_peer, app_queue, app_thread, last_known_ip_address_,
                 app_sockets_, app_socket_messages_, pollVars>>

\* Start(): register before the loop.
FirstRegistration(h) ==
  /\ daemon[h] = "start"
  /\ SendRegistration(h, "registering")

\* Wrong: the wait for the reply may time out.
RegistrationAckedOrNot(h) ==
  /\ daemon[h] \in {"registering", "updating"}
  /\ daemon' = [daemon EXCEPT ![h] =
                  IF @ = "registering" THEN "asleep" ELSE "polling"]
  /\ UNCHANGED <<loc, moves, incarnation, to_regist, to_lookup, to_dns, to_app,
                 to_peer, app_queue, app_thread, last_known_ip_address_,
                 app_sockets_, app_socket_messages_, sent_from, to_private, pollVars>>

\* The server's reply ends the wait; what it says is not looked at.
RegistrationAcked(h) ==
  /\ daemon[h] \in {"registering", "updating"}
  /\ \E r \in RepliesFor(h, "daemon") : to_private' = to_private \ {r}
  /\ daemon' = [daemon EXCEPT ![h] =
                  IF @ = "registering" THEN "asleep" ELSE "polling"]
  /\ UNCHANGED <<loc, moves, incarnation, to_regist, to_lookup, to_dns, to_app,
                 to_peer, app_queue, app_thread, last_known_ip_address_,
                 app_sockets_, app_socket_messages_, sent_from, pollVars>>

\* Wrong: the update is sent and not waited for.
WakeMovedUnacked(h) ==
  /\ daemon[h] = "asleep"
  /\ last_known_ip_address_[h] # GetCurrentIPAddress(h)
  /\ SendRegistration(h, "polling")

\* sleep(1) is over and the address is not the one last noted.
WakeMoved(h) ==
  /\ daemon[h] = "asleep"
  /\ last_known_ip_address_[h] # GetCurrentIPAddress(h)
  /\ SendRegistration(h, "updating")

DaemonGoto(h, next) ==
  /\ daemon' = [daemon EXCEPT ![h] = next]
  /\ UNCHANGED <<loc, moves, incarnation, to_regist, to_lookup, to_dns,
                 to_private, to_app, app_thread, app_socket_messages_, sent_from>>

WakeUnmoved(h) ==
  /\ daemon[h] = "asleep"
  /\ last_known_ip_address_[h] = GetCurrentIPAddress(h)
  /\ DaemonGoto(h, "polling")
  /\ UNCHANGED <<to_peer, app_queue, last_known_ip_address_, app_sockets_, pollVars>>

\* ConnectToServer gets no socket and returns "" at once; nobody looks, and the
\* daemon goes on as if it had registered.
RegistrationFails(h) ==
  /\ h \in Failing
  /\ \/ daemon[h] = "start" /\ DaemonGoto(h, "asleep")
     \/ /\ daemon[h] = "asleep"
        /\ last_known_ip_address_[h] # GetCurrentIPAddress(h)
        /\ DaemonGoto(h, "polling")
  /\ UNCHANGED <<to_peer, app_queue, last_known_ip_address_, app_sockets_, pollVars>>

\* The socket is registered and its oldest datagram can be peeked at.
Peeked(h) == app_sockets_[h] # Absent /\ app_queue[h] # <<>>
FromServer(h) == Head(app_queue[h]).from = RendezvousServer

\* Nothing there, a datagram of the peer's, or one whose sender was cut off.
PollNothing(h) ==
  /\ daemon[h] = "polling"
  /\ Peeked(h) => \/ "full" \in PeekLens /\ ~FromServer(h)
                  \/ "short" \in PeekLens
  /\ DaemonGoto(h, "noting")
  /\ UNCHANGED <<to_peer, app_queue, last_known_ip_address_, app_sockets_, pollVars>>

\* A datagram of the server's.
PeekUpdate(h) ==
  /\ daemon[h] = "polling"
  /\ Peeked(h) /\ "full" \in PeekLens /\ FromServer(h)
  /\ DaemonGoto(h, "taking")
  /\ UNCHANGED <<to_peer, app_queue, last_known_ip_address_, app_sockets_, pollVars>>

\* Wrong: the datagram peeked at is not taken from the queue.
TakeUpdateKept(h) ==
  /\ daemon[h] = "taking"
  /\ app_queue[h] # <<>>
  /\ buffer' = [buffer EXCEPT ![h] = Head(app_queue[h]).text]
  /\ DaemonGoto(h, "writing")
  /\ UNCHANGED <<to_peer, app_queue, last_known_ip_address_, app_sockets_, unsent, resent>>

\* The second recvfrom() takes what is first in the queue by then.
TakeUpdate(h) ==
  /\ daemon[h] = "taking"
  /\ app_queue[h] # <<>>
  /\ buffer' = [buffer EXCEPT ![h] = Head(app_queue[h]).text]
  /\ app_queue' = [app_queue EXCEPT ![h] = Tail(@)]
  /\ DaemonGoto(h, "writing")
  /\ UNCHANGED <<to_peer, last_known_ip_address_, app_sockets_, unsent, resent>>

\* Wrong: the peer's address is left alone.
WriteAddressNot(h) ==
  /\ daemon[h] = "writing"
  /\ buffer' = [buffer EXCEPT ![h] = Absent]
  /\ DaemonGoto(h, "copying")
  /\ UNCHANGED <<to_peer, app_queue, last_known_ip_address_, app_sockets_, unsent, resent>>

\* peer->sin_addr.s_addr = IPStringToInt(string(buffer))
WriteAddress(h) ==
  /\ daemon[h] = "writing"
  /\ app_sockets_' = [app_sockets_ EXCEPT ![h] = IPStringToInt(buffer[h])]
  /\ buffer' = [buffer EXCEPT ![h] = Absent]
  /\ DaemonGoto(h, "copying")
  /\ UNCHANGED <<to_peer, app_queue, last_known_ip_address_, unsent, resent>>

CopyMessages(h) ==
  /\ daemon[h] = "copying"
  /\ unsent' = [unsent EXCEPT ![h] = app_socket_messages_[h]]
  /\ DaemonGoto(h, "resending")
  /\ UNCHANGED <<to_peer, app_queue, last_known_ip_address_, app_sockets_, buffer, resent>>

Resend(h) ==
  /\ daemon[h] = "resending"
  /\ \E text \in unsent[h] :
       /\ to_peer' = SentToPeer(h, app_sockets_[h], text)
       /\ unsent' = [unsent EXCEPT ![h] = @ \ {text}]
       /\ resent' = [resent EXCEPT ![text] = @ + 1]
  /\ DaemonGoto(h, "resending")
  /\ UNCHANGED <<app_queue, last_known_ip_address_, app_sockets_, buffer>>

Resent(h) ==
  /\ daemon[h] = "resending" /\ unsent[h] = {}
  /\ DaemonGoto(h, "noting")
  /\ UNCHANGED <<to_peer, app_queue, last_known_ip_address_, app_sockets_, pollVars>>

\* recvfrom() rejects the length, or fails: ShutDown, and the loop ends.
PollError(h) ==
  /\ daemon[h] = "polling"
  /\ \/ Peeked(h) /\ "negative" \in PeekLens
     \/ app_sockets_[h] # Absent /\ h \in Failing
  /\ DaemonGoto(h, "stopped")
  /\ UNCHANGED <<to_peer, app_queue, last_known_ip_address_, app_sockets_, pollVars>>

PollSubscriptions(h) ==
  \/ PollNothing(h) \/ PollError(h)
  \/ PeekUpdate(h) \/ TakeUpdate(h) \/ WriteAddress(h)
  \/ CopyMessages(h) \/ Resend(h) \/ Resent(h)

\* last_known_ip_address_ = GetCurrentIPAddress(), and the next round begins.
NoteAddress(h) ==
  /\ daemon[h] = "noting"
  /\ last_known_ip_address_' =
       [last_known_ip_address_ EXCEPT ![h] = GetCurrentIPAddress(h)]
  /\ DaemonGoto(h, "asleep")
  /\ UNCHANGED <<to_peer, app_queue, app_sockets_, pollVars>>

Daemon(h) ==
  \/ FirstRegistration(h)
  \/ RegistrationAcked(h)
  \/ WakeMoved(h)
  \/ WakeUnmoved(h)
  \/ RegistrationFails(h)
  \/ PollSubscriptions(h)
  \/ NoteAddress(h)

-------------------------------------------------------------------------------
(* RegisterPeer, in the application's thread. *)

AppGoto(h, next) == app_thread' = [app_thread EXCEPT ![h] = next]

\* ConnectToServer(dns_server_, ...) on a vanilla socket.
QueryDns(h) ==
  /\ app_thread[h] = "query"
  /\ to_dns' = Sent(h, to_dns, [name |-> PeerOf[h], by |-> h, from |-> loc[h],
                                inc |-> incarnation[h]])
  /\ AppGoto(h, "dns_wait")
  /\ UNCHANGED <<loc, moves, incarnation, to_regist, to_lookup, to_private,
                 to_app, to_peer, app_queue, daemon, last_known_ip_address_,
                 app_sockets_, app_socket_messages_, sent_from, pollVars>>

\* Without a socket ConnectToServer returns "" at once.
QueryFails(h) ==
  /\ app_thread[h] = "query"
  /\ h \in Failing
  /\ AppGoto(h, "null")
  /\ UNCHANGED <<networkVars, daemon, last_known_ip_address_, app_sockets_,
                 app_socket_messages_, sent_from, pollVars>>

\* The empty string is a failure: RegisterPeer returns NULL.
DnsReplied(h) ==
  /\ app_thread[h] = "dns_wait"
  /\ \E r \in RepliesFor(h, "app") :
       /\ to_private' = to_private \ {r}
       /\ AppGoto(h, IF r.text = NoAddr THEN "null" ELSE "lookup")
  /\ UNCHANGED <<loc, moves, incarnation, to_regist, to_lookup, to_dns, to_app,
                 to_peer, app_queue, daemon, last_known_ip_address_,
                 app_sockets_, app_socket_messages_, sent_from, pollVars>>

\* ConnectToServer(rs_addr, ..., app_socket): sent from the application socket.
LookupPeer(h) ==
  /\ app_thread[h] = "lookup"
  /\ to_lookup' = Sent(h, to_lookup,
                       [subscriber |-> h, port |-> AppPort,
                        subscribee |-> PeerOf[h], from |-> loc[h],
                        inc |-> incarnation[h]])
  /\ AppGoto(h, "rs_wait")
  /\ UNCHANGED <<loc, moves, incarnation, to_regist, to_dns, to_private, to_app,
                 to_peer, app_queue, daemon, last_known_ip_address_,
                 app_sockets_, app_socket_messages_, sent_from, pollVars>>

\* Wrong: the peer found is not entered into app_sockets_.
LookupRepliedUnregistered(h) ==
  /\ app_thread[h] = "rs_wait"
  /\ app_queue[h] # <<>>
  /\ app_queue' = [app_queue EXCEPT ![h] = Tail(@)]
  /\ AppGoto(h, IF Head(app_queue[h]).text = NoAddr THEN "null" ELSE "found")
  /\ UNCHANGED <<loc, moves, incarnation, flightVars, daemon,
                 last_known_ip_address_, app_sockets_, app_socket_messages_,
                 sent_from, pollVars>>

\* The next datagram on the application socket is taken for the server's reply,
\* whoever sent it.  The empty string is a failure again.
LookupReplied(h) ==
  /\ app_thread[h] = "rs_wait"
  /\ app_queue[h] # <<>>
  /\ app_queue' = [app_queue EXCEPT ![h] = Tail(@)]
  /\ LET peer_loc == Head(app_queue[h]).text
     IN  IF peer_loc = NoAddr
           THEN AppGoto(h, "null") /\ UNCHANGED app_sockets_
           ELSE /\ AppGoto(h, "found")
                /\ app_sockets_' = [app_sockets_ EXCEPT ![h] = IPStringToInt(peer_loc)]
  /\ UNCHANGED <<loc, moves, incarnation, flightVars, daemon,
                 last_known_ip_address_, app_socket_messages_, sent_from, pollVars>>

RegisterPeer(h) ==
  \/ QueryDns(h)
  \/ QueryFails(h)
  \/ DnsReplied(h)
  \/ LookupPeer(h)
  \/ LookupReplied(h)

-------------------------------------------------------------------------------
MessageSent(h, message) ==
  app_socket_messages_' = [app_socket_messages_ EXCEPT ![h] = @ \cup {message}]

\* It erases the message from a copy of the buffer.
MessageReceived(h, message) == UNCHANGED app_socket_messages_

===============================================================================
