------------------------ MODULE SimpleRendezvousServer ------------------------
(***************************************************************************)
(* The request handlers of the rendezvous server: SimpleRendezvousServer:: *)
(* HandleRequests, one datagram of one of the two listeners at a time.     *)
(* The server is one thread, so a call of HandleRequests is one step.      *)
(***************************************************************************)
EXTENDS RendezvousTables, UdpNetwork

CONSTANT MaxCrashes   \* bound: how often the server is killed and started again

ASSUME ServerAssumption == MaxCrashes \in Nat

VARIABLES
  handled,   \* history: requests handled, the order of the notices sent
  crashes    \* how often the server was killed

serverVars == <<tableVars, handled, crashes>>

ServerInit == TablesInit /\ handled = 0 /\ crashes = 0

Noted(notices) == {[to |-> n.to, port |-> n.port, text |-> n.text,
                    seq |-> handled] : n \in notices}

\* A lookup "subscriber|subscribee": the reply goes to the socket it came from.
HandleLookup(m) ==
  /\ m \in to_lookup
  /\ to_lookup' = to_lookup \ {m}
  /\ ChangeSubscription(<<m.subscriber, m.port>>, m.subscribee)
  /\ to_app' = to_app \cup Noted({[to |-> m.from, port |-> m.port,
                                   text |-> LookupResult(m.subscribee)]})
  /\ handled' = handled + 1
  /\ UNCHANGED <<loc, moves, incarnation, to_regist, to_dns, to_private, to_peer,
                 app_queue, crashes>>

\* Wrong: only a name's first registration is answered.
HandleRegistrationOnce(m) ==
  /\ m \in to_regist
  /\ to_regist' = to_regist \ {m}
  /\ UpdateAddress(m.name, m.from)
  /\ to_app' = to_app \cup Noted({u \in Updates(m.name, m.from) : u.to # NoAddr})
  /\ handled' = handled + 1
  /\ to_private' = IF Known(m.name) THEN to_private
                   ELSE to_private \cup {[host |-> m.name, thread |-> "daemon",
                                          inc |-> m.inc, to |-> m.from,
                                          text |-> m.from]}
  /\ UNCHANGED <<loc, moves, incarnation, to_lookup, to_dns, to_peer, app_queue,
                 crashes>>

\* A registration: the name now belongs to the address the datagram came from.
\* Updates for a subscriber without an address go to 0.0.0.0, the server's own
\* lookup port, where they look up a name nobody has.
HandleRegistration(m) ==
  /\ m \in to_regist
  /\ to_regist' = to_regist \ {m}
  /\ UpdateAddress(m.name, m.from)
  /\ to_app' = to_app \cup Noted({u \in Updates(m.name, m.from) : u.to # NoAddr})
  /\ handled' = handled + 1
  /\ to_private' = to_private \cup {[host |-> m.name, thread |-> "daemon",
                                     inc |-> m.inc, to |-> m.from,
                                     text |-> m.from]}
  /\ UNCHANGED <<loc, moves, incarnation, to_lookup, to_dns, to_peer, app_queue,
                 crashes>>

\* The server is killed (killall -9) and started again.  Its tables were in
\* memory; some of the requests under way find nobody listening.
ServerRestarts ==
  /\ crashes < MaxCrashes
  /\ crashes' = crashes + 1
  /\ registered_names_' = [n \in Names |-> Absent]
  /\ subscriptions_' = [n \in Names |-> {}]
  /\ update_sockets' = 0
  /\ \E kept \in SUBSET to_regist : to_regist' = kept
  /\ \E kept \in SUBSET to_lookup : to_lookup' = kept
  /\ UNCHANGED <<handled, loc, moves, incarnation, to_dns, to_private, to_app,
                 to_peer, app_queue>>

HandleRequests ==
  \/ \E m \in to_lookup : HandleLookup(m)
  \/ \E m \in to_regist : HandleRegistration(m)

===============================================================================
