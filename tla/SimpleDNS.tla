------------------------------ MODULE SimpleDNS ------------------------------
(***************************************************************************)
(* The name server: a fixed table from logical addresses to rendezvous     *)
(* servers, filled by SimpleDNS::Start before it listens, and one request  *)
(* handler.  There is one rendezvous server, so the table is the set of    *)
(* names that have it.                                                     *)
(***************************************************************************)
EXTENDS UdpNetwork

CONSTANT DnsNames   \* the names Start() adds

ASSUME DnsAssumption == DnsNames \subseteq Names

LookupName(name) == IF name \in DnsNames THEN RendezvousServer ELSE NoAddr

HandleQuery ==
  \E q \in to_dns :
    /\ to_dns' = to_dns \ {q}
    /\ to_private' = to_private \cup {[host |-> q.by, thread |-> "app",
                                       inc |-> q.inc, to |-> q.from,
                                       text |-> LookupName(q.name)]}
    /\ UNCHANGED <<loc, moves, incarnation, to_regist, to_lookup, to_app,
                   to_peer, app_queue>>

===============================================================================
