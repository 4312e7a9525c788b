------------------------------ MODULE Intercept ------------------------------
(***************************************************************************)
(* Transparent interception of TCP and QUIC packets (WinDivert backend):   *)
(* traffic/shared/intercept/*.rs and the NAT table of traffic/shared/      *)
(* nat.rs, on top of the fake-IP store.                                    *)
(*                                                                         *)
(* Each capture kind has a thread of its own that takes packets from its   *)
(* driver queue one by one:                                                *)
(*   - requests to a fake address: looked up in the store, entered in the  *)
(*     NAT table, redirected to a local listener;                          *)
(*   - DNS over TCP: entered in the NAT table, redirected;                 *)
(*   - responses of the local listeners: the source is put back to what    *)
(*     the NAT table says;                                                 *)
(*   - QUIC packets to a fake address: dropped.                            *)
(* A cleanup task prunes the NAT table.  Clients, the local listeners and  *)
(* the clock are the environment.                                          *)
(***************************************************************************)
EXTENDS FakeIpStore

CONSTANTS
  Clients,         \* client endpoints: the NAT tables' keys (address, port)
  FamilyOf,        \* FamilyOf[c]: the address family of c, and so its NAT table
  Resolvers,       \* addresses of real DNS servers
  ProxyPort,       \* proxy_port, where the local HTTP listener is
  TlsPort,         \* tls_port, where the local TLS listener is
  EstablishedTtl,  \* NAT_ENTRY_ESTABLISHED_TTL
  ClosingTtl,      \* NAT_ENTRY_CLOSING_TTL
  MaxQueue         \* bound: packets in one driver queue

ASSUME InterceptAssumption ==
  /\ EstablishedTtl \in Nat
  /\ ClosingTtl \in Nat
  /\ ClosingTtl <= EstablishedTtl
  /\ MaxQueue \in Nat
  /\ FamilyOf \in [Clients -> Families]
  /\ \A f \in Families : Resolvers \cap Addrs(f) = {}

\* The destinations a client may connect to.
ListenerPorts == {ProxyPort, TlsPort}
WebPorts == {80, 443} \cup ListenerPorts
Destinations ==
  [family : Families, ip : (UNION {Addrs(f) : f \in Families}) \cup Resolvers,
   port : {53} \cup WebPorts]
NatEntries == [dst : Destinations, expires_at : Nat]
Sightings == [at : Nat, ttl : Nat]

\* No client, destination, NAT entry or sighting is None.
ASSUME NoneIsNoDestination ==
  /\ None \notin Clients /\ None \notin Destinations
  /\ None \notin NatEntries /\ None \notin Sightings

VARIABLES
  nat,        \* [c]: None or [dst, expires_at]
  conn,       \* [c]: the destination the client's socket is connected to, or None
  requests,   \* driver queue: packets to a fake address
  dns_tcp,    \* driver queue: packets to port 53
  responses,  \* driver queue: packets of the local listeners
  redirect,   \* the request thread: None or [packet, stamp, found]
  seen,       \* [c]: the last rewritten packet of c's connection, or None:
              \* when it was and the TTL it set
  out         \* what this step did with a packet, or None

interceptVars ==
  <<nat, conn, requests, dns_tcp, responses, redirect, seen>>
allVars == <<vars, interceptVars, out>>

\* The listener that handle_request_packet or handle_dns_tcp_packet sends to.
Target(dst) == CASE dst.port = 53 -> "dns" [] dst.port = 443 -> "tls" [] OTHER -> "proxy"

Destination(f, ip, port) == [family |-> f, ip |-> ip, port |-> port]
Packet(c, dst, closing) == [client |-> c, dst |-> dst, closing |-> closing]
Outcome(what, p, dst) == [what |-> what, client |-> p.client, of |-> p.dst, dst |-> dst]

nat_expiration(t, closing) == t + (IF closing THEN ClosingTtl ELSE EstablishedTtl)
NatEntry(dst, expires) == [dst |-> dst, expires_at |-> expires]
Seen(t, closing) == [at |-> t, ttl |-> nat_expiration(0, closing)]

InterceptInit ==
  /\ Init
  /\ nat = [c \in Clients |-> None]
  /\ conn = [c \in Clients |-> None]
  /\ requests = << >>
  /\ dns_tcp = << >>
  /\ responses = << >>
  /\ redirect = None
  /\ seen = [c \in Clients |-> None]
  /\ out = None

-----------------------------------------------------------------------------
(* The environment.                                                         *)

\* A client connects to an address that it was given in an answer whose TTL
\* still runs, or to a DNS server.
Connect(c) ==
  /\ conn[c] = None
  /\ \/ \E a \in answers, port \in WebPorts :
          /\ a.family = FamilyOf[c]
          /\ conn' = [conn EXCEPT ![c] = Destination(a.family, a.ip, port)]
     \/ \E ip \in Resolvers :
          conn' = [conn EXCEPT ![c] = Destination(FamilyOf[c], ip, 53)]
  /\ seen' = [seen EXCEPT ![c] = None]
  /\ out' = None
  /\ UNCHANGED <<vars, nat, requests, dns_tcp, responses, redirect>>

Send(c, closing) ==
  LET p == Packet(c, conn[c], closing) IN
  /\ conn[c] # None
  /\ \/ /\ conn[c].ip \in Resolvers
        /\ Len(dns_tcp) < MaxQueue
        /\ dns_tcp' = Append(dns_tcp, p)
        /\ UNCHANGED requests
     \/ /\ conn[c].ip \notin Resolvers
        /\ Len(requests) < MaxQueue
        /\ requests' = Append(requests, p)
        /\ UNCHANGED dns_tcp
  /\ out' = None
  /\ UNCHANGED <<vars, nat, conn, responses, redirect, seen>>

\* Both ends have closed and TIME_WAIT is over: none of the connection's packets
\* is left and the client's port is free for another one.
Release(c) ==
  /\ conn[c] # None
  /\ \A q \in {requests, dns_tcp, responses} : \A i \in DOMAIN q : q[i].client # c
  /\ redirect # None => redirect.packet.client # c
  /\ conn' = [conn EXCEPT ![c] = None]
  /\ out' = None
  /\ UNCHANGED <<vars, nat, requests, dns_tcp, responses, redirect, seen>>

\* The local listener that got the connection's packets answers.
Respond(c, closing) ==
  /\ conn[c] # None
  /\ seen[c] # None
  /\ Len(responses) < MaxQueue
  /\ responses' = Append(responses, Packet(c, conn[c], closing))
  /\ out' = None
  /\ UNCHANGED <<vars, nat, conn, requests, dns_tcp, redirect, seen>>

-----------------------------------------------------------------------------
(* The capture threads.                                                     *)

\* The clock value a handler has read by the time it gets the lock it works under.
ReadBefore == {t \in now - MaxSkew..now : t >= 0}

\* The packet p was rewritten at time t.
Rewritten(p, t) == seen' = [seen EXCEPT ![p.client] = Seen(t, p.closing)]

\* handle_request_packet: the next packet is taken.  One to a port of the local
\* listeners passes as it is, whatever its address (the driver's filter leaves it
\* alone for the same reason).  For the others the clock is read, and two locks are
\* taken, the store's and then the NAT table's, between which others work.
TakeRequest ==
  LET p == Head(requests) IN
  /\ redirect = None
  /\ requests # << >>
  /\ \/ /\ p.dst.port \in ListenerPorts
        /\ out' = Outcome("passed", p, p.dst)
        /\ UNCHANGED redirect
     \/ /\ p.dst.port \notin ListenerPorts
        /\ redirect' = [packet |-> p, stamp |-> now, found |-> FALSE]
        /\ out' = None
  /\ requests' = Tail(requests)
  /\ UNCHANGED <<vars, nat, conn, dns_tcp, responses, seen>>

\* The domain that the request's destination leads to.
Resolved(r) == Lookup(r.packet.dst.family, r.packet.dst.ip, r.stamp)

\* resolve_fake_domain prunes the store.  An address that leads to no domain is
\* none of the proxy's: the packet passes as it is.
ResolveRequest ==
  /\ redirect # None
  /\ ~redirect.found
  /\ domain_to_entry' = PrunedEntries(redirect.stamp)
  /\ ip_to_domain' = PrunedOwners(redirect.stamp)
  /\ \/ /\ Resolved(redirect) # None
        /\ redirect' = [redirect EXCEPT !.found = TRUE]
        /\ out' = None
     \/ /\ Resolved(redirect) = None
        /\ redirect' = None
        /\ out' = Outcome("passed", redirect.packet, redirect.packet.dst)
  /\ UNCHANGED <<next_candidate, now, task, answers>>
  /\ UNCHANGED <<nat, conn, requests, dns_tcp, responses, seen>>

\* Mutant: every entry is made to last for a closing connection only.
Redirect_ClosingTtl(p, t) ==
  /\ nat' = [nat EXCEPT ![p.client] = NatEntry(p.dst, nat_expiration(t, TRUE))]
  /\ Rewritten(p, t)
  /\ out' = Outcome("redirected", p, Target(p.dst))

\* upsert_nat_packet, and the packet goes to a local listener.
Redirect(p, t) ==
  /\ nat' = [nat EXCEPT ![p.client] = NatEntry(p.dst, nat_expiration(t, p.closing))]
  /\ Rewritten(p, t)
  /\ out' = Outcome("redirected", p, Target(p.dst))

RedirectRequest ==
  /\ redirect # None
  /\ redirect.found
  /\ Redirect(redirect.packet, redirect.stamp)
  /\ redirect' = None
  /\ UNCHANGED <<vars, conn, requests, dns_tcp, responses>>

handle_dns_tcp_packet ==
  /\ dns_tcp # << >>
  /\ \E at \in ReadBefore : Redirect(Head(dns_tcp), at)
  /\ dns_tcp' = Tail(dns_tcp)
  /\ UNCHANGED <<vars, conn, requests, responses, redirect>>

\* Mutant: the address is put back and the port is taken to be 443.
handle_proxy_response_packet_AssumesTls ==
  LET p == Head(responses)
      e == nat[p.client] IN
  /\ responses # << >>
  /\ e # None
  /\ e.expires_at > now
  /\ nat' = [nat EXCEPT ![p.client].expires_at = nat_expiration(now, p.closing)]
  /\ Rewritten(p, now)
  /\ out' = Outcome("restored", p, [e.dst EXCEPT !.port = 443])
  /\ responses' = Tail(responses)
  /\ UNCHANGED <<vars, conn, requests, dns_tcp, redirect>>

\* touch_nat_mapping: an expired entry is removed and the packet passes as it
\* is; a live one is extended and its destination becomes the packet's source.
handle_proxy_response_packet ==
  LET p == Head(responses)
      e == nat[p.client] IN
  /\ responses # << >>
  /\ \E at \in ReadBefore :
       \/ /\ e # None
          /\ e.expires_at > at
          /\ nat' = [nat EXCEPT ![p.client].expires_at = nat_expiration(at, p.closing)]
          /\ Rewritten(p, at)
          /\ out' = Outcome("restored", p, e.dst)
       \/ /\ ~(e # None /\ e.expires_at > at)
          /\ nat' = [nat EXCEPT ![p.client] = None]
          /\ out' = Outcome("leaked", p, p.dst)
          /\ UNCHANGED seen
  /\ responses' = Tail(responses)
  /\ UNCHANGED <<vars, conn, requests, dns_tcp, redirect>>

\* Mutant: the two dispositions are swapped.
handle_quic_packet_Swapped ==
  /\ \E f \in Families : \E ip \in Allocatable(f) :
       LET p == Packet(None, Destination(f, ip, 443), FALSE) IN
       out' = Outcome(IF Lookup(f, ip, now) # None THEN "passed" ELSE "dropped",
                      p, p.dst)
  /\ domain_to_entry' = PrunedEntries(now)
  /\ ip_to_domain' = PrunedOwners(now)
  /\ UNCHANGED <<next_candidate, now, task, answers, interceptVars>>

\* A QUIC packet to a fake address is dropped if the address leads to a domain.
handle_quic_packet ==
  /\ \E f \in Families, at \in ReadBefore : \E ip \in Allocatable(f) :
       LET p == Packet(None, Destination(f, ip, 443), FALSE) IN
       /\ out' = Outcome(IF Lookup(f, ip, at) # None THEN "dropped" ELSE "passed",
                         p, p.dst)
       /\ domain_to_entry' = PrunedEntries(at)
       /\ ip_to_domain' = PrunedOwners(at)
  /\ UNCHANGED <<next_candidate, now, task, answers, interceptVars>>

\* spawn_nat_cleanup_task: every NAT_TABLE_CLEANUP_INTERVAL.
prune_nat_table ==
  /\ nat' = [c \in Clients |->
       IF nat[c] # None /\ nat[c].expires_at <= now THEN None ELSE nat[c]]
  /\ out' = None
  /\ UNCHANGED <<vars, conn, requests, dns_tcp, responses, redirect, seen>>

\* The steps of the store and of its DNS tasks.
StoreStep ==
  /\ \/ \E t \in Tasks : Step(t)
     \/ Tick /\ (redirect # None => now - redirect.stamp < MaxSkew)
  /\ out' = None
  /\ UNCHANGED interceptVars

InterceptNext ==
  \/ \E c \in Clients :
       \/ Connect(c)
       \/ \E closing \in BOOLEAN : Send(c, closing) \/ Respond(c, closing)
       \/ Release(c)
  \/ TakeRequest
  \/ ResolveRequest
  \/ RedirectRequest
  \/ handle_dns_tcp_packet
  \/ handle_proxy_response_packet
  \/ handle_quic_packet
  \/ prune_nat_table
  \/ StoreStep

InterceptSpec == InterceptInit /\ [][InterceptNext]_allVars

-----------------------------------------------------------------------------
(* Properties.                                                              *)

\* A response that is rewritten gets the very destination its client connected to
\* as its source, although the NAT table knows only the client's port and still
\* has entries of earlier connections from that port.
RestoredToOrigin ==
  /\ out # None
  /\ out.what = "restored"
  => out.dst = conn[out.client]

\* A connection that is in use keeps its NAT entry: as long as its last
\* rewritten packet is not older than the TTL that this packet set, its
\* responses find the way back, whatever other packets and the cleanup do.
NatOutlivesUse ==
  \A c \in Clients :
    /\ conn[c] # None
    /\ seen[c] # None
    /\ now < seen[c].at + seen[c].ttl
    => /\ nat[c] # None
       /\ nat[c].dst = conn[c]
       /\ nat[c].expires_at > now

\* A response reaches its client with the listener's own address only if the
\* connection had been silent for as long as its last rewritten packet asked for:
\* nothing else, and no other connection, makes touch_nat_mapping miss.
OnlySilentFlowsLeak ==
  /\ out # None
  /\ out.what = "leaked"
  => seen[out.client].at + seen[out.client].ttl <= now

\* No packet to a fake address escapes while an answer with that address still runs:
\* QUIC is dropped and TCP is redirected, but for TCP to the ports of the proxy's own
\* listeners, which handle_request_packet passes without a look at the address.
AnsweredTrafficIsCaptured ==
  /\ out # None
  /\ out.what = "passed"
  /\ out.client # None => out.of.port \notin ListenerPorts
  => \A a \in answers : now + MaxSkew < a.until =>
       ~(a.family = out.of.family /\ a.ip = out.of.ip)

\* "WinDivert rewrites captured flows to the local transparent proxy listeners":
\* once a connection has been redirected its later packets are too.
FlowsStayRedirected ==
  /\ out # None
  /\ out.what = "passed"
  /\ out.client # None
  => seen[out.client] = None
=============================================================================
