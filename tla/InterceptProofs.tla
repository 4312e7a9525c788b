--------------------------- MODULE InterceptProofs ---------------------------
(***************************************************************************)
(* The safety properties of Intercept, for any ranges, clients, TTLs,      *)
(* delays and queue lengths.                                               *)
(*                                                                         *)
(* The inductive invariant is the store's (IInv of FakeIpStoreProofs, which*)
(* the capture threads keep as well) and                                   *)
(*   - InterceptTypes;                                                     *)
(*   - Flight: a packet under way belongs to the connection its client has *)
(*     open now, and a response to one that has been rewritten;            *)
(*   - RedirectInv: the request thread's clock value is at most MaxSkew    *)
(*     old;                                                                *)
(*   - NatInv: the NAT entry of a connection that has been rewritten is    *)
(*     for its destination and lasts exactly as long as its last packet    *)
(*     asked for.                                                          *)
(***************************************************************************)
EXTENDS Intercept, FakeIpStoreProofs

Packets == [client : Clients, dst : Destinations, closing : BOOLEAN]
Redirects == [packet : Packets, stamp : Nat, found : BOOLEAN]

InterceptTypes ==
  /\ nat \in [Clients -> NatEntries \cup {None}]
  /\ conn \in [Clients -> Destinations \cup {None}]
  /\ seen \in [Clients -> Sightings \cup {None}]
  /\ requests \in Seq(Packets)
  /\ dns_tcp \in Seq(Packets)
  /\ responses \in Seq(Packets)
  /\ redirect \in Redirects \cup {None}

Flight ==
  /\ \A p \in Range(requests) \cup Range(dns_tcp) \cup Range(responses) :
       conn[p.client] = p.dst
  /\ \A p \in Range(responses) : seen[p.client] # None

RedirectInv ==
  redirect # None =>
    /\ conn[redirect.packet.client] = redirect.packet.dst
    /\ now - MaxSkew <= redirect.stamp
    /\ redirect.stamp <= now

NatInv ==
  \A c \in Clients : conn[c] # None /\ seen[c] # None =>
    /\ nat[c] # None => /\ nat[c].dst = conn[c]
                        /\ nat[c].expires_at = seen[c].at + seen[c].ttl
    /\ nat[c] = None => seen[c].at + seen[c].ttl <= now

PathInv == InterceptTypes /\ Flight /\ RedirectInv /\ NatInv

-----------------------------------------------------------------------------
(* Queues, entries and durations.                                           *)

\* What is in a driver queue after a packet has come in or has been taken.
LEMMA QueueFacts ==
  ASSUME NEW q \in Seq(Packets)
  PROVE  /\ Range(q) \subseteq Packets
         /\ \A p \in Packets : /\ Append(q, p) \in Seq(Packets)
                               /\ Range(Append(q, p)) = Range(q) \cup {p}
         /\ q # << >> => /\ Head(q) \in Range(q)
                         /\ Tail(q) \in Seq(Packets)
                         /\ Range(Tail(q)) \subseteq Range(q)
<1>1. Len(q) \in Nat /\ DOMAIN q = 1..Len(q) /\ Range(q) = {q[i] : i \in 1..Len(q)}
    BY LenProperties, Zenon DEF Range
<1>2. Range(q) \subseteq Packets
    BY <1>1, ElementOfSeq, Zenon
<1>3. ASSUME NEW p \in Packets
      PROVE  Append(q, p) \in Seq(Packets) /\ Range(Append(q, p)) = Range(q) \cup {p}
  <2> DEFINE a == Append(q, p)
  <2>1. /\ a \in Seq(Packets) /\ Len(a) = Len(q) + 1
        /\ \A i \in 1..Len(q) : a[i] = q[i]
        /\ a[Len(q) + 1] = p
      BY AppendProperties
  <2>2. Range(a) = {a[i] : i \in 1..Len(q) + 1}
      BY <2>1, LenProperties, Zenon DEF Range
  <2>3. 1..Len(q) + 1 = 1..Len(q) \cup {Len(q) + 1}
      BY <1>1
  <2> HIDE DEF a
  <2>4. Range(a) = Range(q) \cup {p}
      BY <1>1, <2>1, <2>2, <2>3
  <2> QED
      BY <2>1, <2>4, Zenon DEF a
<1>4. ASSUME q # << >>
      PROVE  /\ Head(q) \in Range(q)
             /\ Tail(q) \in Seq(Packets)
             /\ Range(Tail(q)) \subseteq Range(q)
  <2>1. Len(q) >= 1
      BY <1>1, <1>4, EmptySeq
  <2>2. Head(q) = q[1]
      BY <1>4
  <2>3. /\ Tail(q) \in Seq(Packets) /\ Len(Tail(q)) = Len(q) - 1
        /\ \A i \in 1..Len(q) - 1 : Tail(q)[i] = q[i + 1]
      BY <1>4, HeadTailProperties, Zenon
  <2>4. Range(Tail(q)) = {Tail(q)[i] : i \in 1..Len(q) - 1}
      BY <2>3, LenProperties, Zenon DEF Range
  <2>5. \A i \in 1..Len(q) - 1 : i + 1 \in 1..Len(q)
      BY <1>1
  <2> QED
      BY <1>1, <2>1, <2>2, <2>3, <2>4, <2>5
<1> QED
    BY <1>2, <1>3, <1>4, Zenon

\* The fields of a packet.
LEMMA PacketFields ==
  ASSUME NEW p \in Packets
  PROVE  /\ p.client \in Clients /\ p.dst \in Destinations /\ p.closing \in BOOLEAN
         /\ p.dst # None /\ p.dst.family \in Families
BY NoneIsNoDestination DEF Packets, Destinations

\* nat_expiration: how long an entry lasts, from t.
LEMMA Expirations ==
  ASSUME NEW t \in Nat, NEW closing \in BOOLEAN, NEW dst \in Destinations
  PROVE  LET e == NatEntry(dst, nat_expiration(t, closing))
             s == Seen(t, closing)
         IN  /\ e \in NatEntries /\ e # None /\ e.dst = dst
             /\ s \in Sightings /\ s # None /\ s.at = t
             /\ e.expires_at = s.at + s.ttl
<1> DEFINE e == NatEntry(dst, nat_expiration(t, closing))
           s == Seen(t, closing)
<1>1. nat_expiration(t, closing) \in Nat /\ nat_expiration(0, closing) \in Nat
    BY InterceptAssumption DEF nat_expiration
<1>2. nat_expiration(t, closing) = t + nat_expiration(0, closing)
    BY InterceptAssumption DEF nat_expiration
<1>3. e \in NatEntries /\ e.dst = dst /\ e.expires_at = nat_expiration(t, closing)
    BY <1>1, Zenon DEF NatEntry, NatEntries
<1>4. s \in Sightings /\ s.at = t /\ s.ttl = nat_expiration(0, closing)
    BY <1>1, Zenon DEF Seen, Sightings
<1> QED
    BY <1>2, <1>3, <1>4, NoneIsNoDestination, Zenon

-----------------------------------------------------------------------------
(* The steps keep PathInv.                                                  *)

\* Every clock value a handler may have read is a time that has passed.
LEMMA ClockValues ==
  ASSUME TypeOK, NEW t \in ReadBefore
  PROVE  t \in Nat /\ now - MaxSkew <= t /\ t <= now
BY DurationsAreNat DEF ReadBefore, TypeOK

\* Steps that leave the connections, the NAT tables and the queues alone.
LEMMA PathFrame ==
  ASSUME PathInv, UNCHANGED <<nat, conn, requests, dns_tcp, responses, seen, now>>,
         redirect' = None \/ (redirect' \in Redirects /\ redirect # None
                              /\ redirect'.packet = redirect.packet
                              /\ redirect'.stamp = redirect.stamp)
  PROVE  PathInv'
<1> USE DEF PathInv
<1>1. InterceptTypes'
    BY Zenon DEF InterceptTypes
<1>2. Flight'
    BY Zenon DEF Flight
<1>3. RedirectInv'
    BY Zenon DEF RedirectInv
<1>4. NatInv'
    BY Zenon DEF NatInv
<1> QED
    BY <1>1, <1>2, <1>3, <1>4, Zenon

\* A client opens a connection: none of its packets is under way.
LEMMA ConnectPath ==
  ASSUME IInv, PathInv, NEW c \in Clients, Connect(c)
  PROVE  PathInv'
<1> USE DEF PathInv
<1>1. PICK dst \in Destinations : conn' = [conn EXCEPT ![c] = dst]
  <2>1. ASSUME NEW a \in answers, NEW port \in WebPorts
        PROVE  Destination(a.family, a.ip, port) \in Destinations
    <3>1. a.family \in Families /\ a.ip \in Addrs(a.family)
        BY DEF IInv, TypeOK
    <3>2. a.ip \in UNION {Addrs(f) : f \in Families}
        BY <3>1
    <3>3. port \in {53} \cup WebPorts
        BY Zenon
    <3> QED
        BY <3>1, <3>2, <3>3, ZenonT(40) DEF Destination, Destinations
  <2>2. ASSUME NEW ip \in Resolvers
        PROVE  Destination(FamilyOf[c], ip, 53) \in Destinations
    <3>1. FamilyOf[c] \in Families
        BY InterceptAssumption, Zenon
    <3>2. ip \in (UNION {Addrs(f) : f \in Families}) \cup Resolvers
        BY Zenon
    <3> QED
        BY <3>1, <3>2, ZenonT(40) DEF Destination, Destinations
  <2> QED
      BY <2>1, <2>2 DEF Connect
<1>2. /\ conn[c] = None
      /\ seen' = [seen EXCEPT ![c] = None]
      /\ UNCHANGED <<nat, requests, dns_tcp, responses, redirect, now>>
    BY Zenon DEF Connect, vars
<1>3. InterceptTypes'
    BY <1>1, <1>2, Zenon DEF InterceptTypes
<1>4. ASSUME NEW p \in Packets, conn[p.client] = p.dst
      PROVE  p.client # c /\ conn'[p.client] = p.dst /\ seen'[p.client] = seen[p.client]
  <2>1. p.client \in Clients /\ p.client # c
      BY <1>2, <1>4, PacketFields, ZenonT(40)
  <2> QED
      BY <1>1, <1>2, <1>4, <2>1, ZenonT(40) DEF InterceptTypes
<1>5. Flight'
  <2>1. Range(requests) \cup Range(dns_tcp) \cup Range(responses) \subseteq Packets
      BY QueueFacts, Zenon DEF InterceptTypes
  <2> QED
      BY <1>2, <1>4, <2>1, ZenonT(40) DEF Flight
<1>6. RedirectInv'
  <2>1. redirect # None => redirect.packet \in Packets
      BY Zenon DEF InterceptTypes, Redirects
  <2> QED
      BY <1>2, <1>4, <2>1, ZenonT(40) DEF RedirectInv
<1>7. NatInv'
  <2>1. ASSUME NEW d \in Clients, d # c
        PROVE  conn'[d] = conn[d] /\ seen'[d] = seen[d]
      BY <1>1, <1>2, <2>1, Zenon DEF InterceptTypes
  <2>2. seen'[c] = None
      BY <1>2, Zenon DEF InterceptTypes
  <2> QED
      BY <1>2, <2>1, <2>2, ZenonT(40) DEF NatInv
<1> QED
    BY <1>3, <1>5, <1>6, <1>7, Zenon

\* A packet of an open connection enters a queue.
LEMMA SendPath ==
  ASSUME PathInv, NEW c \in Clients, NEW closing \in BOOLEAN,
         Send(c, closing) \/ Respond(c, closing)
  PROVE  PathInv'
<1> USE DEF PathInv
<1> DEFINE p == Packet(c, conn[c], closing)
<1>1. conn[c] # None /\ UNCHANGED <<nat, conn, redirect, seen, now>>
    BY Zenon DEF Send, Respond, vars
<1>2. p \in Packets /\ p.client = c /\ p.dst = conn[c]
    BY <1>1, Zenon DEF Packet, Packets, InterceptTypes
<1>3. \/ requests' = Append(requests, p) /\ UNCHANGED <<dns_tcp, responses>>
      \/ dns_tcp' = Append(dns_tcp, p) /\ UNCHANGED <<requests, responses>>
      \/ /\ responses' = Append(responses, p) /\ UNCHANGED <<requests, dns_tcp>>
         /\ seen[c] # None
    BY Zenon DEF Send, Respond
<1> HIDE DEF p
<1>4. InterceptTypes'
    BY <1>1, <1>2, <1>3, QueueFacts, ZenonT(40) DEF InterceptTypes
<1>5. /\ Range(requests') \subseteq Range(requests) \cup {p}
      /\ Range(dns_tcp') \subseteq Range(dns_tcp) \cup {p}
      /\ Range(responses') \subseteq Range(responses) \cup {p}
      /\ Range(responses') # Range(responses) => seen[c] # None
  <2>1. /\ Range(Append(requests, p)) = Range(requests) \cup {p}
        /\ Range(Append(dns_tcp, p)) = Range(dns_tcp) \cup {p}
        /\ Range(Append(responses, p)) = Range(responses) \cup {p}
      BY <1>2, QueueFacts, Zenon DEF InterceptTypes
  <2> QED
      BY <1>3, <2>1, Zenon
<1>6. Flight'
    BY <1>1, <1>2, <1>5, Zenon DEF Flight
<1>7. RedirectInv' /\ NatInv'
    BY <1>1, Zenon DEF RedirectInv, NatInv
<1> QED
    BY <1>4, <1>6, <1>7, Zenon

\* A client's port becomes free when none of its packets is left.
LEMMA ReleasePath ==
  ASSUME PathInv, NEW c \in Clients, Release(c)
  PROVE  PathInv'
<1> USE DEF PathInv
<1>1. /\ conn' = [conn EXCEPT ![c] = None]
      /\ UNCHANGED <<nat, requests, dns_tcp, responses, redirect, seen, now>>
      /\ redirect # None => redirect.packet.client # c
    BY Zenon DEF Release, vars
<1>2. \A p \in Range(requests) \cup Range(dns_tcp) \cup Range(responses) : p.client # c
    BY Zenon DEF Release, Range
<1>3. \A d \in Clients : d # c => conn'[d] = conn[d]
    BY <1>1, Zenon DEF InterceptTypes
<1>4. InterceptTypes'
    BY <1>1, Zenon DEF InterceptTypes
<1>5. Flight'
  <2>1. Range(requests) \cup Range(dns_tcp) \cup Range(responses) \subseteq Packets
      BY QueueFacts, Zenon DEF InterceptTypes
  <2> QED
      BY <1>1, <1>2, <1>3, <2>1, PacketFields, Zenon DEF Flight
<1>6. RedirectInv'
  <2>1. redirect # None => redirect.packet \in Packets
      BY Zenon DEF InterceptTypes, Redirects
  <2> QED
      BY <1>1, <1>3, <2>1, PacketFields, Zenon DEF RedirectInv
<1>7. NatInv'
  <2>1. conn'[c] = None
      BY <1>1, Zenon DEF InterceptTypes
  <2> QED
      BY <1>1, <1>3, <2>1, ZenonT(40) DEF NatInv
<1> QED
    BY <1>4, <1>5, <1>6, <1>7, Zenon

\* upsert_nat_packet and touch_nat_mapping: the entry of p's client is for its
\* connection and lasts as long as p asked for, from t.
LEMMA Upserts ==
  ASSUME InterceptTypes, NatInv, NEW p \in Packets, conn[p.client] = p.dst,
         NEW t \in Nat,
         nat' = [nat EXCEPT ![p.client] = NatEntry(p.dst, nat_expiration(t, p.closing))],
         Rewritten(p, t), UNCHANGED <<conn, now>>
  PROVE  /\ nat' \in [Clients -> NatEntries \cup {None}]
         /\ seen' \in [Clients -> Sightings \cup {None}]
         /\ \A c \in Clients : seen[c] # None => seen'[c] # None
         /\ NatInv'
<1> DEFINE e == NatEntry(p.dst, nat_expiration(t, p.closing))
           s == Seen(t, p.closing)
<1>1. p.client \in Clients /\ p.dst \in Destinations /\ p.closing \in BOOLEAN
    BY PacketFields, ZenonT(40)
<1>2. /\ e \in NatEntries /\ e # None /\ e.dst = p.dst
      /\ s \in Sightings /\ s # None /\ e.expires_at = s.at + s.ttl
  <2>1. PICK closing \in BOOLEAN, dst \in Destinations : closing = p.closing /\ dst = p.dst
      BY <1>1, Zenon
  <2>2. LET e1 == NatEntry(dst, nat_expiration(t, closing))
            s1 == Seen(t, closing)
        IN  /\ e1 \in NatEntries /\ e1 # None /\ e1.dst = dst
            /\ s1 \in Sightings /\ s1 # None /\ e1.expires_at = s1.at + s1.ttl
      BY Expirations, SMT
  <2> QED BY <2>1, <2>2, Zenon
<1>3. nat' = [nat EXCEPT ![p.client] = e] /\ seen' = [seen EXCEPT ![p.client] = s]
    BY Zenon DEF Rewritten
<1> HIDE DEF e, s
<1>4. \A c \in Clients : /\ nat'[c] = IF c = p.client THEN e ELSE nat[c]
                         /\ seen'[c] = IF c = p.client THEN s ELSE seen[c]
    BY <1>3, Zenon DEF InterceptTypes
<1>5. NatInv'
    BY <1>1, <1>2, <1>4 DEF NatInv
<1> QED
    BY <1>1, <1>2, <1>3, <1>4, <1>5 DEF InterceptTypes

\* A thread is done with a packet: what is left waits as before, and no client
\* loses its sighting.
LEMMA DonePath ==
  ASSUME PathInv, UNCHANGED <<conn, now>>,
         nat' \in [Clients -> NatEntries \cup {None}],
         seen' \in [Clients -> Sightings \cup {None}],
         \A c \in Clients : seen[c] # None => seen'[c] # None,
         NatInv',
         requests' \in Seq(Packets) /\ Range(requests') \subseteq Range(requests),
         dns_tcp' \in Seq(Packets) /\ Range(dns_tcp') \subseteq Range(dns_tcp),
         responses' \in Seq(Packets) /\ Range(responses') \subseteq Range(responses),
         redirect' \in {redirect, None}
  PROVE  PathInv'
<1> USE DEF PathInv
<1>1. InterceptTypes'
    BY Zenon DEF InterceptTypes
<1>2. Range(responses) \subseteq Packets
    BY QueueFacts, Zenon DEF InterceptTypes
<1>3. Flight'
  <2>1. ASSUME NEW p \in Range(responses)
        PROVE  seen'[p.client] # None
      BY <1>2, PacketFields, Zenon DEF Flight
  <2> QED
      BY <2>1, Zenon DEF Flight
<1>4. RedirectInv'
    BY Zenon DEF RedirectInv
<1> QED
    BY <1>1, <1>3, <1>4, Zenon

\* The request thread takes a packet, and redirects it.
LEMMA RequestPath ==
  ASSUME TypeOK, PathInv, TakeRequest \/ RedirectRequest
  PROVE  PathInv'
<1> USE DEF PathInv
<1>1. CASE TakeRequest
  <2> DEFINE p == Head(requests)
  <2>1. /\ redirect = None /\ requests # << >> /\ requests' = Tail(requests)
        /\ \/ redirect' = redirect
           \/ redirect' = [packet |-> p, stamp |-> now, found |-> FALSE]
        /\ UNCHANGED <<nat, conn, dns_tcp, responses, seen, now>>
      BY <1>1, Zenon DEF TakeRequest, vars
  <2>2. /\ p \in Range(requests) /\ p \in Packets
        /\ requests' \in Seq(Packets) /\ Range(requests') \subseteq Range(requests)
      BY <2>1, QueueFacts, Zenon DEF InterceptTypes
  <2> HIDE DEF p
  <2>3. ASSUME redirect' # None
        PROVE  /\ redirect' \in Redirects
               /\ redirect'.packet = p /\ redirect'.stamp = now
    <3>1. redirect' = [packet |-> p, stamp |-> now, found |-> FALSE]
        BY <2>1, <2>3, Zenon
    <3> QED
        BY <2>2, <3>1, Zenon DEF Redirects, TypeOK
  <2>4. now - MaxSkew <= now /\ now <= now
      BY DurationsAreNat DEF TypeOK
  <2>5. RedirectInv'
      BY <2>1, <2>2, <2>3, <2>4, Zenon DEF RedirectInv, Flight
  <2>6. InterceptTypes'
      BY <2>1, <2>2, <2>3, Zenon DEF InterceptTypes
  <2>7. Flight'
      BY <2>1, <2>2, Zenon DEF Flight
  <2>8. NatInv'
      BY <2>1, Zenon DEF NatInv
  <2> QED
      BY <2>5, <2>6, <2>7, <2>8, Zenon
<1>2. CASE RedirectRequest
  <2>1. /\ redirect # None /\ Redirect(redirect.packet, redirect.stamp)
        /\ redirect' = None
        /\ UNCHANGED <<now, conn, requests, dns_tcp, responses>>
      BY <1>2, Zenon DEF RedirectRequest, vars
  <2>2. PICK p \in Packets : p = redirect.packet /\ conn[p.client] = p.dst
      BY <2>1, Zenon DEF RedirectInv, InterceptTypes, Redirects
  <2>3. PICK t \in Nat : t = redirect.stamp
      BY <2>1, Zenon DEF InterceptTypes, Redirects
  <2>4. /\ nat' = [nat EXCEPT ![p.client] = NatEntry(p.dst, nat_expiration(t, p.closing))]
        /\ Rewritten(p, t)
      BY <2>1, <2>2, <2>3, Zenon DEF Redirect
  <2>5. /\ nat' \in [Clients -> NatEntries \cup {None}]
        /\ seen' \in [Clients -> Sightings \cup {None}]
        /\ \A c \in Clients : seen[c] # None => seen'[c] # None
        /\ NatInv'
      BY <2>1, <2>2, <2>4, Upserts, Zenon
  <2>6. requests' \in Seq(Packets) /\ dns_tcp' \in Seq(Packets) /\ responses' \in Seq(Packets)
      BY <2>1, Zenon DEF InterceptTypes
  <2> QED
      BY <2>1, <2>5, <2>6, DonePath, Zenon
<1> QED
    BY <1>1, <1>2, Zenon

\* The DNS-over-TCP thread.
LEMMA DnsPath ==
  ASSUME TypeOK, PathInv, handle_dns_tcp_packet
  PROVE  PathInv'
<1> USE DEF PathInv
<1>1. /\ dns_tcp # << >> /\ dns_tcp' = Tail(dns_tcp)
      /\ UNCHANGED <<now, conn, requests, responses, redirect>>
    BY Zenon DEF handle_dns_tcp_packet, vars
<1>2. /\ Head(dns_tcp) \in Range(dns_tcp) /\ Head(dns_tcp) \in Packets
      /\ dns_tcp' \in Seq(Packets) /\ Range(dns_tcp') \subseteq Range(dns_tcp)
    BY <1>1, QueueFacts, Zenon DEF InterceptTypes
<1>3. PICK p \in Packets : p = Head(dns_tcp) /\ conn[p.client] = p.dst
    BY <1>2, Zenon DEF Flight
<1>4. PICK t \in ReadBefore : Redirect(p, t)
    BY <1>3, Zenon DEF handle_dns_tcp_packet
<1>5. t \in Nat
    BY ClockValues, Zenon
<1>6. /\ nat' \in [Clients -> NatEntries \cup {None}]
      /\ seen' \in [Clients -> Sightings \cup {None}]
      /\ \A c \in Clients : seen[c] # None => seen'[c] # None
      /\ NatInv'
    BY <1>1, <1>3, <1>4, <1>5, Upserts, Zenon DEF Redirect
<1>7. requests' \in Seq(Packets) /\ responses' \in Seq(Packets)
    BY <1>1, Zenon DEF InterceptTypes
<1> QED
    BY <1>1, <1>2, <1>6, <1>7, DonePath, Zenon

\* The connection and the NAT entry that a response finds.
LEMMA ResponseFinds ==
  ASSUME PathInv, responses # << >>
  PROVE  LET p == Head(responses) IN
         /\ p \in Packets /\ conn[p.client] = p.dst
         /\ Tail(responses) \in Seq(Packets)
         /\ Range(Tail(responses)) \subseteq Range(responses)
         /\ nat[p.client] # None =>
              /\ nat[p.client] \in NatEntries
              /\ nat[p.client].dst = p.dst
              /\ nat[p.client].expires_at = seen[p.client].at + seen[p.client].ttl
         /\ nat[p.client] = None => seen[p.client].at + seen[p.client].ttl <= now
<1> USE DEF PathInv
<1> DEFINE p == Head(responses)
<1>1. /\ p \in Range(responses) /\ p \in Packets /\ Tail(responses) \in Seq(Packets)
      /\ Range(Tail(responses)) \subseteq Range(responses)
    BY QueueFacts, Zenon DEF InterceptTypes
<1> HIDE DEF p
<1>2. p.client \in Clients /\ p.dst # None
    BY <1>1, PacketFields, Zenon
<1>3. conn[p.client] = p.dst /\ seen[p.client] # None
    BY <1>1, Zenon DEF Flight
<1>4. nat[p.client] # None => nat[p.client] \in NatEntries
    BY <1>2, Zenon DEF InterceptTypes
<1>5. /\ nat[p.client] # None =>
           /\ nat[p.client].dst = p.dst
           /\ nat[p.client].expires_at = seen[p.client].at + seen[p.client].ttl
      /\ nat[p.client] = None => seen[p.client].at + seen[p.client].ttl <= now
    BY <1>2, <1>3, Zenon DEF NatInv
<1> QED
    BY <1>1, <1>3, <1>4, <1>5, Zenon DEF p

\* The response thread: a live entry is extended, an expired one removed.
LEMMA ResponsePath ==
  ASSUME TypeOK, PathInv, handle_proxy_response_packet
  PROVE  PathInv'
<1> USE DEF PathInv
<1>1. /\ responses # << >> /\ responses' = Tail(responses)
      /\ UNCHANGED <<now, conn, requests, dns_tcp, redirect>>
    BY Zenon DEF handle_proxy_response_packet, vars
<1>2. PICK p \in Packets : p = Head(responses)
    BY <1>1, ResponseFinds, Zenon
<1>3. p.client \in Clients
    BY PacketFields, Zenon
<1>4. PICK e : e = nat[p.client]
    BY Zenon
<1>5. /\ conn[p.client] = p.dst
      /\ responses' \in Seq(Packets) /\ Range(responses') \subseteq Range(responses)
      /\ e # None => /\ e \in NatEntries
                     /\ e.dst = p.dst
                     /\ e.expires_at = seen[p.client].at + seen[p.client].ttl
      /\ e = None => seen[p.client].at + seen[p.client].ttl <= now
    BY <1>1, <1>2, <1>4, ResponseFinds, Zenon
<1>6. PICK t \in ReadBefore :
        \/ /\ e # None
           /\ e.expires_at > t
           /\ nat' = [nat EXCEPT ![p.client].expires_at = nat_expiration(t, p.closing)]
           /\ Rewritten(p, t)
        \/ /\ ~(e # None /\ e.expires_at > t)
           /\ nat' = [nat EXCEPT ![p.client] = None]
           /\ UNCHANGED seen
    BY <1>2, <1>4, Zenon DEF handle_proxy_response_packet
<1>7. t \in Nat /\ t <= now /\ now \in Nat
    BY ClockValues, Zenon DEF TypeOK
<1>8. requests' \in Seq(Packets) /\ dns_tcp' \in Seq(Packets)
    BY <1>1, Zenon DEF InterceptTypes
<1>9. CASE /\ e # None
           /\ nat' = [nat EXCEPT ![p.client].expires_at = nat_expiration(t, p.closing)]
           /\ Rewritten(p, t)
  <2>1. [e EXCEPT !.expires_at = nat_expiration(t, p.closing)]
          = NatEntry(p.dst, nat_expiration(t, p.closing))
      BY <1>5, <1>9 DEF NatEntry, NatEntries
  <2>2. nat' = [nat EXCEPT ![p.client] = NatEntry(p.dst, nat_expiration(t, p.closing))]
      BY <1>4, <1>9, <2>1, ZenonT(40)
  <2>3. /\ nat' \in [Clients -> NatEntries \cup {None}]
        /\ seen' \in [Clients -> Sightings \cup {None}]
        /\ \A c \in Clients : seen[c] # None => seen'[c] # None
        /\ NatInv'
      BY <1>1, <1>5, <1>7, <1>9, <2>2, Upserts, ZenonT(40)
  <2> QED
      BY <1>1, <1>5, <1>8, <2>3, DonePath, ZenonT(40)
<1>10. CASE /\ ~(e # None /\ e.expires_at > t)
            /\ nat' = [nat EXCEPT ![p.client] = None]
            /\ UNCHANGED seen
  <2>1. seen[p.client].at + seen[p.client].ttl <= now
    <3>1. e # None => e.expires_at \in Nat
        BY <1>5, Zenon DEF NatEntries
    <3> QED
        BY <1>5, <1>7, <1>10, <3>1, SMTT(30)
  <2>2. nat' \in [Clients -> NatEntries \cup {None}]
      BY <1>10, Zenon DEF InterceptTypes
  <2>3. \A c \in Clients : nat'[c] = IF c = p.client THEN None ELSE nat[c]
      BY <1>10, ZenonT(40) DEF InterceptTypes
  <2>4. NatInv'
      BY <1>1, <1>10, <2>1, <2>3 DEF NatInv
  <2>5. seen' \in [Clients -> Sightings \cup {None}]
      BY <1>10, Zenon DEF InterceptTypes
  <2> QED
      BY <1>1, <1>5, <1>8, <1>10, <2>2, <2>4, <2>5, DonePath, ZenonT(40)
<1> QED
    BY <1>6, <1>9, <1>10, Zenon

\* spawn_nat_cleanup_task removes only what has expired.
LEMMA PrunePath ==
  ASSUME TypeOK, PathInv, prune_nat_table
  PROVE  PathInv'
<1> USE DEF PathInv
<1>1. /\ nat' = [c \in Clients |->
            IF nat[c] # None /\ nat[c].expires_at <= now THEN None ELSE nat[c]]
      /\ UNCHANGED <<now, conn, requests, dns_tcp, responses, redirect, seen>>
    BY Zenon DEF prune_nat_table, vars
<1>2. nat' \in [Clients -> NatEntries \cup {None}]
    BY <1>1, Zenon DEF InterceptTypes
<1>3. NatInv'
    BY <1>1, Zenon DEF NatInv
<1>4. /\ seen' \in [Clients -> Sightings \cup {None}]
      /\ requests' \in Seq(Packets) /\ dns_tcp' \in Seq(Packets) /\ responses' \in Seq(Packets)
    BY <1>1, Zenon DEF InterceptTypes
<1> QED
    BY <1>1, <1>2, <1>3, <1>4, DonePath, Zenon

\* The store's steps.  Time passes only while the request thread's clock value is
\* recent enough.
LEMMA StorePath ==
  ASSUME TypeOK, PathInv, StoreStep
  PROVE  PathInv'
<1> USE DEF PathInv
<1>1. UNCHANGED <<nat, conn, requests, dns_tcp, responses, redirect, seen>>
    BY Zenon DEF StoreStep, interceptVars
<1>2. CASE \E t \in Tasks : Step(t)
  <2>1. now' = now
      BY <1>2, ZenonT(40) DEF Step, handle_request, NextQuery, ReadClock, Reply, Refresh, Allocate,
                  Exhausted, StartLookup, resolve_domain
  <2>2. redirect' = None \/ (redirect' \in Redirects /\ redirect # None)
      BY <1>1, Zenon DEF InterceptTypes
  <2> QED
      BY <1>1, <2>1, <2>2, PathFrame, ZenonT(40)
<1>3. CASE Tick /\ (redirect # None => now - redirect.stamp < MaxSkew)
  <2>1. now \in Nat /\ now' = now + 1
      BY <1>3, Zenon DEF Tick, TypeOK
  <2>2. InterceptTypes' /\ Flight'
      BY <1>1, Zenon DEF InterceptTypes, Flight
  <2>3. redirect # None => redirect.stamp \in Nat
      BY Zenon DEF InterceptTypes, Redirects
  <2>4. redirect # None => now' - MaxSkew <= redirect.stamp /\ redirect.stamp <= now'
      BY <1>3, <2>1, <2>3, DurationsAreNat DEF RedirectInv
  <2>5. RedirectInv'
      BY <1>1, <2>4, Zenon DEF RedirectInv
  <2>6. \A c \in Clients : seen[c] # None => seen[c].at + seen[c].ttl \in Nat
      BY DEF InterceptTypes, Sightings
  <2>7. \A n \in Nat : n <= now => n <= now'
      BY <2>1
  <2>8. NatInv'
      BY <1>1, <2>6, <2>7, Zenon DEF NatInv
  <2> QED
      BY <2>2, <2>5, <2>8, ZenonT(40)
<1> QED
    BY <1>2, <1>3, Zenon DEF StoreStep

-----------------------------------------------------------------------------
(* The store under the capture threads.                                     *)

\* The capture threads only prune the store, with clock values that have been
\* read already.
LEMMA StoreKept ==
  ASSUME IInv, PathInv, InterceptNext
  PROVE  IInv'
<1>1. CASE ResolveRequest
  <2>1. PICK at \in Nat : at = redirect.stamp /\ at <= now
      BY <1>1, Zenon DEF ResolveRequest, PathInv, InterceptTypes, Redirects, RedirectInv
  <2>2. TasksInv' /\ task' \in [Tasks -> TaskStates]
      BY <1>1, Zenon DEF ResolveRequest, IInv, TasksInv, TypeOK
  <2> QED
      BY <1>1, <2>1, <2>2, OnlyPrunes, Zenon DEF ResolveRequest
<1>2. CASE handle_quic_packet
  <2>1. PICK at \in ReadBefore : /\ domain_to_entry' = PrunedEntries(at)
                                 /\ ip_to_domain' = PrunedOwners(at)
      BY <1>2, ZenonT(40) DEF handle_quic_packet
  <2>2. TasksInv' /\ task' \in [Tasks -> TaskStates]
      BY <1>2 DEF handle_quic_packet, IInv, TasksInv, TypeOK
  <2>3. at \in Nat /\ at <= now
      BY ClockValues, Zenon DEF IInv
  <2> QED
      BY <1>2, <2>1, <2>2, <2>3, OnlyPrunes, ZenonT(40) DEF handle_quic_packet
<1>3. CASE StoreStep
    BY <1>3, InvNext, Zenon DEF StoreStep, Next
<1>4. CASE UNCHANGED vars
    BY <1>4, InvNext, Zenon
<1> QED
    BY <1>1, <1>2, <1>3, <1>4, ZenonT(40)
       DEF InterceptNext, Connect, Send, Respond, Release, TakeRequest, RedirectRequest,
           handle_dns_tcp_packet, handle_proxy_response_packet, prune_nat_table

\* Every step keeps PathInv.
LEMMA PathKept ==
  ASSUME IInv, PathInv, InterceptNext
  PROVE  PathInv'
<1>0. TypeOK
    BY Zenon DEF IInv
<1>1. CASE ResolveRequest
  <2>1. /\ redirect # None
        /\ UNCHANGED <<nat, conn, requests, dns_tcp, responses, seen, now>>
        /\ redirect' = None \/ redirect' = [redirect EXCEPT !.found = TRUE]
      BY <1>1, Zenon DEF ResolveRequest
  <2>2. redirect \in Redirects
      BY <2>1, Zenon DEF PathInv, InterceptTypes
  <2>3. LET r == [redirect EXCEPT !.found = TRUE] IN
        r \in Redirects /\ r.packet = redirect.packet /\ r.stamp = redirect.stamp
      BY <2>2, Zenon DEF Redirects
  <2> QED
      BY <2>1, <2>3, PathFrame, Zenon
<1>2. CASE handle_quic_packet
  <2>1. UNCHANGED <<nat, conn, requests, dns_tcp, responses, seen, now, redirect>>
      BY <1>2, Zenon DEF handle_quic_packet, interceptVars
  <2>2. redirect' = None \/ (redirect' \in Redirects /\ redirect # None)
      BY <2>1, Zenon DEF PathInv, InterceptTypes
  <2> QED
      BY <2>1, <2>2, PathFrame, Zenon
<1> QED
    BY ZenonT(40), <1>0, <1>1, <1>2, ConnectPath, SendPath, ReleasePath, RequestPath, DnsPath,
       ResponsePath, PrunePath, StorePath DEF InterceptNext

-----------------------------------------------------------------------------
(* The theorems.                                                            *)

InterceptInv == IInv /\ PathInv

\* At the start nothing is connected and nothing is under way.
LEMMA InterceptInvInit == InterceptInit => InterceptInv
<1> SUFFICES ASSUME InterceptInit PROVE PathInv
    BY InvInit, Zenon DEF InterceptInit, InterceptInv
<1>1. InterceptTypes
    BY EmptySeq, Zenon DEF InterceptInit, InterceptTypes
<1>2. Range(<< >>) = {}
    BY DEF Range
<1>3. Flight
    BY <1>2, Zenon DEF InterceptInit, Flight
<1>4. RedirectInv /\ NatInv
    BY Zenon DEF InterceptInit, RedirectInv, NatInv
<1> QED
    BY <1>1, <1>3, <1>4, Zenon DEF PathInv

\* Every step keeps the invariant.
LEMMA InterceptInvNext == InterceptInv /\ [InterceptNext]_allVars => InterceptInv'
<1> SUFFICES ASSUME InterceptInv, [InterceptNext]_allVars PROVE InterceptInv'
    BY Zenon
<1>1. CASE InterceptNext
    BY <1>1, StoreKept, PathKept, Zenon DEF InterceptInv
<1>2. CASE UNCHANGED allVars
  <2>1. UNCHANGED vars /\ UNCHANGED interceptVars
      BY <1>2, Zenon DEF allVars
  <2>2. IInv'
      BY <2>1, InvNext, Zenon DEF InterceptInv
  <2>3. redirect' = None \/ (redirect' \in Redirects /\ redirect # None)
      BY <2>1, Zenon DEF InterceptInv, PathInv, InterceptTypes, interceptVars
  <2>4. PathInv'
      BY <2>1, <2>3, PathFrame, Zenon DEF InterceptInv, vars, interceptVars
  <2> QED
      BY <2>2, <2>4, Zenon DEF InterceptInv
<1> QED
    BY <1>1, <1>2, Zenon

\* The invariant holds in every reachable state.
LEMMA InterceptInvAlways == InterceptSpec => []InterceptInv
BY InterceptInvInit, InterceptInvNext, PTL DEF InterceptSpec

\* Which steps say what became of a packet.
LEMMA Outcomes ==
  ASSUME InterceptNext, out' # None
  PROVE  \/ out'.what = "redirected"
         \/ ResolveRequest /\ out'.what = "passed"
         \/ /\ TakeRequest /\ out'.what = "passed"
            /\ out'.client = Head(requests).client
            /\ out'.of.port \in ListenerPorts
         \/ handle_quic_packet /\ out'.what \in {"dropped", "passed"}
         \/ handle_proxy_response_packet /\ out'.what \in {"restored", "leaked"}
<1>1. ASSUME NEW p, NEW t, Redirect(p, t)
      PROVE  out'.what = "redirected"
    BY <1>1, Zenon DEF Redirect, Outcome
<1>2. RedirectRequest \/ handle_dns_tcp_packet => out'.what = "redirected"
    BY <1>1, Zenon DEF RedirectRequest, handle_dns_tcp_packet
<1>3. ResolveRequest => out'.what = "passed"
    BY DEF ResolveRequest, Outcome
<1>4. handle_quic_packet => out'.what \in {"dropped", "passed"}
    BY DEF handle_quic_packet, Outcome
<1>5. handle_proxy_response_packet => out'.what \in {"restored", "leaked"}
    BY DEF handle_proxy_response_packet, Outcome
<1>6. ~prune_nat_table /\ ~StoreStep
    BY Zenon DEF prune_nat_table, StoreStep
<1>7. ASSUME NEW c, NEW closing
      PROVE  ~Connect(c) /\ ~Send(c, closing) /\ ~Respond(c, closing) /\ ~Release(c)
    BY Zenon DEF Connect, Send, Respond, Release
<1>8. TakeRequest => /\ out'.what = "passed" /\ out'.client = Head(requests).client
                     /\ out'.of.port \in ListenerPorts
    BY DEF TakeRequest, Outcome
<1> QED
    BY <1>2, <1>3, <1>4, <1>5, <1>6, <1>7, <1>8, Zenon DEF InterceptNext

\* The store's promise survives the capture threads, which prune it with clock
\* values of their own: a running answer leads back to its domain.
THEOREM AnswersHonouredAlways == InterceptSpec => []AnswersHonoured
<1>1. InterceptInv => AnswersHonoured
    BY StoreAnswers, Zenon DEF InterceptInv
<1> QED
    BY <1>1, InterceptInvAlways, PTL

\* A connection keeps its NAT entry, with its destination, for as long as its last
\* rewritten packet asked for.
THEOREM NatOutlivesUseAlways == InterceptSpec => []NatOutlivesUse
<1>1. InterceptInv => NatOutlivesUse
  <2> SUFFICES ASSUME InterceptInv, NEW c \in Clients,
                      conn[c] # None, seen[c] # None,
                      now < seen[c].at + seen[c].ttl
               PROVE  nat[c] # None /\ nat[c].dst = conn[c] /\ nat[c].expires_at > now
      BY Zenon DEF NatOutlivesUse
  <2>1. seen[c].at + seen[c].ttl \in Nat /\ now \in Nat
      BY DEF InterceptInv, PathInv, InterceptTypes, Sightings, IInv, TypeOK
  <2>2. ~(seen[c].at + seen[c].ttl <= now)
      BY <2>1
  <2>3. /\ nat[c] # None
        /\ nat[c].dst = conn[c]
        /\ nat[c].expires_at = seen[c].at + seen[c].ttl
      BY <2>2, Zenon DEF InterceptInv, PathInv, NatInv
  <2> QED
      BY <2>1, <2>3, Zenon
<1> QED
    BY <1>1, InterceptInvAlways, PTL

\* Every rewritten response gets the destination of its client's connection as its
\* source.
THEOREM RestoredToOriginAlways == InterceptSpec => []RestoredToOrigin
<1>1. InterceptInit => RestoredToOrigin
    BY Zenon DEF InterceptInit, RestoredToOrigin
<1>2. InterceptInv /\ RestoredToOrigin /\ [InterceptNext]_allVars => RestoredToOrigin'
  <2> SUFFICES ASSUME InterceptInv, RestoredToOrigin, [InterceptNext]_allVars,
                      out' # None, out'.what = "restored"
               PROVE  out'.dst = conn'[out'.client]
      BY Zenon DEF RestoredToOrigin
  <2>1. CASE handle_proxy_response_packet
    <3>1. /\ responses # << >> /\ conn' = conn
          /\ LET p == Head(responses) IN
             \/ nat[p.client] # None /\ out' = Outcome("restored", p, nat[p.client].dst)
             \/ out' = Outcome("leaked", p, p.dst)
        BY <2>1, Zenon DEF handle_proxy_response_packet
    <3>2. LET p == Head(responses) IN
          nat[p.client] # None => nat[p.client].dst = conn[p.client]
        BY <3>1, ResponseFinds, Zenon DEF InterceptInv
    <3> QED
        BY <3>1, <3>2 DEF Outcome
  <2>2. CASE UNCHANGED allVars
      BY <2>2, Zenon DEF allVars, interceptVars, RestoredToOrigin
  <2> QED
      BY <2>1, <2>2, Outcomes, Zenon
<1> QED
    BY <1>1, <1>2, InterceptInvAlways, PTL DEF InterceptSpec

\* The response thread lets a packet of a connection pass unrewritten only when the
\* TTL that the connection's last rewritten packet set has run out.
THEOREM OnlySilentFlowsLeakAlways == InterceptSpec => []OnlySilentFlowsLeak
<1>1. InterceptInit => OnlySilentFlowsLeak
    BY Zenon DEF InterceptInit, OnlySilentFlowsLeak
<1>2. InterceptInv /\ OnlySilentFlowsLeak /\ [InterceptNext]_allVars => OnlySilentFlowsLeak'
  <2> SUFFICES ASSUME InterceptInv, OnlySilentFlowsLeak, [InterceptNext]_allVars,
                      out' # None, out'.what = "leaked"
               PROVE  seen'[out'.client].at + seen'[out'.client].ttl <= now'
      BY Zenon DEF OnlySilentFlowsLeak
  <2>1. CASE handle_proxy_response_packet
    <3>1. responses # << >> /\ now' = now
        BY <2>1, Zenon DEF handle_proxy_response_packet, vars
    <3>2. PICK p \in Packets : p = Head(responses)
        BY <3>1, ResponseFinds, Zenon DEF InterceptInv
    <3>3. PICK e : e = nat[p.client]
        BY Zenon
    <3>4. /\ e # None => /\ e \in NatEntries
                         /\ e.expires_at = seen[p.client].at + seen[p.client].ttl
          /\ e = None => seen[p.client].at + seen[p.client].ttl <= now
        BY <3>1, <3>2, <3>3, ResponseFinds, Zenon DEF InterceptInv
    <3>5. PICK t \in ReadBefore :
            \/ out' = Outcome("restored", p, e.dst)
            \/ /\ ~(e # None /\ e.expires_at > t)
               /\ out' = Outcome("leaked", p, p.dst)
               /\ seen' = seen
        BY <2>1, <3>2, <3>3, Zenon DEF handle_proxy_response_packet
    <3>6. t \in Nat /\ t <= now /\ now \in Nat
        BY ClockValues, Zenon DEF InterceptInv, IInv, TypeOK
    <3>7. /\ ~(e # None /\ e.expires_at > t) /\ seen' = seen
          /\ out'.client = p.client
        BY <3>5 DEF Outcome
    <3>8. e # None => e.expires_at \in Nat
        BY <3>4, Zenon DEF NatEntries
    <3>9. seen[p.client].at + seen[p.client].ttl <= now
        BY <3>4, <3>6, <3>7, <3>8
    <3> QED
        BY <3>1, <3>7, <3>9, Zenon
  <2>2. CASE UNCHANGED allVars
      BY <2>2, Zenon DEF allVars, vars, interceptVars, OnlySilentFlowsLeak
  <2> QED
      BY <2>1, <2>2, Outcomes, Zenon
<1> QED
    BY <1>1, <1>2, InterceptInvAlways, PTL DEF InterceptSpec

\* No packet to the address of a running answer is let through, but for TCP packets to
\* the ports of the local listeners.
THEOREM AnsweredTrafficIsCapturedAlways == InterceptSpec => []AnsweredTrafficIsCaptured
<1>1. InterceptInit => AnsweredTrafficIsCaptured
    BY Zenon DEF InterceptInit, AnsweredTrafficIsCaptured
<1>2. InterceptInv /\ AnsweredTrafficIsCaptured /\ [InterceptNext]_allVars
        => AnsweredTrafficIsCaptured'
  <2> SUFFICES ASSUME InterceptInv, AnsweredTrafficIsCaptured, [InterceptNext]_allVars,
                      out' # None, out'.what = "passed",
                      out'.client # None => out'.of.port \notin ListenerPorts,
                      NEW a \in answers', now' + MaxSkew < a.until
               PROVE  ~(a.family = out'.of.family /\ a.ip = out'.of.ip)
      BY Zenon DEF AnsweredTrafficIsCaptured
  <2>1. CASE ResolveRequest
    <3>1. /\ redirect # None /\ UNCHANGED <<now, answers>>
          /\ \/ out' = None
             \/ Resolved(redirect) = None /\ out'.of = redirect.packet.dst
        BY <2>1 DEF ResolveRequest, Outcome
    <3>2. redirect.stamp \in Nat /\ redirect.stamp <= now
        BY <3>1, Zenon DEF InterceptInv, PathInv, InterceptTypes, Redirects, RedirectInv
    <3>3. Lookup(a.family, a.ip, redirect.stamp) # None
        BY <3>1, <3>2, AnswerFound, Zenon DEF InterceptInv
    <3> QED
        BY <3>1, <3>3, Zenon DEF Resolved
  <2>2. CASE handle_quic_packet
    <3>1. PICK f \in Families, at \in ReadBefore :
            \E ip \in Allocatable(f) :
              /\ out'.of = Destination(f, ip, 443)
              /\ out'.what = IF Lookup(f, ip, at) # None THEN "dropped" ELSE "passed"
        BY <2>2 DEF handle_quic_packet, Outcome, Packet
    <3>2. PICK ip \in Allocatable(f) :
            /\ out'.of = Destination(f, ip, 443)
            /\ out'.what = IF Lookup(f, ip, at) # None THEN "dropped" ELSE "passed"
        BY <3>1, Zenon
    <3>3. Lookup(f, ip, at) = None /\ out'.of.family = f /\ out'.of.ip = ip
        BY <3>2 DEF Destination
    <3>4. at \in Nat /\ at <= now /\ UNCHANGED <<now, answers>>
        BY <2>2, ClockValues DEF handle_quic_packet, InterceptInv, IInv
    <3>5. Lookup(a.family, a.ip, at) # None
        BY <3>4, AnswerFound, Zenon DEF InterceptInv
    <3> QED
        BY <3>3, <3>5, Zenon
  <2>3. CASE UNCHANGED allVars
      BY <2>3, Zenon DEF allVars, vars, AnsweredTrafficIsCaptured
  <2>4. ASSUME TakeRequest, out'.client = Head(requests).client PROVE out'.client # None
    <3>1. requests # << >>
        BY <2>4, Zenon DEF TakeRequest
    <3>2. Head(requests) \in Packets
        BY <3>1, QueueFacts, Zenon DEF InterceptInv, PathInv, InterceptTypes
    <3> QED
        BY <2>4, <3>2, PacketFields, NoneIsNoDestination, Zenon
  <2> QED
      BY <2>1, <2>2, <2>3, <2>4, Outcomes, Zenon
<1> QED
    BY <1>1, <1>2, InterceptInvAlways, PTL DEF InterceptSpec
=============================================================================
