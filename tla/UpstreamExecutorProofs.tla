----------------------- MODULE UpstreamExecutorProofs -----------------------
(***************************************************************************)
(* The safety properties of UpstreamExecutor, for any requests, any plans, *)
(* any DNS answers and any bounds.                                         *)
(***************************************************************************)
EXTENDS UpstreamExecutor, TLAPS

\* The addresses that identity t may be connected to, and the peers there.
IpsOf(t) == IF t.connect_ip # None THEN {t.connect_ip} ELSE Answers[build_dns_lookup_key(t)]
Conns(t) == {Peer(t, ip) : ip \in IpsOf(t)}

Known == (UNION {IpsOf(t) : t \in Transports}) \cup {None}
Peers == (UNION {Conns(t) : t \in Transports}) \cup {None}
Entries == [ip : Known, expires : Nat]
Looking == {"resolver", "creating", "lookup", "answered"}
Reqs == [pc : {"new", "waiting", "sent", "done"}, plan : Plans \cup {None}, peer : Peers]
Dials == [pc : Looking \cup {"none", "dial"}, resolver : Requests \cup {None},
          ip : Known, at : Nat]

\* The types; only an executed request has a plan or dials, and only one without
\* a fixed address looks one up.
Types ==
  /\ idle \in [Transports -> SUBSET Peers]
  /\ resolvers \in [Resolvers -> Requests \cup {None}]
  /\ dns_cache \in [Keys -> Entries \cup {None}]
  /\ req \in [Requests -> Reqs]
  /\ dial \in [Requests -> Dials]
  /\ zone \in [Keys -> Known]
  /\ changed \in [Keys -> Nat]
  /\ now \in Nat
  /\ \A r \in Requests : req[r].pc # "new" => req[r].plan \in Plans
  /\ \A r \in Requests : dial[r].pc # "none" => req[r].pc # "new"
  /\ \A r \in Requests : dial[r].pc \in Looking => Transport(r).connect_ip = None

\* Every address and every connection is one the identity it is kept under may
\* have: what is cached, what is looked up, dialled, idle and in use.
Belongs ==
  /\ \A k \in Keys : zone[k] \in Answers[k]
  /\ \A k \in Keys : dns_cache[k] # None => dns_cache[k].ip \in Answers[k]
  /\ \A r \in Requests : dial[r].pc \in {"answered", "dial"} => dial[r].ip \in IpsOf(Transport(r))
  /\ \A t \in Transports : idle[t] \subseteq Conns(t)
  /\ \A r \in Requests : req[r].pc = "sent" => req[r].peer \in Conns(Transport(r))

\* A request that is looking an address up, or has been answered, does it with the
\* resolver that the cache holds for its identity.
Shared ==
  \A r \in Requests : dial[r].pc \in {"lookup", "answered"} =>
    dial[r].resolver # None /\ dial[r].resolver = resolvers[Resolver(r)]

\* Ages: a lookup takes at most MaxLookup; an answer that is not what the record says
\* now was asked for before the record changed; and a cached address that is not
\* what the record says expires within a lookup and a TTL of that change.
Fresh ==
  /\ \A k \in Keys : changed[k] <= now
  /\ \A r \in Requests : dial[r].at <= now
  /\ \A r \in Requests : dial[r].pc \in {"lookup", "answered"} => now <= dial[r].at + MaxLookup
  /\ \A r \in Requests : dial[r].pc = "answered" =>
       dial[r].ip = zone[Key(r)] \/ dial[r].at <= changed[Key(r)]
  /\ \A k \in Keys : dns_cache[k] # None =>
       /\ dns_cache[k].expires <= now + Ttl
       /\ dns_cache[k].ip = zone[k] \/ dns_cache[k].expires <= changed[k] + MaxLookup + Ttl

-----------------------------------------------------------------------------

\* The identity of a plan, its resolver and its key are among those there are.
LEMMA Identities ==
  ASSUME NEW p \in Plans
  PROVE  LET t == build_transport_identity(p) IN
         /\ t \in Transports
         /\ t.connect_ip = None => /\ build_resolver_identity(t) \in Resolvers
                                   /\ build_dns_lookup_key(t) \in Keys
                                   /\ IpsOf(t) = Answers[build_dns_lookup_key(t)]
         /\ t.connect_ip # None => IpsOf(t) = {t.connect_ip}
         /\ IpsOf(t) \subseteq Known
         /\ Conns(t) \subseteq Peers
BY Zenon DEF Transports, Looked, Resolvers, Keys, IpsOf, Known, Peers

\* The same for what a request has been executed with.
LEMMA OfRequest ==
  ASSUME NEW r \in Requests, req[r].plan \in Plans
  PROVE  /\ Transport(r) \in Transports
         /\ Transport(r).connect_ip = None =>
              /\ Resolver(r) \in Resolvers
              /\ Key(r) \in Keys
              /\ IpsOf(Transport(r)) = Answers[Key(r)]
         /\ Transport(r).connect_ip # None => IpsOf(Transport(r)) = {Transport(r).connect_ip}
         /\ IpsOf(Transport(r)) \subseteq Known
         /\ Conns(Transport(r)) \subseteq Peers
BY Identities, Zenon DEF Transport, Resolver, Key

\* The addresses of a key are known.
LEMMA KnownAnswers ==
  ASSUME NEW k \in Keys PROVE Answers[k] \subseteq Known
BY Zenon DEF Keys, Looked, IpsOf, Known

\* Nothing is a known address and no peer, and a dial may be idle.
LEMMA NoAddress == None \in Known /\ None \in Peers /\ Idle \in Dials
<1>1. None \in Known /\ None \in Peers
    BY Zenon DEF Known, Peers
<1> QED
    BY <1>1, Zenon DEF Idle, Dials, Looking

-----------------------------------------------------------------------------
(* Types.                                                                   *)

\* An executor without clients, requests and cached addresses is well typed.
LEMMA TypesInit == Init => Types
<1> SUFFICES ASSUME Init PROVE Types
    BY Zenon
<1>1. zone \in [Keys -> Known]
    BY KnownAnswers, Zenon DEF Init
<1>2. dial \in [Requests -> Dials]
    BY NoAddress, Zenon DEF Init
<1>3. req \in [Requests -> Reqs]
    BY NoAddress, Zenon DEF Init, Reqs
<1>4. \A r \in Requests : dial[r].pc = "none" /\ req[r].pc = "new"
    BY Zenon DEF Init, Idle
<1> QED
    BY <1>1, <1>2, <1>3, <1>4, Zenon DEF Init, Types, Looking

\* Every step of a request, of the connections or of the zone keeps the types.
LEMMA TypesNext == Types /\ Belongs /\ [Next]_vars => Types'
<1> SUFFICES ASSUME Types, Belongs, [Next]_vars PROVE Types'
    BY Zenon
<1> USE UpstreamAssumption
<1>1. ASSUME NEW r \in Requests, NEW p \in Plans, Execute(r, p) PROVE Types'
  <2>0. [req[r] EXCEPT !.pc = "waiting", !.plan = p] \in Reqs
      BY ZenonT(60) DEF Types, Reqs
  <2>1. req' \in [Requests -> Reqs]
      BY <1>1, <2>0, Zenon DEF Types, Execute
  <2>2. \A q \in Requests : req'[q].pc # "new" => req'[q].plan \in Plans
      BY <1>1 DEF Types, Execute, Reqs
  <2>3. \A q \in Requests \ {r} : req'[q] = req[q]
      BY <1>1, Zenon DEF Types, Execute
  <2> QED
      BY <1>1, <2>1, <2>2, <2>3, Zenon DEF Types, Execute, dnsWorld, Transport, At, Looking
<1>2. ASSUME NEW r \in Requests, Reuse(r) PROVE Types'
  <2>1. Transport(r) \in Transports
      BY <1>2, OfRequest, Zenon DEF Types, Reuse
  <2>0. \A peer \in idle[Transport(r)] : [req[r] EXCEPT !.pc = "sent", !.peer = peer] \in Reqs
      BY <2>1, ZenonT(60) DEF Types, Reqs
  <2>2. req' \in [Requests -> Reqs]
    <3>1. PICK peer \in idle[Transport(r)] : req' = [req EXCEPT ![r].pc = "sent", ![r].peer = peer]
        BY <1>2, Zenon DEF Reuse
    <3> QED
        BY <2>0, <3>1, Zenon DEF Types
  <2>5. idle' \in [Transports -> SUBSET Peers]
      BY <1>2, <2>1 DEF Types, Reuse
  <2>3. \A q \in Requests : req'[q].plan = req[q].plan
      BY <1>2, <2>1 DEF Types, Reuse, Reqs
  <2>4. \A q \in Requests : req'[q].pc = "new" <=> req[q].pc = "new"
      BY <1>2, <2>1 DEF Types, Reuse, Reqs
  <2> QED
      BY <1>2, <2>2, <2>3, <2>4, <2>5, ZenonT(40) DEF Types, Reuse, dnsWorld, Transport, Looking
<1>3. ASSUME NEW r \in Requests, Finish(r) PROVE Types'
  <2>1. Transport(r) \in Transports
      BY <1>3, OfRequest, Zenon DEF Types, Finish
  <2>2. req' \in [Requests -> Reqs]
      BY <1>3, NoAddress, ZenonT(60) DEF Types, Finish, Reqs
  <2>3. \A q \in Requests : req'[q].plan = req[q].plan
      BY <1>3, Zenon DEF Types, Finish, Reqs
  <2>4. \A q \in Requests : req'[q].pc = "new" <=> req[q].pc = "new"
      BY <1>3, Zenon DEF Types, Finish, Reqs
  <2>5. idle' \in [Transports -> SUBSET Peers]
      BY <1>3, <2>1 DEF Types, Finish, Reqs
  <2> QED
      BY <1>3, <2>2, <2>3, <2>4, <2>5, ZenonT(40) DEF Types, Finish, dnsWorld, Transport, Looking
<1>4. ASSUME NEW r \in Requests, Cancel(r) PROVE Types'
    BY <1>4, NoAddress, SMTT(30) DEF Types, Cancel, dnsWorld, Reqs, Transport, Looking, Idle
<1>5. ASSUME NEW r \in Requests, DialFixed(r) PROVE Types'
  <2>1. Transport(r).connect_ip \in Known
      BY <1>5, OfRequest, Zenon DEF Types, DialFixed
  <2> QED
      BY <1>5, <2>1, Zenon DEF Types, DialFixed, Found, dnsWorld, Dials, Transport, Looking, NoAddress
<1>6. ASSUME NEW r \in Requests, CheckDnsCache(r) PROVE Types'
  <2>1. Key(r) \in Keys
      BY <1>6, OfRequest, Zenon DEF Types, CheckDnsCache
  <2>2. dns_cache' \in [Keys -> Entries \cup {None}]
      BY <1>6, <2>1, Zenon DEF Types, CheckDnsCache
  <2>3. /\ dial' \in [Requests -> Dials]
        /\ \A q \in Requests \ {r} : dial'[q] = dial[q]
    <3>1. CASE DialTo(r, "resolver")
        BY <3>1, ZenonT(40) DEF Types, DialTo, Dials, Looking
    <3>2. CASE Valid(dns_cache[Key(r)]) /\ Found(r, dns_cache[Key(r)].ip)
      <4>1. dns_cache[Key(r)].ip \in Known
          BY <2>1, <3>2, Zenon DEF Types, Valid, Entries
      <4>2. QED
          BY <3>2, <4>1, ZenonT(40) DEF Types, Found, Dials
    <3>3. QED
        BY <1>6, <3>1, <3>2, Zenon DEF CheckDnsCache
  <2>4. Transport(r).connect_ip = None /\ req[r].pc # "new"
      BY <1>6, Zenon DEF CheckDnsCache
  <2>5. /\ req' = req
        /\ \A q \in Requests : Transport(q)' = Transport(q)
      BY <1>6, Zenon DEF CheckDnsCache, Transport
  <2>6. \A q \in Requests : dial'[q].pc # "none" => req'[q].pc # "new"
      BY <2>3, <2>4, <2>5, Zenon DEF Types
  <2>7. \A q \in Requests : dial'[q].pc \in Looking => Transport(q)'.connect_ip = None
      BY <2>3, <2>4, <2>5, ZenonT(40) DEF Types
  <2> QED
      BY <1>6, <2>2, <2>3, <2>5, <2>6, <2>7, Zenon DEF Types, CheckDnsCache, dnsWorld
<1>7. ASSUME NEW r \in Requests, GetResolver(r) PROVE Types'
  <2>1. Resolver(r) \in Resolvers
      BY <1>7, OfRequest, Zenon DEF Types, GetResolver, At, Looking
  <2>2. dial' \in [Requests -> Dials]
      BY <1>7, <2>1, NoAddress, SMTT(30) DEF Types, GetResolver, LookUpWith, DialTo, Dials, Looking
  <2>3. \A q \in Requests \ {r} : dial'[q] = dial[q]
      BY <1>7, Zenon DEF Types, GetResolver, LookUpWith, DialTo
  <2> QED
      BY <1>7, <2>1, <2>2, <2>3, ZenonT(40) DEF Types, GetResolver, At, dnsWorld, Transport, Looking
<1>8. ASSUME NEW r \in Requests, CreateResolver(r) PROVE Types'
  <2>1. Resolver(r) \in Resolvers
      BY <1>8, OfRequest, Zenon DEF Types, CreateResolver, At, Looking
  <2>2. dial' \in [Requests -> Dials]
      BY <1>8, <2>1, NoAddress DEF Types, CreateResolver, LookUpWith, Dials, Looking
  <2>3. \A q \in Requests \ {r} : dial'[q] = dial[q]
      BY <1>8, Zenon DEF Types, CreateResolver, LookUpWith
  <2>4. resolvers' \in [Resolvers -> Requests \cup {None}]
      BY <1>8, <2>1, Zenon DEF Types, CreateResolver
  <2> QED
      BY <1>8, <2>2, <2>3, <2>4, Zenon DEF Types, CreateResolver, At, dnsWorld, Transport, Looking
<1>9. ASSUME NEW r \in Requests, ServerAnswers(r) PROVE Types'
  <2>1. Key(r) \in Keys
      BY <1>9, OfRequest, Zenon DEF Types, ServerAnswers, At, Looking
  <2>2. [dial[r] EXCEPT !.pc = "answered", !.ip = zone[Key(r)]] \in Dials
      BY <2>1, ZenonT(60) DEF Types, Dials, Looking
  <2>3. dial' \in [Requests -> Dials]
      BY <1>9, <2>2, Zenon DEF Types, ServerAnswers
  <2>4. \A q \in Requests \ {r} : dial'[q] = dial[q]
      BY <1>9, Zenon DEF Types, ServerAnswers
  <2> QED
      BY <1>9, <2>3, <2>4, ZenonT(40) DEF Types, ServerAnswers, At, dnsWorld, Transport, Looking
<1>10. ASSUME NEW r \in Requests, CacheAnswer(r) PROVE Types'
  <2>1. Key(r) \in Keys
      BY <1>10, OfRequest, Zenon DEF Types, CacheAnswer, At, Looking
  <2> QED
      BY <1>10, <2>1 DEF Types, CacheAnswer, Found, At, dnsWorld, Dials, Entries, Transport, Looking
<1>11. ASSUME NEW r \in Requests, Connected(r) PROVE Types'
  <2>1. Transport(r) \in Transports /\ Conns(Transport(r)) \subseteq Peers
      BY <1>11, OfRequest, Zenon DEF Types, Connected, At
  <2>2. Peer(Transport(r), dial[r].ip) \in Peers
      BY <1>11, <2>1, Zenon DEF Belongs, Conns, Connected, At
  <2>3. req' \in [Requests -> Reqs]
      BY <1>11, <2>2, SMTT(30) DEF Types, Connected, Reqs
  <2>4. \A q \in Requests : req'[q].plan = req[q].plan
      BY <1>11 DEF Types, Connected, Reqs
  <2>5. \A q \in Requests : req'[q].pc = "new" <=> req[q].pc = "new"
      BY <1>11, SMTT(30) DEF Types, Connected, Reqs
  <2>6. idle' \in [Transports -> SUBSET Peers]
      BY <1>11, <2>1, <2>2 DEF Types, Connected
  <2>7. dial' \in [Requests -> Dials]
      BY <1>11, NoAddress, Zenon DEF Types, Connected
  <2> QED
      BY <1>11, <2>3, <2>4, <2>5, <2>6, <2>7, SMTT(30) DEF Types, Connected, At, dnsWorld, Transport, Looking, Idle
<1>12. ASSUME NEW r \in Requests, DialFails(r) PROVE Types'
    BY <1>12, NoAddress, SMTT(30) DEF Types, DialFails, dnsWorld, Reqs, Transport, Looking, Idle
<1>13. ASSUME NEW t \in Transports, CloseIdle(t) PROVE Types'
    BY <1>13, ZenonT(40) DEF Types, CloseIdle, dnsWorld, Transport
<1>14. ASSUME NEW k \in Keys, ChangeRecord(k) PROVE Types'
    BY <1>14, KnownAnswers, ZenonT(40) DEF Types, ChangeRecord, Transport
<1>15. CASE Tick
    BY <1>15 DEF Types, Tick, Transport
<1>16. CASE UNCHANGED vars
    BY <1>16, Zenon DEF Types, vars, Transport
<1> QED
    BY Zenon, <1>1, <1>2, <1>3, <1>4, <1>5, <1>6, <1>7, <1>8, <1>9, <1>10, <1>11, <1>12, <1>13,
       <1>14, <1>15, <1>16 DEF Next

-----------------------------------------------------------------------------
(* Addresses and connections.                                               *)

\* A step that only moves request r on leaves the others as they are.
LEMMA OthersBelong ==
  ASSUME Types, Belongs, NEW r \in Requests,
         \A q \in Requests \ {r} : req'[q] = req[q] /\ dial'[q] = dial[q]
  PROVE  \A q \in Requests \ {r} :
           /\ dial'[q].pc \in {"answered", "dial"} => dial'[q].ip \in IpsOf(Transport(q)')
           /\ req'[q].pc = "sent" => req'[q].peer \in Conns(Transport(q)')
BY Zenon DEF Belongs, Transport

\* Nothing is cached, dialled or connected at first.
LEMMA BelongsInit == Init => Belongs
BY DEF Init, Belongs, Idle

\* Every step keeps addresses and connections under the identities they belong to.
LEMMA BelongsNext == Types /\ Belongs /\ [Next]_vars => Belongs'
<1> SUFFICES ASSUME Types, Belongs, [Next]_vars PROVE Belongs'
    BY Zenon
<1> DEFINE Others(r) == \A q \in Requests \ {r} : req'[q] = req[q] /\ dial'[q] = dial[q]
           DialOK(r) == dial'[r].pc \in {"answered", "dial"} => dial'[r].ip \in IpsOf(Transport(r)')
           ReqOK(r) == req'[r].pc = "sent" => req'[r].peer \in Conns(Transport(r)')
           CacheOK == \A k \in Keys : dns_cache'[k] # None => dns_cache'[k].ip \in Answers[k]
           IdleOK == \A t \in Transports : idle'[t] \subseteq Conns(t)
<1>0. ASSUME NEW r \in Requests, Others(r), DialOK(r), ReqOK(r), CacheOK, IdleOK, zone' = zone
      PROVE  Belongs'
    BY <1>0, OthersBelong, Zenon DEF Belongs
<1>1. ASSUME NEW r \in Requests, NEW p \in Plans, Execute(r, p) PROVE Belongs'
  <2>1. Others(r)
      BY <1>1, Zenon DEF Types, Execute
  <2>2. req'[r].pc = "waiting" /\ dial'[r].pc = "none"
      BY <1>1, Zenon DEF Types, Execute, Reqs, At
  <2> QED
      BY <1>0, <1>1, <2>1, <2>2, Zenon DEF Belongs, Execute, dnsWorld
<1>2. ASSUME NEW r \in Requests, Reuse(r) PROVE Belongs'
  <2>0. Transport(r) \in Transports
      BY <1>2, OfRequest, Zenon DEF Types, Reuse
  <2>1. Others(r) /\ dial'[r] = dial[r]
      BY <1>2, Zenon DEF Types, Reuse
  <2>2. req'[r].plan = req[r].plan /\ req'[r].peer \in idle[Transport(r)]
      BY <1>2 DEF Types, Reuse, Reqs
  <2>3. DialOK(r) /\ ReqOK(r)
      BY <2>0, <2>1, <2>2, Zenon DEF Belongs, Transport
  <2>4. IdleOK
      BY <1>2, <2>0 DEF Types, Belongs, Reuse
  <2> QED
      BY <1>0, <1>2, <2>1, <2>3, <2>4, Zenon DEF Belongs, Reuse, dnsWorld
<1>3. ASSUME NEW r \in Requests, Finish(r) PROVE Belongs'
  <2>0. Transport(r) \in Transports
      BY <1>3, OfRequest, Zenon DEF Types, Finish
  <2>1. Others(r) /\ dial'[r] = dial[r]
      BY <1>3, Zenon DEF Types, Finish
  <2>2. req'[r].plan = req[r].plan /\ req'[r].pc = "done"
      BY <1>3, Zenon DEF Types, Finish, Reqs
  <2>3. DialOK(r) /\ ReqOK(r)
      BY <2>1, <2>2, Zenon DEF Belongs, Transport
  <2>4. IdleOK
      BY <1>3, <2>0 DEF Types, Belongs, Finish
  <2> QED
      BY <1>0, <1>3, <2>1, <2>3, <2>4, Zenon DEF Belongs, Finish, dnsWorld
<1>4. ASSUME NEW r \in Requests, Cancel(r) PROVE Belongs'
  <2>1. Others(r) /\ dial'[r].pc = "none" /\ req'[r].pc = "done"
      BY <1>4, Zenon DEF Types, Cancel, Reqs, Idle
  <2> QED
      BY <1>0, <1>4, <2>1, Zenon DEF Belongs, Cancel, dnsWorld
<1>5. ASSUME NEW r \in Requests, DialFixed(r) PROVE Belongs'
  <2>0. IpsOf(Transport(r)) = {Transport(r).connect_ip}
      BY <1>5, OfRequest, Zenon DEF Types, DialFixed
  <2>1. Others(r) /\ dial'[r].ip = Transport(r).connect_ip /\ req' = req
      BY <1>5, Zenon DEF Types, DialFixed, Found
  <2>2. DialOK(r) /\ ReqOK(r)
      BY <2>0, <2>1, Zenon DEF Belongs, Transport
  <2> QED
      BY <1>0, <1>5, <2>1, <2>2, Zenon DEF Belongs, DialFixed, dnsWorld
<1>6. ASSUME NEW r \in Requests, CheckDnsCache(r) PROVE Belongs'
  <2>0. Key(r) \in Keys /\ IpsOf(Transport(r)) = Answers[Key(r)]
      BY <1>6, OfRequest, Zenon DEF Types, CheckDnsCache
  <2>1. Others(r) /\ req' = req
      BY <1>6, ZenonT(40) DEF Types, CheckDnsCache, Found, DialTo
  <2>2. CASE Valid(dns_cache[Key(r)])
    <3>1. dial'[r].ip = dns_cache[Key(r)].ip /\ dns_cache' = dns_cache /\ dns_cache[Key(r)] # None
        BY <1>6, <2>2 DEF Types, CheckDnsCache, Found, Valid
    <3>2. DialOK(r) /\ ReqOK(r)
        BY <2>0, <2>1, <3>1, Zenon DEF Belongs, Transport
    <3> QED
        BY <1>0, <1>6, <2>1, <3>1, <3>2, Zenon DEF Belongs, CheckDnsCache, dnsWorld
  <2>3. CASE ~Valid(dns_cache[Key(r)])
    <3>1. dial'[r].pc = "resolver" /\ dns_cache' = [dns_cache EXCEPT ![Key(r)] = None]
        BY <1>6, <2>3 DEF Types, CheckDnsCache, DialTo, Dials
    <3>2. CacheOK
        BY <2>0, <3>1, Zenon DEF Types, Belongs
    <3>3. DialOK(r) /\ ReqOK(r)
        BY <2>1, <3>1, Zenon DEF Belongs, Transport
    <3> QED
        BY <1>0, <1>6, <2>1, <3>2, <3>3, Zenon DEF Belongs, CheckDnsCache, dnsWorld
  <2> QED
      BY <2>2, <2>3, Zenon
<1>7. ASSUME NEW r \in Requests, GetResolver(r) PROVE Belongs'
  <2>1. Others(r) /\ req' = req /\ dial'[r].pc \in {"lookup", "creating"}
      BY <1>7 DEF Types, GetResolver, LookUpWith, DialTo, Dials
  <2>2. DialOK(r) /\ ReqOK(r)
      BY <2>1, Zenon DEF Belongs, Transport
  <2> QED
      BY <1>0, <1>7, <2>1, <2>2, Zenon DEF Belongs, GetResolver, dnsWorld
<1>8. ASSUME NEW r \in Requests, CreateResolver(r) PROVE Belongs'
  <2>1. Others(r) /\ req' = req /\ dial'[r].pc = "lookup"
      BY <1>8 DEF Types, CreateResolver, LookUpWith
  <2>2. DialOK(r) /\ ReqOK(r)
      BY <2>1, Zenon DEF Belongs, Transport
  <2> QED
      BY <1>0, <1>8, <2>1, <2>2, Zenon DEF Belongs, CreateResolver, dnsWorld
<1>9. ASSUME NEW r \in Requests, ServerAnswers(r) PROVE Belongs'
  <2>0. Key(r) \in Keys /\ IpsOf(Transport(r)) = Answers[Key(r)]
      BY <1>9, OfRequest, Zenon DEF Types, ServerAnswers, At, Looking
  <2>1. Others(r) /\ req' = req /\ dial'[r].ip = zone[Key(r)]
      BY <1>9, Zenon DEF Types, ServerAnswers, Dials
  <2>2. DialOK(r) /\ ReqOK(r)
      BY <2>0, <2>1, Zenon DEF Belongs, Transport
  <2> QED
      BY <1>0, <1>9, <2>1, <2>2, Zenon DEF Belongs, ServerAnswers, dnsWorld
<1>10. ASSUME NEW r \in Requests, CacheAnswer(r) PROVE Belongs'
  <2>0. Key(r) \in Keys /\ IpsOf(Transport(r)) = Answers[Key(r)]
      BY <1>10, OfRequest, Zenon DEF Types, CacheAnswer, At, Looking
  <2>1. Others(r) /\ req' = req /\ dial'[r].ip = dial[r].ip
      BY <1>10, Zenon DEF Types, CacheAnswer, Found
  <2>2. DialOK(r) /\ ReqOK(r)
      BY <1>10, <2>1, Zenon DEF Belongs, Transport, CacheAnswer, At
  <2>3. CacheOK
      BY <1>10, <2>0, Zenon DEF Types, Belongs, CacheAnswer, At
  <2> QED
      BY <1>0, <1>10, <2>1, <2>2, <2>3, Zenon DEF Belongs, CacheAnswer, dnsWorld
<1>11. ASSUME NEW r \in Requests, Connected(r) PROVE Belongs'
  <2>0. Transport(r) \in Transports
      BY <1>11, OfRequest, Zenon DEF Types, Connected, At
  <2>1. Others(r) /\ dial'[r].pc = "none" /\ req'[r].plan = req[r].plan
      BY <1>11 DEF Types, Connected, Idle, Reqs
  <2>2. Peer(Transport(r), dial[r].ip) \in Conns(Transport(r))
      BY <1>11, Zenon DEF Belongs, Conns, Connected, At
  <2>3. IdleOK
      BY <1>11, <2>0, <2>2, ZenonT(40) DEF Types, Belongs, Connected
  <2>4. ReqOK(r)
      BY <1>11, <2>1, <2>2 DEF Types, Belongs, Connected, Reqs, Transport
  <2> QED
      BY <1>0, <1>11, <2>1, <2>3, <2>4, Zenon DEF Belongs, Connected, dnsWorld
<1>12. ASSUME NEW r \in Requests, DialFails(r) PROVE Belongs'
  <2>1. Others(r) /\ dial'[r].pc = "none" /\ req'[r].plan = req[r].plan
      BY <1>12, Zenon DEF Types, DialFails, Idle, Reqs
  <2>2. req'[r].pc = "sent" => req[r].pc = "sent" /\ req'[r].peer = req[r].peer
      BY <1>12, Zenon DEF Types, DialFails, Reqs
  <2>3. ReqOK(r)
      BY <2>1, <2>2, Zenon DEF Belongs, Transport
  <2> QED
      BY <1>0, <1>12, <2>1, <2>3, Zenon DEF Belongs, DialFails, dnsWorld
<1>13. ASSUME NEW t \in Transports, CloseIdle(t) PROVE Belongs'
    BY <1>13, Zenon DEF Types, Belongs, CloseIdle, dnsWorld, Transport
<1>14. ASSUME NEW k \in Keys, ChangeRecord(k) PROVE Belongs'
    BY <1>14, Zenon DEF Types, Belongs, ChangeRecord, Transport
<1>15. CASE Tick
    BY <1>15, Zenon DEF Belongs, Tick, Transport
<1>16. CASE UNCHANGED vars
    BY <1>16, Zenon DEF Belongs, vars, Transport
<1> QED
    BY Zenon, <1>1, <1>2, <1>3, <1>4, <1>5, <1>6, <1>7, <1>8, <1>9, <1>10, <1>11, <1>12, <1>13,
       <1>14, <1>15, <1>16 DEF Next

-----------------------------------------------------------------------------
(* Resolvers.                                                               *)

\* Nobody is looking anything up at first.
LEMMA SharedInit == Init => Shared
BY DEF Init, Shared, Idle

\* No step takes a resolver that is in use out of the cache or replaces it.
LEMMA SharedNext == Types /\ Shared /\ [Next]_vars => Shared'
<1> SUFFICES ASSUME Types, Shared, [Next]_vars PROVE Shared'
    BY Zenon
<1> DEFINE Others(r) == \A q \in Requests \ {r} : req'[q] = req[q] /\ dial'[q] = dial[q]
           OK(r) == dial'[r].pc \in {"lookup", "answered"} =>
                      dial'[r].resolver # None /\ dial'[r].resolver = resolvers'[Resolver(r)']
<1>0. ASSUME NEW r \in Requests, Others(r), OK(r), resolvers' = resolvers PROVE Shared'
    BY <1>0, Zenon DEF Shared, Resolver, Transport
<1>1. ASSUME NEW r \in Requests, NEW p \in Plans, Execute(r, p) PROVE Shared'
  <2>1. Others(r) /\ dial'[r].pc = "none"
      BY <1>1, Zenon DEF Types, Execute, At
  <2> QED
      BY <1>0, <1>1, <2>1, Zenon DEF Execute
<1>2. ASSUME NEW r \in Requests, Reuse(r) \/ Finish(r) PROVE Shared'
  <2>1. Others(r) /\ dial' = dial /\ req'[r].plan = req[r].plan /\ resolvers' = resolvers
      BY <1>2 DEF Types, Reuse, Finish, Reqs
  <2> QED
      BY <1>0, <2>1, Zenon DEF Shared, Resolver, Transport
<1>3. ASSUME NEW r \in Requests, Cancel(r) \/ Connected(r) \/ DialFails(r) PROVE Shared'
  <2>1. Others(r) /\ dial'[r].pc = "none" /\ resolvers' = resolvers
      BY <1>3 DEF Types, Cancel, Connected, DialFails, Idle
  <2> QED
      BY <1>0, <2>1, Zenon
<1>4. ASSUME NEW r \in Requests, DialFixed(r) \/ CheckDnsCache(r) \/ CacheAnswer(r) PROVE Shared'
  <2>1. Others(r) /\ dial'[r].pc \in {"dial", "resolver"} /\ resolvers' = resolvers
      BY <1>4 DEF Types, DialFixed, CheckDnsCache, CacheAnswer, Found, DialTo, Dials
  <2> QED
      BY <1>0, <2>1, Zenon
<1>5. ASSUME NEW r \in Requests, GetResolver(r) PROVE Shared'
  <2>1. Others(r) /\ resolvers' = resolvers /\ req' = req
      BY <1>5, Zenon DEF Types, GetResolver, LookUpWith, DialTo
  <2>2. OK(r)
      BY <1>5, <2>1 DEF Types, GetResolver, LookUpWith, DialTo, Resolver, Transport, Dials
  <2> QED
      BY <1>0, <2>1, <2>2, Zenon
<1>6. ASSUME NEW r \in Requests, CreateResolver(r) PROVE Shared'
  <2>1. Others(r) /\ req' = req
      BY <1>6, ZenonT(40) DEF Types, CreateResolver, LookUpWith
  <2>2. CASE resolvers[Resolver(r)] # None
    <3>1. OK(r) /\ resolvers' = resolvers
        BY <1>6, <2>1, <2>2 DEF Types, CreateResolver, LookUpWith, Resolver, Transport
    <3> QED
        BY <1>0, <2>1, <3>1, Zenon
  <2>3. CASE resolvers[Resolver(r)] = None
    <3>1. resolvers' = [resolvers EXCEPT ![Resolver(r)] = r] /\ dial'[r].resolver = r
        BY <1>6, <2>3 DEF Types, CreateResolver, LookUpWith
    <3>2. Resolver(r) \in Resolvers
        BY <1>6, OfRequest, Zenon DEF Types, CreateResolver, At, Looking
    <3>3. OK(r)
        BY <2>1, <3>1, <3>2, UpstreamAssumption, Zenon DEF Types, Resolver, Transport
    <3>4. ASSUME NEW q \in Requests \ {r}, dial[q].pc \in {"lookup", "answered"}
          PROVE  Resolver(q) \in Resolvers /\ Resolver(q) # Resolver(r)
        BY <2>3, <3>4, OfRequest, Zenon DEF Types, Shared, Looking
    <3>5. ASSUME NEW q \in Requests \ {r}, dial[q].pc \in {"lookup", "answered"}
          PROVE  resolvers'[Resolver(q)] = resolvers[Resolver(q)]
        BY <3>1, <3>4, <3>5, Zenon DEF Types
    <3> QED
        BY <2>1, <3>3, <3>5, ZenonT(40) DEF Shared, Resolver, Transport
  <2> QED
      BY <2>2, <2>3, Zenon
<1>7. ASSUME NEW r \in Requests, ServerAnswers(r) PROVE Shared'
  <2>1. Others(r) /\ resolvers' = resolvers /\ req' = req
      BY <1>7, Zenon DEF Types, ServerAnswers
  <2>2. dial[r].pc = "lookup" /\ dial'[r].resolver = dial[r].resolver
      BY <1>7, Zenon DEF Types, ServerAnswers, Dials, At
  <2> QED
      BY <1>0, <2>1, <2>2, ZenonT(40) DEF Shared, Resolver, Transport
<1>8. CASE (\E t \in Transports : CloseIdle(t)) \/ (\E k \in Keys : ChangeRecord(k)) \/ Tick \/ UNCHANGED vars
    BY <1>8, Zenon DEF Shared, CloseIdle, ChangeRecord, Tick, vars, Resolver, Transport
<1> QED
    BY <1>1, <1>2, <1>3, <1>4, <1>5, <1>6, <1>7, <1>8, Zenon DEF Next

-----------------------------------------------------------------------------
(* Time.                                                                    *)

\* The durations are numbers, and the time to live is not zero.
LEMMA Bounds == Ttl \in Nat /\ Ttl > 0 /\ MaxLookup \in Nat /\ MaxTime \in Nat
BY UpstreamAssumption

\* Nothing is old at first.
LEMMA FreshInit == Init => Fresh /\ StaleAddressesEnd
BY Bounds, SMTT(30) DEF Init, Fresh, StaleAddressesEnd, Idle

\* Every step keeps the ages of answers and cached addresses bounded, and from the
\* bounds follows StaleAddressesEnd after the step.
LEMMA FreshNext ==
  Types /\ Fresh /\ StaleAddressesEnd /\ [Next]_vars => Fresh' /\ StaleAddressesEnd'
<1> DEFINE Goal == Fresh' /\ StaleAddressesEnd'
<1> SUFFICES ASSUME Types, Fresh, StaleAddressesEnd, [Next]_vars PROVE Goal
    BY Zenon
<1> DEFINE Others(r) == \A q \in Requests \ {r} : req'[q] = req[q] /\ dial'[q] = dial[q]
           World == zone' = zone /\ changed' = changed /\ now' = now
           AtOK(r) == /\ dial'[r].at <= now
                      /\ dial'[r].pc \in {"lookup", "answered"} => now <= dial'[r].at + MaxLookup
           AnswerOK(r) == dial'[r].pc = "answered" =>
                            \/ dial'[r].ip = zone[Key(r)']
                            \/ dial'[r].at <= changed[Key(r)']
           CacheOK == \A k \in Keys : dns_cache'[k] # None =>
                        /\ dns_cache'[k].expires <= now + Ttl
                        /\ \/ dns_cache'[k].ip = zone[k]
                           \/ dns_cache'[k].expires <= changed[k] + MaxLookup + Ttl
           DialOK(r) == dial'[r].pc = "dial" /\ Transport(r)'.connect_ip = None =>
                          \/ dial'[r].ip = zone[Key(r)']
                          \/ dial'[r].at - changed[Key(r)'] < Ttl + MaxLookup
<1>0. ASSUME NEW r \in Requests, Others(r), World, AtOK(r), AnswerOK(r), CacheOK, DialOK(r) PROVE Goal
  <2>1. Fresh'
      BY <1>0, ZenonT(40) DEF Fresh, Key, Transport
  <2>2. StaleAddressesEnd'
      BY <1>0, ZenonT(40) DEF StaleAddressesEnd, Key, Transport
  <2> QED
      BY <2>1, <2>2, Zenon
<1>00. ASSUME dns_cache' = dns_cache PROVE CacheOK
    BY <1>00, Zenon DEF Fresh
<1>01. \A r \in Requests : dial[r].at \in Nat /\ dial[r].at <= now
    BY Zenon DEF Types, Dials, Fresh
<1>02. now \in Nat /\ now <= now /\ now <= now + MaxLookup
    BY Bounds DEF Types
<1>03. \A k \in Keys : changed[k] \in Nat /\ changed[k] <= now
    BY Zenon DEF Types, Fresh
<1>04. \A k \in Keys : dns_cache[k] # None =>
         /\ dns_cache[k].expires \in Nat /\ dns_cache[k].expires <= now + Ttl
         /\ dns_cache[k].ip = zone[k] \/ dns_cache[k].expires <= changed[k] + MaxLookup + Ttl
    BY Zenon DEF Types, Fresh, Entries
<1>05. \A r \in Requests :
         /\ dial[r].pc \in {"lookup", "answered"} => now <= dial[r].at + MaxLookup
         /\ dial[r].pc = "answered" => dial[r].ip = zone[Key(r)] \/ dial[r].at <= changed[Key(r)]
    BY Zenon DEF Fresh
<1>06. ASSUME NEW r \in Requests, Others(r), World, dns_cache' = dns_cache, AtOK(r),
              dial'[r].pc \notin {"answered", "dial"}
       PROVE  Goal
    BY <1>0, <1>00, <1>06, Zenon
<1> HIDE DEF Goal, Others, World, AtOK, AnswerOK, CacheOK, DialOK
<1>1. ASSUME NEW r \in Requests, NEW p \in Plans, Execute(r, p) PROVE Goal
  <2>1. Others(r) /\ World /\ dial'[r].pc = "none" /\ dial'[r].at = dial[r].at /\ dns_cache' = dns_cache
      BY <1>1, Zenon DEF Types, Execute, At, dnsWorld, Others, World
  <2>2. AtOK(r)
      BY <1>01, <2>1, Zenon DEF AtOK
  <2> QED
      BY <1>06, <2>1, <2>2, Zenon
<1>2. ASSUME NEW r \in Requests, Reuse(r) \/ Finish(r) PROVE Goal
  <2>1. Others(r) /\ World /\ dial' = dial /\ req'[r].plan = req[r].plan /\ dns_cache' = dns_cache
      BY <1>2 DEF Types, Reuse, Finish, Reqs, dnsWorld, Others, World
  <2>2. Transport(r)' = Transport(r) /\ Key(r)' = Key(r)
      BY <2>1, Zenon DEF Key, Transport
  <2>3. AtOK(r)
      BY <1>01, <1>05, <2>1, Zenon DEF AtOK
  <2>4. AnswerOK(r)
      BY <1>05, <2>1, <2>2, Zenon DEF AnswerOK
  <2>5. DialOK(r)
      BY <2>1, <2>2, Zenon DEF DialOK, StaleAddressesEnd
  <2> QED
      BY <1>0, <1>00, <2>1, <2>3, <2>4, <2>5, Zenon
<1>3. ASSUME NEW r \in Requests, Cancel(r) \/ Connected(r) \/ DialFails(r) PROVE Goal
  <2>1. Others(r) /\ World /\ dial'[r] = Idle /\ dns_cache' = dns_cache
      BY <1>3, Zenon DEF Types, Cancel, Connected, DialFails, dnsWorld, Others, World
  <2>2. dial'[r].pc = "none" /\ dial'[r].at = 0
      BY <2>1 DEF Idle
  <2>3. AtOK(r)
      BY <1>02, <2>2 DEF AtOK
  <2> QED
      BY <1>06, <2>1, <2>2, <2>3, Zenon
<1>4. ASSUME NEW r \in Requests, DialFixed(r) PROVE Goal
  <2>1. Others(r) /\ World /\ req' = req /\ dns_cache' = dns_cache
      BY <1>4, Zenon DEF Types, DialFixed, Found, dnsWorld, Others, World
  <2>2. dial'[r].pc = "dial" /\ dial'[r].at = now
      BY <1>4, Zenon DEF Types, DialFixed, Found
  <2>3. Transport(r)'.connect_ip # None
      BY <1>4, <2>1, Zenon DEF DialFixed, Transport
  <2>4. AtOK(r)
      BY <1>02, <2>2, Zenon DEF AtOK
  <2>5. AnswerOK(r) /\ DialOK(r)
      BY <2>2, <2>3, Zenon DEF AnswerOK, DialOK
  <2> QED
      BY <1>0, <1>00, <2>1, <2>4, <2>5, Zenon
<1>5. ASSUME NEW r \in Requests, CheckDnsCache(r) PROVE Goal
  <2>0. Key(r) \in Keys
      BY <1>5, OfRequest, Zenon DEF Types, CheckDnsCache
  <2>1. Others(r) /\ World /\ req' = req
      BY <1>5, Zenon DEF Types, CheckDnsCache, Found, DialTo, dnsWorld, Others, World
  <2>2. CASE Valid(dns_cache[Key(r)])
    <3>1. /\ dial'[r] = [pc |-> "dial", resolver |-> None, ip |-> dns_cache[Key(r)].ip, at |-> now]
          /\ dns_cache' = dns_cache
        BY <1>5, <2>2, Zenon DEF Types, CheckDnsCache, Found
    <3>2. dial'[r].pc = "dial" /\ dial'[r].ip = dns_cache[Key(r)].ip /\ dial'[r].at = now
        BY <3>1
    <3>3. dns_cache[Key(r)] # None /\ dns_cache[Key(r)].expires > now
        BY <2>2, Zenon DEF Valid
    <3>4. \/ dns_cache[Key(r)].ip = zone[Key(r)]
          \/ now - changed[Key(r)] < Ttl + MaxLookup
        BY <1>02, <1>03, <1>04, <2>0, <3>3, Bounds
    <3>5. Key(r)' = Key(r)
        BY <2>1, Zenon DEF Key, Transport
    <3>6. DialOK(r)
        BY <3>2, <3>4, <3>5, Zenon DEF DialOK
    <3>7. AtOK(r) /\ AnswerOK(r)
        BY <1>02, <3>2, Zenon DEF AtOK, AnswerOK
    <3> QED
        BY <1>0, <1>00, <2>1, <3>1, <3>6, <3>7, Zenon
  <2>3. CASE ~Valid(dns_cache[Key(r)])
    <3>1. /\ dial'[r].pc = "resolver" /\ dial'[r].at = dial[r].at
          /\ dns_cache' = [dns_cache EXCEPT ![Key(r)] = None]
        BY <1>5, <2>3 DEF Types, CheckDnsCache, DialTo, Dials
    <3>2. \A k \in Keys : dns_cache'[k] # None => dns_cache'[k] = dns_cache[k]
        BY <3>1, Zenon DEF Types
    <3>3. CacheOK
        BY <1>04, <3>2, Zenon DEF CacheOK
    <3>4. AtOK(r) /\ AnswerOK(r) /\ DialOK(r)
        BY <1>01, <3>1, Zenon DEF AtOK, AnswerOK, DialOK
    <3> QED
        BY <1>0, <2>1, <3>3, <3>4, Zenon
  <2> QED
      BY <2>2, <2>3, Zenon
<1>6. ASSUME NEW r \in Requests, GetResolver(r) \/ CreateResolver(r) PROVE Goal
  <2>1. Others(r) /\ World /\ dns_cache' = dns_cache
      BY <1>6, Zenon DEF Types, GetResolver, CreateResolver, LookUpWith, DialTo, dnsWorld, Others, World
  <2>2. \/ dial'[r].pc = "lookup" /\ dial'[r].at = now
        \/ dial'[r].pc = "creating" /\ dial'[r].at = dial[r].at
      BY <1>6 DEF Types, GetResolver, CreateResolver, LookUpWith, DialTo, Dials
  <2>3. AtOK(r)
      BY <1>01, <1>02, <2>2, Zenon DEF AtOK
  <2> QED
      BY <1>06, <2>1, <2>2, <2>3, Zenon
<1>7. ASSUME NEW r \in Requests, ServerAnswers(r) PROVE Goal
  <2>1. Others(r) /\ World /\ req' = req /\ dns_cache' = dns_cache
      BY <1>7, Zenon DEF Types, ServerAnswers, dnsWorld, Others, World
  <2>2. /\ dial[r].pc = "lookup" /\ dial'[r].pc = "answered"
        /\ dial'[r].at = dial[r].at /\ dial'[r].ip = zone[Key(r)]
      BY <1>7, Zenon DEF Types, ServerAnswers, At, Dials
  <2>3. Key(r)' = Key(r)
      BY <2>1, Zenon DEF Key, Transport
  <2>4. AtOK(r)
      BY <1>01, <1>05, <2>2, Zenon DEF AtOK
  <2>5. AnswerOK(r) /\ DialOK(r)
      BY <2>2, <2>3, Zenon DEF AnswerOK, DialOK
  <2> QED
      BY <1>0, <1>00, <2>1, <2>4, <2>5, Zenon
<1>8. ASSUME NEW r \in Requests, CacheAnswer(r) PROVE Goal
  <2>0. Key(r) \in Keys
      BY <1>8, OfRequest, Zenon DEF Types, CacheAnswer, At, Looking
  <2>1. Others(r) /\ World /\ req' = req /\ dial[r].pc = "answered"
      BY <1>8, Zenon DEF Types, CacheAnswer, Found, dnsWorld, At, Others, World
  <2>2. dial'[r] = [pc |-> "dial", resolver |-> None, ip |-> dial[r].ip, at |-> now]
      BY <1>8, Zenon DEF Types, CacheAnswer, Found
  <2>3. dial'[r].pc = "dial" /\ dial'[r].ip = dial[r].ip /\ dial'[r].at = now
      BY <2>2
  <2>4. PICK e : /\ e = [ip |-> dial[r].ip, expires |-> now + Ttl]
                 /\ dns_cache' = [dns_cache EXCEPT ![Key(r)] = e]
      BY <1>8, Zenon DEF CacheAnswer
  <2>5. /\ dns_cache'[Key(r)] = e
        /\ \A k \in Keys \ {Key(r)} : dns_cache'[k] = dns_cache[k]
      BY <2>0, <2>4, Zenon DEF Types
  <2>6. e.ip = dial[r].ip /\ e.expires = now + Ttl
      BY <2>4, Zenon
  <2>7. dial[r].ip = zone[Key(r)] \/ now <= changed[Key(r)] + MaxLookup
      BY <1>01, <1>02, <1>03, <1>05, <2>0, <2>1, Bounds
  <2>8. /\ e.expires <= now + Ttl
        /\ e.ip = zone[Key(r)] \/ e.expires <= changed[Key(r)] + MaxLookup + Ttl
      BY <1>02, <1>03, <2>0, <2>6, <2>7, Bounds
  <2>9. CacheOK
      BY <1>04, <2>5, <2>8, Zenon DEF CacheOK
  <2>10. Key(r)' = Key(r)
      BY <2>1, Zenon DEF Key, Transport
  <2>11. dial[r].ip = zone[Key(r)] \/ now - changed[Key(r)] < Ttl + MaxLookup
      BY <1>02, <1>03, <2>0, <2>7, Bounds
  <2>12. DialOK(r)
      BY <2>3, <2>10, <2>11, Zenon DEF DialOK
  <2>13. AtOK(r) /\ AnswerOK(r)
      BY <1>02, <2>3, Zenon DEF AtOK, AnswerOK
  <2> QED
      BY <1>0, <2>1, <2>9, <2>12, <2>13, Zenon
<1>9. ASSUME NEW t \in Transports, CloseIdle(t) PROVE Goal
    BY <1>9, Zenon DEF Goal, Fresh, StaleAddressesEnd, CloseIdle, dnsWorld, Key, Transport
<1>10. ASSUME NEW k \in Keys, ChangeRecord(k) PROVE Goal
  <2>1. /\ dns_cache' = dns_cache /\ req' = req /\ dial' = dial /\ now' = now
        /\ \A j \in Keys \ {k} : zone'[j] = zone[j] /\ changed'[j] = changed[j]
        /\ changed'[k] = now
      BY <1>10, Zenon DEF Types, ChangeRecord
  <2>2. \A q \in Requests : dial[q].pc = "answered" => Key(q) \in Keys
      BY OfRequest, Zenon DEF Types, Looking
  <2>3. \A q \in Requests : dial[q].pc = "dial" /\ Transport(q).connect_ip = None => Key(q) \in Keys
      BY OfRequest, Zenon DEF Types
  <2>4. \A q \in Requests : Transport(q)' = Transport(q) /\ Key(q)' = Key(q)
      BY <2>1, Zenon DEF Key, Transport
  <2>5. Fresh'
    <3>1. \A q \in Requests : dial[q].pc = "answered" =>
            dial[q].ip = zone'[Key(q)] \/ dial[q].at <= changed'[Key(q)]
        BY <1>01, <1>05, <2>1, <2>2, Zenon
    <3>2. \A j \in Keys : dns_cache[j] # None =>
            dns_cache[j].ip = zone'[j] \/ dns_cache[j].expires <= changed'[j] + MaxLookup + Ttl
      <4> SUFFICES ASSUME NEW j \in Keys, dns_cache[j] # None
                   PROVE  dns_cache[j].ip = zone'[j] \/ dns_cache[j].expires <= changed'[j] + MaxLookup + Ttl
          BY Zenon
      <4>1. CASE j = k
          BY <1>02, <1>04, <2>1, <4>1, Bounds
      <4>2. CASE j # k
          BY <1>04, <2>1, <4>2, Zenon
      <4> QED
          BY <4>1, <4>2, Zenon
    <3>3. \A j \in Keys : changed'[j] <= now
        BY <1>02, <1>03, <2>1, Zenon
    <3> QED
        BY <1>01, <1>04, <1>05, <2>1, <2>4, <3>1, <3>2, <3>3, Zenon DEF Fresh
  <2>6. StaleAddressesEnd'
    <3>1. ASSUME NEW q \in Requests, dial[q].pc = "dial", Transport(q).connect_ip = None
          PROVE  dial[q].ip = zone'[Key(q)] \/ dial[q].at - changed'[Key(q)] < Ttl + MaxLookup
      <4>1. CASE Key(q) = k
          BY <1>01, <1>02, <2>1, <4>1, Bounds
      <4>2. CASE Key(q) # k
          BY <2>1, <2>3, <3>1, <4>2, Zenon DEF StaleAddressesEnd
      <4> QED
          BY <4>1, <4>2, Zenon
    <3> QED
        BY <2>1, <2>4, <3>1, Zenon DEF StaleAddressesEnd
  <2> QED
      BY <2>5, <2>6, Zenon DEF Goal
<1>11. CASE Tick
  <2>1. /\ UNCHANGED <<dns_cache, req, dial, zone, changed>>
        /\ now' = now + 1
        /\ \A r \in Requests : dial[r].pc \in {"lookup", "answered"} => now - dial[r].at < MaxLookup
      BY <1>11, Zenon DEF Tick
  <2>2. \A q \in Requests : Transport(q)' = Transport(q) /\ Key(q)' = Key(q)
      BY <2>1, Zenon DEF Key, Transport
  <2>3. \A k \in Keys : changed[k] <= now + 1
      BY <1>02, <1>03
  <2>4. \A r \in Requests :
          /\ dial[r].at <= now + 1
          /\ dial[r].pc \in {"lookup", "answered"} => now + 1 <= dial[r].at + MaxLookup
      BY <1>01, <1>02, <2>1, Bounds
  <2>5. \A k \in Keys : dns_cache[k] # None => dns_cache[k].expires <= now + 1 + Ttl
      BY <1>02, <1>04, Bounds
  <2>6. Fresh'
      BY <1>04, <1>05, <2>1, <2>2, <2>3, <2>4, <2>5, Zenon DEF Fresh
  <2>7. StaleAddressesEnd'
      BY <2>1, <2>2, Zenon DEF StaleAddressesEnd
  <2> QED
      BY <2>6, <2>7, Zenon DEF Goal
<1>12. CASE UNCHANGED vars
    BY <1>12, Zenon DEF Goal, Fresh, StaleAddressesEnd, vars, Key, Transport
<1> QED
    BY <1>1, <1>2, <1>3, <1>4, <1>5, <1>6, <1>7, <1>8, <1>9, <1>10, <1>11, <1>12, Zenon DEF Next

-----------------------------------------------------------------------------
(* The properties.                                                          *)

\* Belongs says what the plan allows.
LEMMA BelongsAllowed == Types /\ Belongs => SentToAllowedPeer
<1> SUFFICES ASSUME Types, Belongs, NEW r \in Requests, req[r].pc = "sent"
             PROVE  Allowed(req[r].plan, req[r].peer)
    BY Zenon DEF SentToAllowedPeer
<1> DEFINE p == req[r].plan
           t == build_transport_identity(p)
<1>1. p \in Plans /\ t = Transport(r)
    BY Zenon DEF Types, Transport
<1>2. PICK ip \in IpsOf(t) : req[r].peer = Peer(t, ip)
    BY <1>1, Zenon DEF Belongs, Conns
<1>3. /\ t.port = port_or_known_default(p.url) /\ t.scheme = p.url.scheme /\ t.sni = p.sni
      /\ t.connect_ip = p.connect_ip
      /\ t.connect_host = IF p.connect_host # None THEN p.connect_host ELSE p.url.host
      /\ t.dns = normalize_dns_identity(p.dns)
    BY Zenon DEF build_transport_identity
<1>4. p.connect_ip = None /\ p.dns # None => build_dns_lookup_key(t) = <<p.dns, t.connect_host>>
    BY <1>1, <1>3, UpstreamAssumption, Zenon
       DEF build_dns_lookup_key, build_resolver_identity, normalize_dns_identity
<1>5. p.connect_ip = None /\ p.dns = None => build_dns_lookup_key(t) = <<SystemResolver, t.connect_host>>
    BY <1>3, Zenon DEF build_dns_lookup_key, build_resolver_identity, normalize_dns_identity
<1> HIDE DEF t
<1>6. /\ req[r].peer.port = t.port /\ req[r].peer.ip = ip
      /\ req[r].peer.name = IF t.scheme # "https" THEN None
                            ELSE IF t.sni # None THEN t.sni ELSE t.connect_host
    BY <1>2 DEF Peer
<1>7. t.connect_ip # None => ip = t.connect_ip
    BY <1>2, Zenon DEF IpsOf
<1>8. t.connect_ip = None => ip \in Answers[build_dns_lookup_key(t)]
    BY <1>2, Zenon DEF IpsOf
<1> QED
    BY <1>3, <1>4, <1>5, <1>6, <1>7, <1>8, Zenon DEF Allowed, t

\* The invariant of the executor.
THEOREM Invariant == Spec => [](Types /\ Belongs /\ Shared /\ Fresh /\ StaleAddressesEnd)
<1> DEFINE I == Types /\ Belongs /\ Shared /\ Fresh /\ StaleAddressesEnd
<1>1. Init => I
    BY TypesInit, BelongsInit, SharedInit, FreshInit, Zenon
<1>2. I /\ [Next]_vars => I'
    BY TypesNext, BelongsNext, SharedNext, FreshNext, Zenon
<1> QED
    BY <1>1, <1>2, PTL DEF Spec

\* Whatever is pooled, cached and overtaken, a request is sent over a connection
\* that was set up the way its own plan says: its port, its TLS name, its fixed
\* address or an address of its own DNS server (build_transport_identity).
THEOREM SentToAllowedPeerAlways == Spec => []SentToAllowedPeer
BY Invariant, BelongsAllowed, PTL

\* All lookups of one DNS server go through one resolver, however many dials miss
\* the cache at once (get_or_create_resolver).
THEOREM ResolversAreSharedAlways == Spec => []ResolversAreShared
<1>1. Shared => ResolversAreShared
    BY Zenon DEF Shared, ResolversAreShared
<1> QED
    BY <1>1, Invariant, PTL

\* An address the resolver no longer gives is dialled for less than the TTL and
\* one lookup (get_cached_dns_result, cache_dns_result).
THEOREM StaleAddressesEndAlways == Spec => []StaleAddressesEnd
BY Invariant, PTL
=============================================================================
