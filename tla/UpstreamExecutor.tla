--------------------------- MODULE UpstreamExecutor ---------------------------
(***************************************************************************)
(* The executor that sends requests to their upstreams                     *)
(* (gateway/upstream/executors/hyper.rs, gateway/upstream/resolver.rs).    *)
(*                                                                         *)
(* A plan names the target, and may say how to get there: another host to  *)
(* connect to, a fixed address, a TLS server name, a DNS server.  All of   *)
(* that goes into the transport identity, and every identity has a client  *)
(* of its own with its own idle connections.  Clients share two caches:    *)
(* resolvers by DNS server, and addresses by DNS server and host name.     *)
(* A request takes an idle connection of its client, or the one it dials   *)
(* itself; a dial that is overtaken goes on and ends up idle.              *)
(* No mutex is ever poisoned: a panic aborts the process.                  *)
(***************************************************************************)
EXTENDS Integers, FiniteSets

CONSTANTS
  Requests,    \* requests in flight at a time
  Plans,       \* the upstream plans that rules and plugins resolve to
  Answers,     \* [key]: the addresses that a resolver may give for a host
  Ttl,         \* DNS_RESULT_CACHE_TTL
  MaxLookup,   \* how long a lookup takes at most, before the resolver gives up
  MaxRequests, \* bound on the requests in all
  MaxTime,     \* bound on the clock
  MaxChanges,  \* bound on the changes of DNS records
  None

(***************************************************************************)
(* A plan is [url, host, connect_host, connect_ip, sni, dns], a url        *)
(* [scheme, host, port], dns a [mode, server]; the optional parts are None *)
(* when they are not given.  A port is the explicit one, or None.          *)
(***************************************************************************)

\* build_host_header
build_host_header(p) == IF p.host # None THEN p.host ELSE p.url.host

\* build_request_authority, normalize_authority: host[:port]
build_request_authority(p) ==
  IF p.host # None THEN <<p.host, None>> ELSE <<p.url.host, p.url.port>>

\* port_or_known_default
port_or_known_default(u) ==
  IF u.port # None THEN u.port ELSE IF u.scheme = "https" THEN 443 ELSE 80

\* normalize_dns_identity: asking for the system resolver is asking for none, and
\* so is naming no server.
normalize_dns_identity(d) ==
  IF d # None /\ d.mode # "system" /\ d.server # None THEN d ELSE None

\* build_transport_identity
build_transport_identity(p) ==
  [scheme |-> p.url.scheme,
   connect_host |-> IF p.connect_host # None THEN p.connect_host ELSE p.url.host,
   request_authority |-> build_request_authority(p),
   port |-> port_or_known_default(p.url),
   host_header |-> build_host_header(p),
   sni |-> p.sni,
   connect_ip |-> p.connect_ip,
   dns |-> normalize_dns_identity(p.dns)]

SystemResolver == [mode |-> "system", server |-> None]

\* build_resolver_identity: none is needed with a fixed address.
build_resolver_identity(t) ==
  IF t.connect_ip # None THEN None ELSE IF t.dns # None THEN t.dns ELSE SystemResolver

\* build_dns_lookup_key
build_dns_lookup_key(t) == <<build_resolver_identity(t), t.connect_host>>

\* The peer that a connection of identity t to an address reaches: TLS asks for
\* the server name, or else for the host that is connected to.
Peer(t, ip) ==
  [ip |-> ip,
   port |-> t.port,
   name |-> IF t.scheme # "https" THEN None
            ELSE IF t.sni # None THEN t.sni ELSE t.connect_host]

Transports == {build_transport_identity(p) : p \in Plans}
Looked == {t \in Transports : t.connect_ip = None}
Resolvers == {build_resolver_identity(t) : t \in Looked}
Keys == {build_dns_lookup_key(t) : t \in Looked}
Ips == UNION {Answers[k] : k \in Keys}

\* DnsPlan::try_from: the system's resolver goes without a server, any other mode
\* needs one.
ASSUME UpstreamAssumption ==
  /\ None \notin Requests
  /\ Ttl \in Nat \ {0} /\ MaxLookup \in Nat /\ MaxRequests \in Nat
  /\ MaxTime \in Nat /\ MaxChanges \in Nat
  /\ \A p \in Plans : p.dns # None =>
       IF p.dns.mode = "system" THEN p.dns = SystemResolver ELSE p.dns.server # None

VARIABLES
  clients,     \* pooled_http1_clients: the identities that have a client
  idle,        \* [t]: the peers to which the client has an idle connection
  resolvers,   \* resolver_cache: [id]: the dial that created it, or None
  dns_cache,   \* dns_result_cache: [key]: [ip, expires], or None
  req,         \* [r]: the request: [pc, plan, peer]
  dial,        \* [r]: the connector it started: [pc, resolver, ip, at]
  zone,        \* external: [key]: what the resolver, its own cache included, answers
  changed,     \* history: [key]: when that changed last
  started, changes, now

vars == <<clients, idle, resolvers, dns_cache, req, dial, zone, changed, started, changes, now>>
dnsWorld == <<zone, changed, changes, now>>

Idle == [pc |-> "none", resolver |-> None, ip |-> None, at |-> 0]

Init ==
  /\ clients = {}
  /\ idle = [t \in Transports |-> {}]
  /\ resolvers = [id \in Resolvers |-> None]
  /\ dns_cache = [k \in Keys |-> None]
  /\ req = [r \in Requests |-> [pc |-> "new", plan |-> None, peer |-> None]]
  /\ dial = [r \in Requests |-> Idle]
  /\ zone \in {z \in [Keys -> Ips] : \A k \in Keys : z[k] \in Answers[k]}
  /\ changed = [k \in Keys |-> 0]
  /\ started = 0
  /\ changes = 0
  /\ now = 0

Transport(r) == build_transport_identity(req[r].plan)
Key(r) == build_dns_lookup_key(Transport(r))
Resolver(r) == build_resolver_identity(Transport(r))

At(r, pc) == dial[r].pc = pc
DialTo(r, pc) == dial' = [dial EXCEPT ![r].pc = pc]

-----------------------------------------------------------------------------
(* Requests.                                                                *)

\* execute, prepare_execution, get_or_create_pooled_http1_client: the request
\* gets the client of its identity.
Execute(r, p) ==
  /\ req[r].pc \in {"new", "done"} /\ At(r, "none")
  /\ started < MaxRequests
  /\ started' = started + 1
  /\ req' = [req EXCEPT ![r].pc = "waiting", ![r].plan = p]
  /\ clients' = clients \cup {build_transport_identity(p)}
  /\ UNCHANGED <<idle, resolvers, dns_cache, dial, dnsWorld>>

\* Mutant: any connection to the same authority will do.
Reuse_ByAuthority(r) ==
  /\ req[r].pc = "waiting"
  /\ \E t \in Transports : \E peer \in idle[t] :
       /\ t.request_authority = Transport(r).request_authority
       /\ req' = [req EXCEPT ![r].pc = "sent", ![r].peer = peer]
  /\ UNCHANGED <<clients, idle, resolvers, dns_cache, dial, started, dnsWorld>>

\* The client has an idle connection: an HTTP/2 connection is shared, any other
\* is taken out.
Reuse(r) ==
  /\ req[r].pc = "waiting"
  /\ \E peer \in idle[Transport(r)] :
       /\ req' = [req EXCEPT ![r].pc = "sent", ![r].peer = peer]
       /\ \/ idle' = [idle EXCEPT ![Transport(r)] = @ \ {peer}]
          \/ UNCHANGED idle
  /\ UNCHANGED <<clients, resolvers, dns_cache, dial, started, dnsWorld>>

\* The response has been read; the connection may be used again.
Finish(r) ==
  /\ req[r].pc = "sent"
  /\ req' = [req EXCEPT ![r].pc = "done", ![r].peer = None]
  /\ \/ idle' = [idle EXCEPT ![Transport(r)] = @ \cup {req[r].peer}]
     \/ UNCHANGED idle
  /\ UNCHANGED <<clients, resolvers, dns_cache, dial, started, dnsWorld>>

\* The client of the proxy goes away: the future is dropped, its dial with it.
Cancel(r) ==
  /\ req[r].pc = "waiting"
  /\ req' = [req EXCEPT ![r].pc = "done"]
  /\ dial' = [dial EXCEPT ![r] = Idle]
  /\ UNCHANGED <<clients, idle, resolvers, dns_cache, started, dnsWorld>>

\* pool_idle_timeout, or the peer closes.
CloseIdle(t) ==
  /\ idle[t] # {}
  /\ \E peer \in idle[t] : idle' = [idle EXCEPT ![t] = @ \ {peer}]
  /\ UNCHANGED <<clients, resolvers, dns_cache, req, dial, started, dnsWorld>>

-----------------------------------------------------------------------------
(* The connector: PooledTransportConnector::call.                           *)

\* An address has been found.
Found(r, ip) == dial' = [dial EXCEPT ![r] = [pc |-> "dial", resolver |-> None,
                                            ip |-> ip, at |-> now]]

\* A fixed address needs no lookup.
DialFixed(r) ==
  /\ req[r].pc = "waiting"
  /\ At(r, "none")
  /\ Transport(r).connect_ip # None
  /\ Found(r, Transport(r).connect_ip)
  /\ UNCHANGED <<clients, idle, resolvers, dns_cache, req, started, dnsWorld>>

\* Mutant: an entry is used on the tick it expires, and after.
Valid_Ignored(e) == e # None

Valid(e) == e # None /\ e.expires > now

\* get_cached_dns_result: a valid entry is used, an expired one is removed.
CheckDnsCache(r) ==
  /\ req[r].pc = "waiting"
  /\ At(r, "none")
  /\ Transport(r).connect_ip = None
  /\ LET e == dns_cache[Key(r)] IN
       \/ Valid(e) /\ Found(r, e.ip) /\ UNCHANGED dns_cache
       \/ ~Valid(e) /\ DialTo(r, "resolver") /\ dns_cache' = [dns_cache EXCEPT ![Key(r)] = None]
  /\ UNCHANGED <<clients, idle, resolvers, req, started, dnsWorld>>

\* The lookup starts.
LookUpWith(r, resolver) ==
  dial' = [dial EXCEPT ![r] = [pc |-> "lookup", resolver |-> resolver, ip |-> None, at |-> now]]

\* get_or_create_resolver: the cache is looked at, its lock given up.
GetResolver(r) ==
  /\ At(r, "resolver")
  /\ \/ resolvers[Resolver(r)] # None /\ LookUpWith(r, resolvers[Resolver(r)])
     \/ resolvers[Resolver(r)] = None /\ DialTo(r, "creating")
  /\ UNCHANGED <<clients, idle, resolvers, dns_cache, req, started, dnsWorld>>

\* Mutant: a resolver replaces the one that another dial has put there.
CreateResolver_Replaces(r) ==
  /\ At(r, "creating")
  /\ resolvers' = [resolvers EXCEPT ![Resolver(r)] = r]
  /\ LookUpWith(r, r)
  /\ UNCHANGED <<clients, idle, dns_cache, req, started, dnsWorld>>

\* create_resolver has returned; the first one in the cache is everyone's.
CreateResolver(r) ==
  /\ At(r, "creating")
  /\ \/ /\ resolvers[Resolver(r)] # None
        /\ LookUpWith(r, resolvers[Resolver(r)])
        /\ UNCHANGED resolvers
     \/ /\ resolvers[Resolver(r)] = None
        /\ resolvers' = [resolvers EXCEPT ![Resolver(r)] = r]
        /\ LookUpWith(r, r)
  /\ UNCHANGED <<clients, idle, dns_cache, req, started, dnsWorld>>

\* External: the resolver answers, from the DNS server or from its own cache; the
\* answer is on its way.
ServerAnswers(r) ==
  /\ At(r, "lookup")
  /\ dial' = [dial EXCEPT ![r].pc = "answered", ![r].ip = zone[Key(r)]]
  /\ UNCHANGED <<clients, idle, resolvers, dns_cache, req, started, dnsWorld>>

\* cache_dns_result: the answer has come.  The entry lives from now on, and
\* replaces whatever a faster lookup has put there.
CacheAnswer(r) ==
  /\ At(r, "answered")
  /\ Found(r, dial[r].ip)
  /\ dns_cache' = [dns_cache EXCEPT ![Key(r)] = [ip |-> dial[r].ip, expires |-> now + Ttl]]
  /\ UNCHANGED <<clients, idle, resolvers, req, started, dnsWorld>>

\* TCP and TLS are up.  The request takes the connection unless it has found
\* another; then the connection goes to the client's idle ones.
Connected(r) ==
  /\ At(r, "dial")
  /\ LET peer == Peer(Transport(r), dial[r].ip) IN
       \/ /\ req[r].pc = "waiting"
          /\ req' = [req EXCEPT ![r].pc = "sent", ![r].peer = peer]
          /\ UNCHANGED idle
       \/ /\ req[r].pc # "waiting"
          /\ idle' = [idle EXCEPT ![Transport(r)] = @ \cup {peer}]
          /\ UNCHANGED req
  /\ dial' = [dial EXCEPT ![r] = Idle]
  /\ UNCHANGED <<clients, resolvers, dns_cache, started, dnsWorld>>

\* No resolver, no answer, no connection or no handshake: the error is the
\* request's, if it still waits.
DialFails(r) ==
  /\ dial[r].pc \in {"resolver", "creating", "lookup", "answered", "dial"}
  /\ dial' = [dial EXCEPT ![r] = Idle]
  /\ req' = [req EXCEPT ![r].pc = IF @ = "waiting" THEN "done" ELSE @]
  /\ UNCHANGED <<clients, idle, resolvers, dns_cache, started, dnsWorld>>

-----------------------------------------------------------------------------
(* The world.                                                               *)

\* External: a DNS record changes.
ChangeRecord(k) ==
  /\ changes < MaxChanges
  /\ \E ip \in Answers[k] \ {zone[k]} : zone' = [zone EXCEPT ![k] = ip]
  /\ changed' = [changed EXCEPT ![k] = now]
  /\ changes' = changes + 1
  /\ UNCHANGED <<clients, idle, resolvers, dns_cache, req, dial, started, now>>

\* Time passes; no lookup outlasts the resolver's patience.
Tick ==
  /\ now < MaxTime
  /\ \A r \in Requests : dial[r].pc \in {"lookup", "answered"} => now - dial[r].at < MaxLookup
  /\ now' = now + 1
  /\ UNCHANGED <<clients, idle, resolvers, dns_cache, req, dial, zone, changed, started, changes>>

Next ==
  \/ \E r \in Requests :
       \/ \E p \in Plans : Execute(r, p)
       \/ Reuse(r) \/ Finish(r) \/ Cancel(r)
       \/ DialFixed(r) \/ CheckDnsCache(r) \/ GetResolver(r) \/ CreateResolver(r)
       \/ ServerAnswers(r) \/ CacheAnswer(r) \/ Connected(r) \/ DialFails(r)
  \/ \E t \in Transports : CloseIdle(t)
  \/ \E k \in Keys : ChangeRecord(k)
  \/ Tick

Spec == Init /\ [][Next]_vars

-----------------------------------------------------------------------------
(* Properties.                                                              *)

\* A peer that plan p allows: its port and TLS name, and its fixed address or an
\* address that the plan's own DNS server gives for the host to connect to.
Allowed(p, peer) ==
  LET t == build_transport_identity(p) IN
  /\ peer.port = port_or_known_default(p.url)
  /\ peer.name = IF p.url.scheme # "https" THEN None
                 ELSE IF p.sni # None THEN p.sni
                 ELSE IF p.connect_host # None THEN p.connect_host ELSE p.url.host
  /\ \/ p.connect_ip # None /\ peer.ip = p.connect_ip
     \/ p.connect_ip = None /\ p.dns # None /\ peer.ip \in Answers[<<p.dns, t.connect_host>>]
     \/ p.connect_ip = None /\ p.dns = None /\ peer.ip \in Answers[<<SystemResolver, t.connect_host>>]

\* Requests for one and the same URL whose plans differ in how to get there never
\* get each other's connections or addresses, although clients, resolvers and
\* addresses are cached and dials are overtaken: what a request is sent over was
\* set up the way its own plan says.
SentToAllowedPeer ==
  \A r \in Requests : req[r].pc = "sent" => Allowed(req[r].plan, req[r].peer)

\* Two dials that miss the resolver cache together end up with one resolver: no
\* lookup goes through a resolver that is not the cached one.
ResolversAreShared ==
  \A r \in Requests :
    dial[r].pc \in {"lookup", "answered"} => dial[r].resolver = resolvers[Resolver(r)]

\* An address that the resolver no longer gives is dialled for less than the TTL and
\* the duration of a lookup after the change: an entry's life starts only when its
\* answer arrives, and a slow, older answer may replace a newer one (dns_cache and
\* cache_dns_result; how long the resolver's own cache keeps an address that its DNS
\* server no longer gives comes on top and is not bounded here).
StaleAddressesEnd ==
  \A r \in Requests :
    dial[r].pc = "dial" /\ Transport(r).connect_ip = None =>
      \/ dial[r].ip = zone[Key(r)]
      \/ dial[r].at - changed[Key(r)] < Ttl + MaxLookup
=============================================================================
