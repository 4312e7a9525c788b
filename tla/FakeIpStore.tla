----------------------------- MODULE FakeIpStore -----------------------------
(***************************************************************************)
(* The fake-IP store and the fake DNS handlers that allocate from it       *)
(* (traffic/shared/dns/fake_ip.rs, traffic/shared/dns/mod.rs).             *)
(*                                                                         *)
(* The store is one mutex around two maps per address family: domain to    *)
(* entry (address and expiry) and address to domain.  Many tasks use it:   *)
(* DNS handlers allocate or refresh, capture threads look addresses up.    *)
(* Each reads the clock BEFORE it takes the lock, so the instants the      *)
(* store sees are not in order.  Reading the clock and holding the lock    *)
(* are two steps here.                                                     *)
(***************************************************************************)
EXTENDS Integers, Sequences

CONSTANTS
  Families,      \* the address families in use, a subset of {"v4", "v6"}
  Net,           \* Net[f]: the network address of the fake range
  Top,           \* Top[f]: the last address of the fake range
  MaxAddr,       \* MaxAddr[f]: u32::MAX or u128::MAX
  Domains,       \* normalised domains
  Names,         \* names as clients spell them
  Normal,        \* Normal[n]: the domain that the name n is a spelling of
  None,          \* Rust's None
  RecordTtl,     \* backend.dns.record_ttl_secs
  Tasks,         \* DNS server tasks and capture threads
  Requests,      \* the DNS requests that are sent: sequences of queries
  MaxSkew,       \* bound: clock ticks between reading the clock and the lock
  MaxTime        \* bound: the clock

Queries == [family : Families \cup {"other"}, name : Names]
Addrs(f) == Net[f]..Top[f]

ASSUME FakeIpAssumption ==
  /\ Families \subseteq {"v4", "v6"}
  /\ \A f \in Families : /\ Net[f] \in Nat
                         /\ Top[f] \in Nat
                         /\ MaxAddr[f] \in Nat
                         /\ Net[f] <= Top[f]
                         /\ Top[f] <= MaxAddr[f]
  /\ \A n \in Names : Normal[n] \in Domains
  /\ RecordTtl \in Nat
  /\ MaxSkew \in Nat
  /\ MaxTime \in Nat
  /\ \A r \in Requests : r \in Seq(Queries)
  /\ None \notin Domains

\* No entry is None.
ASSUME NoneIsDistinct ==
  \A f \in Families : None \notin [ip : Addrs(f), expires_at : Nat]

VARIABLES
  domain_to_entry,  \* [f][d]: None or [ip, expires_at]
  ip_to_domain,     \* [f][ip]: None or a domain
  next_candidate,   \* [f]: where the next search starts
  now,              \* the clock
  task,             \* [t]: what a task is doing
  answers           \* the fake answers given, [family, ip, domain, until], until
                    \* their TTL has run out (less the delay MaxSkew)

vars == <<domain_to_entry, ip_to_domain, next_candidate, now, task, answers>>

-----------------------------------------------------------------------------
(* The range: which of its addresses may be allocated.                      *)

saturating_add(f, x, n) == IF x + n > MaxAddr[f] THEN MaxAddr[f] ELSE x + n

first_usable(f) == saturating_add(f, Net[f], 1)
\* Mutant: nothing is kept for the TUN interface and its DNS server.
first_allocatable_FirstUsable(f) == first_usable(f)
first_allocatable(f) == saturating_add(f, first_usable(f), 2)

\* The IPv4 broadcast address is kept out, IPv6 has none.  A range without a
\* usable address has no last one: here a last one below the first.
last_usable(f) ==
  IF f = "v4" THEN IF Top[f] > Net[f] THEN Top[f] - 1 ELSE -1
              ELSE IF Top[f] >= first_usable(f) THEN Top[f] ELSE -1

Allocatable(f) == first_allocatable(f)..last_usable(f)

\* The addresses TunDnsPlan gives the TUN interface and its DNS server.
tun_addr(f) == saturating_add(f, Net[f], 1)
dns_addr(f) == saturating_add(f, Net[f], 2)

clamp_candidate(f, c) == IF c \in Allocatable(f) THEN c ELSE first_allocatable(f)
advance_candidate(f, c) == IF c >= last_usable(f) THEN first_allocatable(f) ELSE c + 1

\* The search visits c before d when it starts at s, goes up and wraps round.
VisitedBefore(s, c, d) == IF c >= s THEN d < s \/ c <= d ELSE d < s /\ c <= d

-----------------------------------------------------------------------------
(* The store's operations.  They run under the lock, with the clock value t *)
(* that the caller read before.                                             *)

Expired(f, d, t) == /\ domain_to_entry[f][d] # None
                    /\ domain_to_entry[f][d].expires_at <= t

\* Mutant: only the entries are pruned.
PrunedOwners_Forgotten(t) == ip_to_domain

\* prune_expired_entries, on each of the two maps; both families are pruned.
PrunedEntries(t) ==
  [f \in Families |-> [d \in Domains |->
     IF Expired(f, d, t) THEN None ELSE domain_to_entry[f][d]]]
PrunedOwners(t) ==
  [f \in Families |-> [ip \in Addrs(f) |->
     IF \E d \in Domains : Expired(f, d, t) /\ domain_to_entry[f][d].ip = ip
     THEN None ELSE ip_to_domain[f][ip]]]

\* What resolve_domain returns.
Lookup(f, ip, t) ==
  LET d == PrunedOwners(t)[f][ip] IN
  IF /\ d # None
     /\ PrunedEntries(t)[f][d] # None
     /\ PrunedEntries(t)[f][d].expires_at > t
  THEN d ELSE None

FreeAddrs(f, t) == {ip \in Allocatable(f) : PrunedOwners(t)[f][ip] = None}

\* The domain d has the address ip until RecordTtl after t; the answer says so.
Entry(ip, t) == [ip |-> ip, expires_at |-> t + RecordTtl]
Answer(f, d, ip, t) ==
  [family |-> f, ip |-> ip, domain |-> d, until |-> t + RecordTtl]

\* A DNS task goes through the queries of its request.  After the last one it
\* sends the answers; with no fake answer it asks the real resolver first, which
\* does not touch the store.
Idle == [pc |-> "idle"]
Handling(r) == IF r = << >> THEN Idle ELSE [pc |-> "queries", todo |-> r]
Stamped(r, t) == [pc |-> "locking", todo |-> r, stamp |-> t]
LookingUp(t) == [pc |-> "lookup", stamp |-> t]

Init ==
  /\ domain_to_entry = [f \in Families |-> [d \in Domains |-> None]]
  /\ ip_to_domain = [f \in Families |-> [ip \in Addrs(f) |-> None]]
  /\ next_candidate = [f \in Families |-> first_allocatable(f)]
  /\ now = 0
  /\ task = [t \in Tasks |-> Idle]
  /\ answers = {}

\* build_fake_answers goes on to the next query, the k-th of todo, that is for an
\* address and for a host that the live rules match; it reads the clock for the
\* call.  The rules may be swapped at any time, so any query may be passed over.
ReadClock(t, todo) ==
  /\ \E k \in DOMAIN todo :
       /\ todo[k].family \in Families
       /\ task' = [task EXCEPT ![t] = Stamped(SubSeq(todo, k, Len(todo)), now)]
  /\ UNCHANGED <<domain_to_entry, ip_to_domain, next_candidate, now, answers>>

\* A request arrives.  One without a query to answer leaves the store alone.
handle_request(t) ==
  /\ task[t] = Idle
  /\ \E r \in Requests : ReadClock(t, r)

\* The next query of a request that has been answered in part.
NextQuery(t) ==
  /\ task[t].pc = "queries"
  /\ ReadClock(t, task[t].todo)

\* None of the queries that are left is answered.
Reply(t) ==
  /\ task[t].pc = "queries"
  /\ task' = [task EXCEPT ![t] = Idle]
  /\ UNCHANGED <<domain_to_entry, ip_to_domain, next_candidate, now, answers>>

\* Mutant: an entry that is there is returned as it is.
Refresh_KeepsExpiry(t) ==
  LET q == Head(task[t].todo)
      d == Normal[q.name]
      at == task[t].stamp
      e == PrunedEntries(at)[q.family][d] IN
  /\ task[t].pc = "locking"
  /\ e # None
  /\ domain_to_entry' = PrunedEntries(at)
  /\ ip_to_domain' = PrunedOwners(at)
  /\ answers' = answers \cup {Answer(q.family, d, e.ip, at)}
  /\ task' = [task EXCEPT ![t] = Handling(Tail(task[t].todo))]
  /\ UNCHANGED <<next_candidate, now>>

\* allocate_or_refresh: the domain has an entry, which lives on from t.
Refresh(t) ==
  LET q == Head(task[t].todo)
      d == Normal[q.name]
      at == task[t].stamp
      e == PrunedEntries(at)[q.family][d] IN
  /\ task[t].pc = "locking"
  /\ e # None
  /\ domain_to_entry' = [PrunedEntries(at) EXCEPT ![q.family][d] = Entry(e.ip, at)]
  /\ ip_to_domain' = PrunedOwners(at)
  /\ answers' = answers \cup {Answer(q.family, d, e.ip, at)}
  /\ task' = [task EXCEPT ![t] = Handling(Tail(task[t].todo))]
  /\ UNCHANGED <<next_candidate, now>>

\* allocate_or_refresh: the first free address of the search is the domain's.
Allocate(t) ==
  LET q == Head(task[t].todo)
      d == Normal[q.name]
      at == task[t].stamp
      start == clamp_candidate(q.family, next_candidate[q.family]) IN
  /\ task[t].pc = "locking"
  /\ PrunedEntries(at)[q.family][d] = None
  /\ \E ip \in FreeAddrs(q.family, at) :
       /\ \A other \in FreeAddrs(q.family, at) : VisitedBefore(start, ip, other)
       /\ domain_to_entry' = [PrunedEntries(at) EXCEPT ![q.family][d] = Entry(ip, at)]
       /\ ip_to_domain' = [PrunedOwners(at) EXCEPT ![q.family][ip] = d]
       /\ next_candidate' =
            [next_candidate EXCEPT ![q.family] = advance_candidate(q.family, ip)]
       /\ answers' = answers \cup {Answer(q.family, d, ip, at)}
  /\ task' = [task EXCEPT ![t] = Handling(Tail(task[t].todo))]
  /\ UNCHANGED now

\* allocate_or_refresh: no address is free.  The error ends the whole request
\* (SERVFAIL); what earlier queries of it allocated stays allocated.
Exhausted(t) ==
  LET q == Head(task[t].todo)
      at == task[t].stamp IN
  /\ task[t].pc = "locking"
  /\ PrunedEntries(at)[q.family][Normal[q.name]] = None
  /\ FreeAddrs(q.family, at) = {}
  /\ domain_to_entry' = PrunedEntries(at)
  /\ ip_to_domain' = PrunedOwners(at)
  /\ task' = [task EXCEPT ![t] = Idle]
  /\ UNCHANGED <<next_candidate, now, answers>>

\* A captured packet is addressed to the range: the clock is read.
StartLookup(t) ==
  /\ task[t] = Idle
  /\ task' = [task EXCEPT ![t] = LookingUp(now)]
  /\ UNCHANGED <<domain_to_entry, ip_to_domain, next_candidate, now, answers>>

\* Whatever address is looked up (Lookup is what is found), the store is pruned.
resolve_domain(t) ==
  LET at == task[t].stamp IN
  /\ task[t].pc = "lookup"
  /\ domain_to_entry' = PrunedEntries(at)
  /\ ip_to_domain' = PrunedOwners(at)
  /\ task' = [task EXCEPT ![t] = Idle]
  /\ UNCHANGED <<next_candidate, now, answers>>

\* Time passes, but no task stays between clock and lock for more than MaxSkew.
Tick ==
  /\ now < MaxTime
  /\ \A t \in Tasks :
       task[t].pc \in {"locking", "lookup"} => now - task[t].stamp < MaxSkew
  /\ now' = now + 1
  /\ answers' = {a \in answers : a.until > now' + MaxSkew}
  /\ UNCHANGED <<domain_to_entry, ip_to_domain, next_candidate, task>>

Step(t) ==
  \/ handle_request(t)
  \/ NextQuery(t)
  \/ Reply(t)
  \/ Refresh(t)
  \/ Allocate(t)
  \/ Exhausted(t)
  \/ StartLookup(t)
  \/ resolve_domain(t)

Next == Tick \/ \E t \in Tasks : Step(t)

Spec == Init /\ [][Next]_vars

-----------------------------------------------------------------------------
(* Properties.                                                              *)

Entries(f) == [ip : Addrs(f), expires_at : Nat]
TaskStates ==
  {Idle} \cup [pc : {"queries"}, todo : Seq(Queries)]
         \cup [pc : {"locking"}, todo : Seq(Queries), stamp : Nat]
         \cup [pc : {"lookup"}, stamp : Nat]

\* The variables have the types of the Rust declarations.
TypeOK ==
  /\ \A f \in Families :
       /\ \A d \in Domains : domain_to_entry[f][d] \in Entries(f) \cup {None}
       /\ \A ip \in Addrs(f) : ip_to_domain[f][ip] \in Domains \cup {None}
  /\ next_candidate \in [Families -> Nat]
  /\ now \in Nat
  /\ task \in [Tasks -> TaskStates]
  /\ \A a \in answers : /\ a.family \in Families
                        /\ a.ip \in Addrs(a.family)
                        /\ a.domain \in Domains
                        /\ a.until \in Nat

AreInverse(entries, owners) ==
  \A f \in Families : \A d \in Domains : \A ip \in Addrs(f) :
    owners[f][ip] = d <=> entries[f][d] # None /\ entries[f][d].ip = ip

\* The two maps that FakeIpStoreInner keeps side by side are each other's
\* inverse after every operation: no address belongs to two domains, and no
\* address is lost to a domain that no longer has it.
MapsAreInverse == AreInverse(domain_to_entry, ip_to_domain)

\* The addresses the TUN backend uses for its interface and its DNS server are
\* never given out, and neither is the network address or an IPv4 broadcast
\* address.  (A range at the very end of the address space is the exception:
\* there saturating_add makes the first allocatable address one of these.)
ReservedStayFree ==
  \A f \in Families : \A ip \in Addrs(f) :
    /\ Net[f] + 3 <= MaxAddr[f]
    /\ ip_to_domain[f][ip] # None
    => /\ ip \notin {Net[f], tun_addr(f), dns_addr(f)}
       /\ f = "v4" => ip # Top[f]

\* As long as the TTL of a fake answer runs, its address leads back to the
\* domain it was given for, although other tasks refresh, prune and reallocate
\* with clock values read earlier.  The scheduling delay MaxSkew is what a late
\* refresh can take back.
AnswersHonoured ==
  \A a \in answers :
    now + MaxSkew < a.until => Lookup(a.family, a.ip, now) = a.domain

\* Two answers of one family whose TTL still runs name the same address exactly
\* when they name the same domain, whichever tasks gave them and however late
\* their clock values were: no client is led to another client's domain, and no
\* domain is given a second address while its first is still in use.
AnswersAgree ==
  \A a, b \in answers :
    /\ a.family = b.family
    /\ now + MaxSkew < a.until
    /\ now + MaxSkew < b.until
    => (a.ip = b.ip <=> a.domain = b.domain)

\* allocate_or_refresh fails, and the request with it, only when the range is
\* full: every allocatable address then belongs to a domain whose entry has not
\* expired at the task's clock value.  An address freed by expiry is never missed
\* by the search, whatever the other tasks did since the clock was read.
ServfailMeansFull ==
  [][\A t \in Tasks : Exhausted(t) =>
       LET f == Head(task[t].todo).family IN
       \A ip \in Allocatable(f) : \E d \in Domains :
         /\ domain_to_entry'[f][d] # None
         /\ domain_to_entry'[f][d].ip = ip
         /\ domain_to_entry'[f][d].expires_at > task[t].stamp]_vars
=============================================================================
