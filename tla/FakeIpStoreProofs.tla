-------------------------- MODULE FakeIpStoreProofs --------------------------
(***************************************************************************)
(* Proofs about FakeIpStore, for every range, TTL, delay and number of     *)
(* tasks.                                                                  *)
(*                                                                         *)
(* The inductive invariant is TypeOK, MapsAreInverse and                   *)
(*   - TasksInv: a clock value in use was read at most MaxSkew ago;        *)
(*   - OwnersInv: only allocatable addresses have an owner;                *)
(*   - AnswersInv: the entry behind a running answer lives at least until  *)
(*     the end of the answer's TTL, less MaxSkew.                          *)
(***************************************************************************)
EXTENDS FakeIpStore, SequenceTheorems, TLAPS

TasksInv ==
  \A t \in Tasks :
    /\ task[t].pc \in {"locking", "lookup"} =>
         now - MaxSkew <= task[t].stamp /\ task[t].stamp <= now
    /\ task[t].pc = "locking" =>
         task[t].todo # << >> /\ Head(task[t].todo).family \in Families

OwnersInv ==
  \A f \in Families : \A ip \in Addrs(f) :
    ip_to_domain[f][ip] # None => ip \in Allocatable(f)

AnswersInv ==
  \A a \in answers :
    /\ a.until <= now + RecordTtl
    /\ now + MaxSkew < a.until =>
         /\ domain_to_entry[a.family][a.domain] # None
         /\ domain_to_entry[a.family][a.domain].ip = a.ip
         /\ a.until <= domain_to_entry[a.family][a.domain].expires_at + MaxSkew

IInv == TypeOK /\ MapsAreInverse /\ TasksInv /\ OwnersInv /\ AnswersInv

-----------------------------------------------------------------------------
(* The range and the pruned maps.                                           *)

\* Every allocatable address is an address of the range (first_allocatable and
\* last_usable, with saturating_add).
LEMMA AllocatableInRange ==
  ASSUME NEW f \in Families
  PROVE  /\ first_allocatable(f) \in Nat
         /\ Allocatable(f) \subseteq Addrs(f)
BY FakeIpAssumption, SMTT(30)
   DEF Allocatable, Addrs, first_allocatable, last_usable, first_usable, saturating_add

\* Durations are natural numbers.
LEMMA DurationsAreNat == RecordTtl \in Nat /\ MaxSkew \in Nat
BY FakeIpAssumption, Zenon

\* What an entry consists of.
LEMMA EntryFields ==
  ASSUME NEW f \in Families, NEW e \in Entries(f)
  PROVE  e.ip \in Addrs(f) /\ e.expires_at \in Nat /\ e # None
BY NoneIsDistinct, Zenon DEF Entries

\* Addresses are natural numbers.
LEMMA AddrsAreNat ==
  ASSUME NEW f \in Families, NEW ip \in Addrs(f)
  PROVE  ip \in Nat
BY FakeIpAssumption DEF Addrs

\* prune_expired_entries keeps an entry as it is or removes it, and removes
\* exactly the expired ones.
LEMMA PrunedEntry ==
  ASSUME NEW f \in Families, NEW d \in Domains, NEW t
  PROVE  PrunedEntries(t)[f][d] =
           IF Expired(f, d, t) THEN None ELSE domain_to_entry[f][d]
BY Zenon DEF PrunedEntries

\* The same for the owner of an address.
LEMMA PrunedOwner ==
  ASSUME NEW f \in Families, NEW ip \in Addrs(f), NEW t
  PROVE  PrunedOwners(t)[f][ip] =
           IF \E d \in Domains : Expired(f, d, t) /\ domain_to_entry[f][d].ip = ip
           THEN None ELSE ip_to_domain[f][ip]
BY Zenon DEF PrunedOwners

\* Pruning keeps the types.
LEMMA PrunedTypes ==
  ASSUME TypeOK, NEW t, NEW f \in Families
  PROVE  /\ \A d \in Domains : PrunedEntries(t)[f][d] \in Entries(f) \cup {None}
         /\ \A ip \in Addrs(f) : PrunedOwners(t)[f][ip] \in Domains \cup {None}
BY PrunedEntry, PrunedOwner DEF TypeOK

\* Pruning one map along the entries of the other keeps them inverse.
LEMMA PrunedInverse ==
  ASSUME TypeOK, MapsAreInverse, NEW t
  PROVE  AreInverse(PrunedEntries(t), PrunedOwners(t))
<1> SUFFICES ASSUME NEW f \in Families, NEW d \in Domains, NEW ip \in Addrs(f)
             PROVE  PrunedOwners(t)[f][ip] = d <=>
                      /\ PrunedEntries(t)[f][d] # None
                      /\ PrunedEntries(t)[f][d].ip = ip
    BY Zenon DEF AreInverse
<1>1. \A e \in Domains : ip_to_domain[f][ip] = e <=>
          domain_to_entry[f][e] # None /\ domain_to_entry[f][e].ip = ip
    BY DEF MapsAreInverse, AreInverse
<1>2. d # None
    BY FakeIpAssumption, Zenon
<1>3. CASE Expired(f, d, t)
    BY <1>1, <1>2, <1>3, PrunedEntry, PrunedOwner DEF Expired
<1>4. CASE ~Expired(f, d, t)
    BY <1>1, <1>2, <1>4, PrunedEntry, PrunedOwner DEF Expired
<1>5. QED
    BY <1>3, <1>4, Zenon

\* Pruning adds no owner.
LEMMA PrunedAllocatable ==
  ASSUME OwnersInv, NEW t, NEW f \in Families, NEW ip \in Addrs(f),
         PrunedOwners(t)[f][ip] # None
  PROVE  ip \in Allocatable(f)
BY PrunedOwner DEF OwnersInv

\* An entry that a running answer rests on is not pruned with a clock value that
\* has been read already.
LEMMA PrunedAnswer ==
  ASSUME TypeOK, AnswersInv, NEW t \in Nat, t <= now,
         NEW a \in answers, now + MaxSkew < a.until
  PROVE  PrunedEntries(t)[a.family][a.domain] = domain_to_entry[a.family][a.domain]
<1> DEFINE e == domain_to_entry[a.family][a.domain]
<1>1. /\ a.family \in Families
      /\ a.domain \in Domains
      /\ a.until \in Nat
      /\ now \in Nat
      /\ e \in Entries(a.family) \cup {None}
    BY Zenon DEF TypeOK
<1>2. e # None /\ a.until <= e.expires_at + MaxSkew
    BY Zenon DEF AnswersInv
<1>3. e.expires_at \in Nat
    BY <1>1, <1>2, EntryFields, Zenon
<1>4. ~(e.expires_at <= t)
  <2> HIDE DEF e
  <2> QED
    BY <1>1, <1>2, <1>3, DurationsAreNat
<1>5. QED
    BY <1>1, <1>4, PrunedEntry DEF Expired

-----------------------------------------------------------------------------
(* The tasks.                                                               *)

\* The states a DNS task can move to.
LEMMA TaskStateTypes ==
  ASSUME NEW r \in Seq(Queries), NEW s \in Nat
  PROVE  /\ Handling(r) \in TaskStates /\ Handling(r).pc \in {"idle", "queries"}
         /\ Stamped(r, s) \in TaskStates
         /\ LookingUp(s) \in TaskStates
BY Zenon DEF TaskStates, Idle, Handling, Stamped, LookingUp

\* What is known of an idle task.
LEMMA IdleState == Idle \in TaskStates /\ Idle.pc = "idle"
BY Zenon DEF TaskStates, Idle

\* A task that holds a clock value read it at most MaxSkew ago.
LEMMA TaskStamp ==
  ASSUME TypeOK, TasksInv, NEW t \in Tasks, task[t].pc \in {"locking", "lookup"}
  PROVE  /\ task[t].stamp \in Nat
         /\ now - MaxSkew <= task[t].stamp
         /\ task[t].stamp <= now
<1>1. task[t] \in TaskStates
    BY Zenon DEF TypeOK
<1>2. task[t].stamp \in Nat
    BY <1>1 DEF TaskStates, Idle
<1>3. QED
    BY <1>2, Zenon DEF TasksInv

\* A task about to take the lock has a query that asks for an address.
LEMMA TaskQuery ==
  ASSUME TypeOK, TasksInv, NEW t \in Tasks, task[t].pc = "locking"
  PROVE  /\ Head(task[t].todo).family \in Families
         /\ Normal[Head(task[t].todo).name] \in Domains
         /\ Tail(task[t].todo) \in Seq(Queries)
<1>1. task[t] \in TaskStates
    BY Zenon DEF TypeOK
<1>2. task[t].todo \in Seq(Queries)
    BY <1>1 DEF TaskStates, Idle
<1>3. task[t].todo # << >> /\ Head(task[t].todo).family \in Families
    BY Zenon DEF TasksInv
<1>4. Head(task[t].todo) \in Queries /\ Tail(task[t].todo) \in Seq(Queries)
    BY <1>2, <1>3, HeadTailProperties, Zenon
<1>5. Head(task[t].todo).name \in Names
    BY <1>4, Zenon DEF Queries
<1>6. QED
    BY <1>3, <1>4, <1>5, FakeIpAssumption, Zenon

\* One task moves to s; a clock value in s has just been read.
LEMMA TaskMoves ==
  ASSUME TypeOK, TasksInv, NEW t \in Tasks, NEW s \in TaskStates,
         s.pc \in {"locking", "lookup"} => s.stamp = now,
         s.pc = "locking" => s.todo # << >> /\ Head(s.todo).family \in Families,
         task' = [task EXCEPT ![t] = s],
         now' = now
  PROVE  task' \in [Tasks -> TaskStates] /\ TasksInv'
<1>1. task \in [Tasks -> TaskStates] /\ now \in Nat
    BY Zenon DEF TypeOK
<1>2. task' \in [Tasks -> TaskStates]
    BY <1>1, Zenon
<1>3. ASSUME NEW u \in Tasks
      PROVE  task'[u] = IF u = t THEN s ELSE task[u]
    BY <1>1, Zenon
<1>4. now - MaxSkew <= now
    BY <1>1, DurationsAreNat
<1>5. ASSUME NEW u \in Tasks
      PROVE  /\ task'[u].pc \in {"locking", "lookup"} =>
                  now - MaxSkew <= task'[u].stamp /\ task'[u].stamp <= now
             /\ task'[u].pc = "locking" =>
                  task'[u].todo # << >> /\ Head(task'[u].todo).family \in Families
  <2>1. CASE u = t
      BY <1>1, <1>3, <1>4, <2>1
  <2>2. CASE u # t
      BY <1>3, <2>2, Zenon DEF TasksInv
  <2>3. QED
      BY <2>1, <2>2, Zenon
<1>6. QED
    BY <1>2, <1>5, Zenon DEF TasksInv

-----------------------------------------------------------------------------
(* The invariant is inductive.                                              *)

\* An empty store, with idle tasks and no answers, satisfies the invariant.
LEMMA InvInit == Init => IInv
<1> SUFFICES ASSUME Init PROVE IInv
    BY Zenon
<1>1. TypeOK
    BY AllocatableInRange, Zenon DEF Init, TypeOK, TaskStates, Idle
<1>2. MapsAreInverse
    BY FakeIpAssumption, Zenon DEF Init, MapsAreInverse, AreInverse
<1>3. TasksInv
    BY Zenon DEF Init, TasksInv, Idle
<1>4. OwnersInv /\ AnswersInv
    BY Zenon DEF Init, OwnersInv, AnswersInv
<1>5. QED
    BY <1>1, <1>2, <1>3, <1>4, Zenon DEF IInv

\* Steps that only prune the store (resolve_domain, a failed allocation).
LEMMA OnlyPrunes ==
  ASSUME IInv, NEW at \in Nat, at <= now,
         domain_to_entry' = PrunedEntries(at),
         ip_to_domain' = PrunedOwners(at),
         UNCHANGED <<next_candidate, now, answers>>,
         task' \in [Tasks -> TaskStates],
         TasksInv'
  PROVE  IInv'
<1> USE DEF IInv
<1>1. TypeOK'
    BY PrunedTypes, Zenon DEF TypeOK
<1>2. MapsAreInverse'
    BY PrunedInverse, Zenon DEF MapsAreInverse
<1>3. OwnersInv'
    BY PrunedAllocatable, Zenon DEF OwnersInv
<1>4. AnswersInv'
    BY PrunedAnswer, ZenonT(40) DEF AnswersInv
<1>5. QED
    BY <1>1, <1>2, <1>3, <1>4, Zenon

\* Steps that leave the store alone.
LEMMA OnlyTasks ==
  ASSUME IInv,
         UNCHANGED <<domain_to_entry, ip_to_domain, next_candidate, now, answers>>,
         task' \in [Tasks -> TaskStates],
         TasksInv'
  PROVE  IInv'
BY DEF IInv, TypeOK, MapsAreInverse, AreInverse, OwnersInv, AnswersInv

\* A step gives the domain d of family f the entry for the address ip, which is
\* its own already or has no owner, and answers with it.
Giving(f, d, ip, at) ==
  /\ \/ PrunedEntries(at)[f][d] # None /\ PrunedEntries(at)[f][d].ip = ip
     \/ PrunedEntries(at)[f][d] = None /\ PrunedOwners(at)[f][ip] = None
  /\ domain_to_entry' = [PrunedEntries(at) EXCEPT ![f][d] = Entry(ip, at)]
  /\ \A g \in Families : \A x \in Addrs(g) :
       ip_to_domain'[g][x] = IF g = f /\ x = ip THEN d ELSE PrunedOwners(at)[g][x]
  /\ answers' = answers \cup {Answer(f, d, ip, at)}
  /\ next_candidate' \in [Families -> Nat]
  /\ now' = now

\* Such a step keeps the invariant.
LEMMA Gives ==
  ASSUME IInv, NEW at \in Nat, at <= now, now - MaxSkew <= at,
         NEW f \in Families, NEW d \in Domains, NEW ip \in Allocatable(f),
         Giving(f, d, ip, at),
         task' \in [Tasks -> TaskStates],
         TasksInv'
  PROVE  IInv'
<1> USE DEF IInv, Giving
<1>1. /\ ip \in Addrs(f)
      /\ at + RecordTtl \in Nat
      /\ now \in Nat
    BY AllocatableInRange, DurationsAreNat DEF TypeOK
<1>2. /\ Entry(ip, at) \in Entries(f)
      /\ Entry(ip, at) # None
      /\ Entry(ip, at).ip = ip
      /\ Entry(ip, at).expires_at = at + RecordTtl
  <2>1. Entry(ip, at) \in Entries(f)
      BY <1>1, Zenon DEF Entry, Entries
  <2>2. QED
      BY <2>1, EntryFields, Zenon DEF Entry
<1>3. ASSUME NEW g \in Families, NEW e \in Domains
      PROVE  domain_to_entry'[g][e] =
               IF g = f /\ e = d THEN Entry(ip, at) ELSE PrunedEntries(at)[g][e]
    BY ZenonT(40) DEF PrunedEntries
<1>4. TypeOK'
  <2>1. ASSUME NEW g \in Families
        PROVE  /\ \A e \in Domains : domain_to_entry'[g][e] \in Entries(g) \cup {None}
               /\ \A x \in Addrs(g) : ip_to_domain'[g][x] \in Domains \cup {None}
      BY <1>2, <1>3, PrunedTypes, SMTT(30)
  <2>2. ASSUME NEW a \in answers'
        PROVE  /\ a.family \in Families
               /\ a.ip \in Addrs(a.family)
               /\ a.domain \in Domains
               /\ a.until \in Nat
      BY <1>1 DEF TypeOK, Answer
  <2>3. QED
      BY <1>1, <2>1, <2>2, Zenon DEF TypeOK
<1>5. MapsAreInverse'
  <2>1. AreInverse(PrunedEntries(at), PrunedOwners(at))
      BY PrunedInverse, Zenon
  <2>2. ASSUME NEW g \in Families, NEW e \in Domains, NEW x \in Addrs(g)
        PROVE  ip_to_domain'[g][x] = e <=>
                 domain_to_entry'[g][e] # None /\ domain_to_entry'[g][e].ip = x
    <3>1. PrunedOwners(at)[g][x] = e <=>
            PrunedEntries(at)[g][e] # None /\ PrunedEntries(at)[g][e].ip = x
        BY <2>1, SMTT(30) DEF AreInverse
    <3>2. PrunedOwners(at)[f][ip] = d \/ PrunedOwners(at)[f][ip] = None
        BY <1>1, <2>1, SMTT(30) DEF AreInverse
    <3>3. CASE g # f
        BY <1>3, <3>1, <3>3, SMTT(30)
    <3>4. CASE g = f /\ e = d /\ x = ip
        BY <1>2, <1>3, <3>4, SMTT(30)
    <3>5. CASE g = f /\ e = d /\ x # ip
      <4>1. ip_to_domain'[g][x] = PrunedOwners(at)[g][x]
          BY <3>5, Zenon
      <4>2. PrunedOwners(at)[g][x] # d
          BY <3>1, <3>5, Zenon
      <4>3. domain_to_entry'[g][e] = Entry(ip, at)
          BY <1>3, <3>5
      <4>4. domain_to_entry'[g][e].ip = ip
          BY <1>2, <4>3, ZenonT(40)
      <4>5. QED
          BY <3>5, <4>1, <4>2, <4>4, Zenon
    <3>6. CASE g = f /\ e # d /\ x = ip
        BY <1>2, <1>3, <3>1, <3>2, <3>6, FakeIpAssumption, SMTT(30)
    <3>7. CASE g = f /\ e # d /\ x # ip
        BY <1>3, <3>1, <3>7
    <3>8. QED
        BY <3>3, <3>4, <3>5, <3>6, <3>7, ZenonT(40)
  <2>3. QED
      BY <2>2, Zenon DEF MapsAreInverse, AreInverse
<1>6. OwnersInv'
    BY PrunedAllocatable, ZenonT(40) DEF OwnersInv
<1>7. AnswersInv'
  <2>1. ASSUME NEW a \in answers, now + MaxSkew < a.until
        PROVE  /\ domain_to_entry'[a.family][a.domain] # None
               /\ domain_to_entry'[a.family][a.domain].ip = a.ip
               /\ a.until <= domain_to_entry'[a.family][a.domain].expires_at + MaxSkew
    <3>1. /\ a.family \in Families
          /\ a.domain \in Domains
          /\ a.until \in Nat
          /\ a.until <= now + RecordTtl
        BY Zenon DEF TypeOK, AnswersInv
    <3>2. PrunedEntries(at)[a.family][a.domain] = domain_to_entry[a.family][a.domain]
        BY <2>1, PrunedAnswer, Zenon
    <3>3. /\ domain_to_entry[a.family][a.domain] # None
          /\ domain_to_entry[a.family][a.domain].ip = a.ip
          /\ a.until <= domain_to_entry[a.family][a.domain].expires_at + MaxSkew
        BY <2>1, Zenon DEF AnswersInv
    <3>4. CASE a.family = f /\ a.domain = d
      <4>1. domain_to_entry'[a.family][a.domain] = Entry(ip, at) /\ a.ip = ip
          BY <1>3, <3>1, <3>2, <3>3, <3>4, SMTT(30)
      <4>2. a.until <= at + RecordTtl + MaxSkew
          BY <1>1, <3>1, DurationsAreNat, SMTT(30)
      <4>3. QED
          BY <1>2, <4>1, <4>2, ZenonT(40)
    <3>5. CASE ~(a.family = f /\ a.domain = d)
        BY <1>3, <3>1, <3>2, <3>3, <3>5, SMTT(30)
    <3>6. QED
        BY <3>4, <3>5, Zenon
  <2>2. ASSUME NEW a \in answers
        PROVE  a.until <= now + RecordTtl
      BY Zenon DEF AnswersInv
  <2>3. ASSUME NEW a, a = Answer(f, d, ip, at)
        PROVE  /\ a.until <= now + RecordTtl
               /\ domain_to_entry'[a.family][a.domain] # None
               /\ domain_to_entry'[a.family][a.domain].ip = a.ip
               /\ a.until <= domain_to_entry'[a.family][a.domain].expires_at + MaxSkew
    <3>1. a.family = f /\ a.domain = d /\ a.ip = ip /\ a.until = at + RecordTtl
        BY <2>3, Zenon DEF Answer
    <3>2. QED
        BY <1>1, <1>2, <1>3, <3>1, DurationsAreNat
  <2>4. QED
      BY <2>1, <2>2, <2>3, Zenon DEF AnswersInv
<1>8. QED
    BY <1>4, <1>5, <1>6, <1>7, Zenon

\* A task reads the clock for the next query of todo.
LEMMA ClockRead ==
  ASSUME IInv, NEW t \in Tasks, NEW todo \in Seq(Queries), ReadClock(t, todo)
  PROVE  IInv'
<1>1. PICK k \in DOMAIN todo :
        /\ todo[k].family \in Families
        /\ task' = [task EXCEPT ![t] = Stamped(SubSeq(todo, k, Len(todo)), now)]
    BY Zenon DEF ReadClock
<1> DEFINE rest == SubSeq(todo, k, Len(todo))
<1>2. k \in 1..Len(todo) /\ Len(todo) \in Nat
    BY LenProperties, Zenon
<1>3. rest \in Seq(Queries) /\ Len(rest) = Len(todo) - k + 1 /\ rest[1] = todo[k]
    BY <1>2, SubSeqProperties
<1>4. rest # << >> /\ Head(rest) = todo[k]
  <2>1. Len(rest) # 0
      BY <1>2, <1>3
  <2>2. QED
      BY <1>3, <2>1, EmptySeq, HeadTailProperties, SMTT(30)
<1> HIDE DEF rest
<1>5. Stamped(rest, now) \in TaskStates
    BY <1>3, TaskStateTypes, Zenon DEF IInv, TypeOK
<1>6. task' \in [Tasks -> TaskStates] /\ TasksInv'
  <2>1. /\ Stamped(rest, now).pc = "locking"
        /\ Stamped(rest, now).stamp = now
        /\ Stamped(rest, now).todo = rest
      BY Zenon DEF Stamped
  <2>2. task' = [task EXCEPT ![t] = Stamped(rest, now)] /\ now' = now
      BY <1>1, Zenon DEF rest, ReadClock
  <2>3. QED
      BY <1>1, <1>4, <1>5, <2>1, <2>2, TaskMoves, Zenon DEF IInv
<1>7. QED
    BY <1>6, OnlyTasks, Zenon DEF ReadClock

\* Every step keeps the invariant.
LEMMA InvNext == IInv /\ [Next]_vars => IInv'
<1> SUFFICES ASSUME IInv, [Next]_vars PROVE IInv'
    BY Zenon
<1>1. ASSUME NEW t \in Tasks, handle_request(t) PROVE IInv'
  <2>1. PICK r \in Requests : ReadClock(t, r)
      BY <1>1, Zenon DEF handle_request
  <2>2. QED
      BY <2>1, ClockRead, FakeIpAssumption, Zenon
<1>2. ASSUME NEW t \in Tasks, NextQuery(t) PROVE IInv'
  <2>1. task[t] \in TaskStates /\ task[t].pc = "queries"
      BY <1>2, Zenon DEF NextQuery, IInv, TypeOK
  <2>2. task[t].todo \in Seq(Queries)
      BY <2>1 DEF TaskStates, Idle
  <2>3. QED
      BY <1>2, <2>2, ClockRead, Zenon DEF NextQuery
<1>3. ASSUME NEW t \in Tasks, Reply(t) PROVE IInv'
  <2>1. task' \in [Tasks -> TaskStates] /\ TasksInv'
      BY <1>3, TaskMoves, IdleState, Zenon DEF Reply, IInv
  <2>2. QED
      BY <1>3, <2>1, OnlyTasks, Zenon DEF Reply
<1>4. ASSUME NEW t \in Tasks, NEW r \in Seq(Queries),
             task' = [task EXCEPT ![t] = Handling(r)], now' = now
      PROVE  task' \in [Tasks -> TaskStates] /\ TasksInv'
    BY <1>4, TaskMoves, TaskStateTypes, Zenon DEF IInv
<1>5. ASSUME NEW t \in Tasks, Refresh(t) PROVE IInv'
  <2> DEFINE q == Head(task[t].todo)
             f == q.family
             d == Normal[q.name]
             at == task[t].stamp
             e == PrunedEntries(at)[f][d]
  <2>1. /\ task[t].pc = "locking"
        /\ e # None
        /\ domain_to_entry' = [PrunedEntries(at) EXCEPT ![f][d] = Entry(e.ip, at)]
        /\ ip_to_domain' = PrunedOwners(at)
        /\ answers' = answers \cup {Answer(f, d, e.ip, at)}
        /\ task' = [task EXCEPT ![t] = Handling(Tail(task[t].todo))]
        /\ UNCHANGED <<next_candidate, now>>
      BY <1>5, Zenon DEF Refresh
  <2>2. /\ f \in Families /\ d \in Domains
        /\ Tail(task[t].todo) \in Seq(Queries)
        /\ at \in Nat /\ at <= now /\ now - MaxSkew <= at
      BY <2>1, TaskQuery, TaskStamp, Zenon DEF IInv
  <2>3. task' \in [Tasks -> TaskStates] /\ TasksInv'
      BY <1>4, <2>1, <2>2, Zenon
  <2> HIDE DEF q, f, d, at
  <2>4. e.ip \in Addrs(f)
      BY <2>1, <2>2, PrunedTypes, EntryFields, SMTT(30) DEF IInv
  <2>5. PrunedOwners(at)[f][e.ip] = d
      BY <2>1, <2>2, <2>4, PrunedInverse DEF IInv, AreInverse
  <2>6. e.ip \in Allocatable(f)
      BY <2>2, <2>4, <2>5, PrunedAllocatable, FakeIpAssumption, Zenon DEF IInv
  <2>7. next_candidate' \in [Families -> Nat]
      BY <2>1, Zenon DEF IInv, TypeOK
  <2>8. \A g \in Families : \A x \in Addrs(g) :
          ip_to_domain'[g][x] =
            IF g = f /\ x = e.ip THEN d ELSE PrunedOwners(at)[g][x]
      BY <2>1, <2>5, Zenon
  <2>9. Giving(f, d, e.ip, at)
      BY <2>1, <2>7, <2>8, Zenon DEF Giving
  <2> HIDE DEF e
  <2>10. QED
      BY <2>2, <2>3, <2>6, <2>9, Gives, Zenon
<1>6. ASSUME NEW t \in Tasks, Allocate(t) PROVE IInv'
  <2> DEFINE q == Head(task[t].todo)
             f == q.family
             d == Normal[q.name]
             at == task[t].stamp
  <2>1. /\ task[t].pc = "locking"
        /\ PrunedEntries(at)[f][d] = None
        /\ task' = [task EXCEPT ![t] = Handling(Tail(task[t].todo))]
        /\ now' = now
      BY <1>6, Zenon DEF Allocate
  <2>2. PICK ip \in FreeAddrs(f, at) :
        /\ domain_to_entry' = [PrunedEntries(at) EXCEPT ![f][d] = Entry(ip, at)]
        /\ ip_to_domain' = [PrunedOwners(at) EXCEPT ![f][ip] = d]
        /\ next_candidate' = [next_candidate EXCEPT ![f] = advance_candidate(f, ip)]
        /\ answers' = answers \cup {Answer(f, d, ip, at)}
      BY <1>6, Zenon DEF Allocate
  <2>3. /\ f \in Families /\ d \in Domains
        /\ Tail(task[t].todo) \in Seq(Queries)
        /\ at \in Nat /\ at <= now /\ now - MaxSkew <= at
      BY <2>1, TaskQuery, TaskStamp, Zenon DEF IInv
  <2>4. task' \in [Tasks -> TaskStates] /\ TasksInv'
      BY <1>4, <2>1, <2>3, Zenon
  <2> HIDE DEF q, f, d, at
  <2>5. ip \in Allocatable(f) /\ ip \in Addrs(f) /\ PrunedOwners(at)[f][ip] = None
      BY <2>2, <2>3, AllocatableInRange, Zenon DEF FreeAddrs
  <2>6. next_candidate' \in [Families -> Nat]
    <3>1. advance_candidate(f, ip) \in Nat
        BY <2>3, <2>5, AllocatableInRange, AddrsAreNat DEF advance_candidate
    <3>2. QED
        BY <2>2, <2>3, <3>1, Zenon DEF IInv, TypeOK
  <2>7. \A g \in Families : \A x \in Addrs(g) :
          ip_to_domain'[g][x] = IF g = f /\ x = ip THEN d ELSE PrunedOwners(at)[g][x]
      BY <2>2, <2>3, <2>5, Zenon DEF PrunedOwners
  <2>8. Giving(f, d, ip, at)
      BY <2>1, <2>2, <2>5, <2>6, <2>7, Zenon DEF Giving
  <2>9. QED
      BY <2>3, <2>4, <2>5, <2>8, Gives, Zenon
<1>7. ASSUME NEW t \in Tasks, Exhausted(t) PROVE IInv'
  <2>1. task' \in [Tasks -> TaskStates] /\ TasksInv'
      BY <1>7, TaskMoves, IdleState, Zenon DEF Exhausted, IInv
  <2>2. QED
      BY <1>7, <2>1, TaskStamp, OnlyPrunes, Zenon DEF Exhausted, IInv
<1>8. ASSUME NEW t \in Tasks, StartLookup(t) PROVE IInv'
  <2>1. LookingUp(now) \in TaskStates
      BY TaskStateTypes, EmptySeq, Zenon DEF IInv, TypeOK
  <2>2. task' \in [Tasks -> TaskStates] /\ TasksInv'
      BY <1>8, <2>1, TaskMoves, Zenon DEF StartLookup, LookingUp, IInv
  <2>3. QED
      BY <1>8, <2>2, OnlyTasks, Zenon DEF StartLookup
<1>9. ASSUME NEW t \in Tasks, resolve_domain(t) PROVE IInv'
  <2>1. task' \in [Tasks -> TaskStates] /\ TasksInv'
      BY <1>9, TaskMoves, IdleState, Zenon DEF resolve_domain, IInv
  <2>2. QED
      BY <1>9, <2>1, TaskStamp, OnlyPrunes, Zenon DEF resolve_domain, IInv
<1>10. CASE Tick
  <2> USE <1>10 DEF IInv
  <2>1. now \in Nat /\ now' = now + 1 /\ now' \in Nat
      BY DEF Tick, TypeOK
  <2>2. TypeOK'
      BY <2>1, Zenon DEF Tick, TypeOK
  <2>3. MapsAreInverse' /\ OwnersInv'
      BY DEF Tick, MapsAreInverse, AreInverse, OwnersInv
  <2>4. TasksInv'
    <3>1. ASSUME NEW t \in Tasks, task[t].pc \in {"locking", "lookup"}
          PROVE  now' - MaxSkew <= task[t].stamp /\ task[t].stamp <= now'
      <4>1. now - task[t].stamp < MaxSkew
          BY <3>1, Zenon DEF Tick
      <4>2. QED
          BY <2>1, <3>1, <4>1, TaskStamp, DurationsAreNat
    <3>2. QED
        BY <3>1, Zenon DEF Tick, TasksInv
  <2>5. AnswersInv'
    <3>1. ASSUME NEW a \in answers'
          PROVE  /\ a.until <= now' + RecordTtl
                 /\ now' + MaxSkew < a.until => now + MaxSkew < a.until
                 /\ a \in answers
      <4>1. a \in answers /\ a.until \in Nat /\ a.until <= now + RecordTtl
          BY <3>1, Zenon DEF Tick, TypeOK, AnswersInv
      <4>2. QED
          BY <2>1, <4>1, DurationsAreNat
    <3>2. QED
        BY <3>1, Zenon DEF Tick, AnswersInv
  <2>6. QED
      BY <2>2, <2>3, <2>4, <2>5, Zenon
<1>11. CASE UNCHANGED vars
  <2>1. TypeOK' /\ TasksInv'
      BY <1>11, Zenon DEF vars, IInv, TypeOK, TasksInv
  <2>2. QED
      BY <1>11, <2>1, OnlyTasks, Zenon DEF vars, TypeOK
<1>12. QED
    BY <1>1, <1>2, <1>3, <1>5, <1>6, <1>7, <1>8, <1>9, <1>10, <1>11, Zenon DEF Next, Step

-----------------------------------------------------------------------------
(* The theorems.                                                            *)

\* The invariant holds in every reachable state.
LEMMA InvAlways == Spec => []IInv
BY InvInit, InvNext, PTL DEF Spec

\* The store, the tasks and the answers always have their types.
THEOREM TypeCorrect == Spec => []TypeOK
BY InvAlways, PTL DEF IInv

\* domain_to_entry and ip_to_domain are each other's inverse in every reachable
\* state, for any ranges and any number of tasks with late clock values.
THEOREM InverseCorrect == Spec => []MapsAreInverse
BY InvAlways, PTL DEF IInv

\* No operation ever gives out the network address, the addresses of the TUN
\* interface and its DNS server, or the IPv4 broadcast address.
THEOREM ReservedCorrect == Spec => []ReservedStayFree
<1>1. IInv => ReservedStayFree
  <2> SUFFICES ASSUME OwnersInv,
                      NEW f \in Families, NEW ip \in Addrs(f),
                      Net[f] + 3 <= MaxAddr[f],
                      ip_to_domain[f][ip] # None
               PROVE  /\ ip \notin {Net[f], tun_addr(f), dns_addr(f)}
                      /\ f = "v4" => ip # Top[f]
      BY Zenon DEF IInv, ReservedStayFree
  <2>1. ip \in Allocatable(f)
      BY Zenon DEF OwnersInv
  <2>2. Net[f] \in Nat /\ Top[f] \in Nat /\ MaxAddr[f] \in Nat
      BY FakeIpAssumption, Zenon
  <2>3. /\ first_allocatable(f) = Net[f] + 3
        /\ tun_addr(f) = Net[f] + 1
        /\ dns_addr(f) = Net[f] + 2
      BY <2>2 DEF first_allocatable, first_usable, saturating_add, tun_addr, dns_addr
  <2>4. ip \in Nat /\ first_allocatable(f) <= ip /\ ip <= last_usable(f)
      BY <2>1, <2>2, <2>3, AddrsAreNat DEF Allocatable
  <2>5. f = "v4" => ip # Top[f]
      BY <2>2, <2>4 DEF last_usable
  <2>6. QED
      BY <2>2, <2>3, <2>4, <2>5
<1>2. QED
    BY <1>1, InvAlways, PTL

\* A running answer is found with any clock value that has been read already.
LEMMA AnswerFound ==
  ASSUME IInv, NEW t \in Nat, t <= now, NEW a \in answers, now + MaxSkew < a.until
  PROVE  Lookup(a.family, a.ip, t) = a.domain /\ a.domain # None
<1> DEFINE e == domain_to_entry[a.family][a.domain]
<1>1. /\ a.family \in Families /\ a.domain \in Domains
      /\ a.ip \in Addrs(a.family) /\ a.until \in Nat /\ now \in Nat
      /\ e \in Entries(a.family) \cup {None}
    BY Zenon DEF IInv, TypeOK
<1>2. e # None /\ e.ip = a.ip /\ a.until <= e.expires_at + MaxSkew
    BY Zenon DEF IInv, AnswersInv
<1>3. PrunedEntries(t)[a.family][a.domain] = e
    BY PrunedAnswer, Zenon DEF IInv
<1>4. PrunedOwners(t)[a.family][a.ip] = a.domain
    BY <1>1, <1>2, <1>3, PrunedInverse DEF IInv, AreInverse
<1>5. e.expires_at > t
  <2>1. e.expires_at \in Nat
      BY <1>1, <1>2, EntryFields, Zenon
  <2> HIDE DEF e
  <2> QED
      BY <1>1, <1>2, <2>1, DurationsAreNat
<1>6. a.domain # None
    BY <1>1, FakeIpAssumption, Zenon
<1> QED
    BY <1>2, <1>3, <1>4, <1>5, <1>6, Zenon DEF Lookup

\* So the invariant honours every running answer.
LEMMA StoreAnswers == IInv => AnswersHonoured
<1> SUFFICES ASSUME IInv PROVE AnswersHonoured
    BY Zenon
<1>1. now \in Nat /\ now <= now
    BY DEF IInv, TypeOK
<1> QED
    BY <1>1, AnswerFound, Zenon DEF AnswersHonoured

\* Every fake answer leads back to its domain while its TTL runs, less the time
\* a task may spend between reading the clock and taking the lock.
THEOREM AnswersCorrect == Spec => []AnswersHonoured
BY StoreAnswers, InvAlways, PTL

\* The invariant makes the running answers agree.
LEMMA StoreAgrees == IInv => AnswersAgree
<1> SUFFICES ASSUME IInv, NEW a \in answers, NEW b \in answers, a.family = b.family,
                    now + MaxSkew < a.until, now + MaxSkew < b.until
             PROVE  a.ip = b.ip <=> a.domain = b.domain
    BY Zenon DEF AnswersAgree
<1>1. /\ a.family \in Families
      /\ a.domain \in Domains /\ a.ip \in Addrs(a.family)
      /\ b.domain \in Domains /\ b.ip \in Addrs(a.family)
    BY Zenon DEF IInv, TypeOK
<1>2. /\ domain_to_entry[a.family][a.domain] # None
      /\ domain_to_entry[a.family][a.domain].ip = a.ip
      /\ domain_to_entry[a.family][b.domain] # None
      /\ domain_to_entry[a.family][b.domain].ip = b.ip
    BY Zenon DEF IInv, AnswersInv
<1>3. /\ ip_to_domain[a.family][a.ip] = a.domain
      /\ ip_to_domain[a.family][b.ip] = b.domain
  <2>1. \A d \in Domains : \A ip \in Addrs(a.family) :
          ip_to_domain[a.family][ip] = d <=>
            domain_to_entry[a.family][d] # None /\ domain_to_entry[a.family][d].ip = ip
      BY <1>1, Zenon DEF IInv, MapsAreInverse, AreInverse
  <2> QED
      BY <1>1, <1>2, <2>1, Zenon
<1> QED
    BY <1>2, <1>3, Zenon

\* Two fake answers of one family that are both running never name one address
\* for two domains, nor two addresses for one domain.
THEOREM AgreementCorrect == Spec => []AnswersAgree
BY StoreAgrees, InvAlways, PTL

\* When the search finds no free address, every allocatable address belongs to an
\* entry that the pruning kept.
LEMMA FullRange ==
  ASSUME IInv, NEW f \in Families, NEW at \in Nat, FreeAddrs(f, at) = {},
         NEW ip \in Allocatable(f)
  PROVE  \E d \in Domains : /\ PrunedEntries(at)[f][d] # None
                            /\ PrunedEntries(at)[f][d].ip = ip
                            /\ PrunedEntries(at)[f][d].expires_at > at
<1>1. ip \in Addrs(f)
    BY AllocatableInRange, Zenon
<1>2. PrunedOwners(at)[f][ip] # None
    BY Zenon DEF FreeAddrs
<1>3. PICK d \in Domains : PrunedOwners(at)[f][ip] = d
    BY <1>1, <1>2, PrunedTypes, ZenonT(40) DEF IInv
<1>4. PrunedEntries(at)[f][d] # None /\ PrunedEntries(at)[f][d].ip = ip
  <2>1. AreInverse(PrunedEntries(at), PrunedOwners(at))
      BY PrunedInverse, Zenon DEF IInv
  <2> QED
      BY <1>1, <1>3, <2>1 DEF AreInverse
<1>5. /\ PrunedEntries(at)[f][d] = domain_to_entry[f][d]
      /\ ~(domain_to_entry[f][d].expires_at <= at)
    BY <1>4, PrunedEntry, Zenon DEF Expired
<1>6. PrunedEntries(at)[f][d].expires_at \in Nat
  <2>1. PrunedEntries(at)[f][d] \in Entries(f) \cup {None}
      BY PrunedTypes, Zenon DEF IInv
  <2> QED
      BY <1>4, <2>1, EntryFields, Zenon
<1>7. PrunedEntries(at)[f][d].expires_at > at
    BY <1>5, <1>6
<1> QED
    BY <1>4, <1>7, Zenon

\* A request ends with SERVFAIL for want of an address only when every allocatable
\* address of the range is held by an entry that has not expired.
THEOREM ExhaustionCorrect == Spec => ServfailMeansFull
<1>1. ASSUME IInv, NEW t \in Tasks, Exhausted(t)
      PROVE  \A ip \in Allocatable(Head(task[t].todo).family) : \E d \in Domains :
               /\ domain_to_entry'[Head(task[t].todo).family][d] # None
               /\ domain_to_entry'[Head(task[t].todo).family][d].ip = ip
               /\ domain_to_entry'[Head(task[t].todo).family][d].expires_at > task[t].stamp
  <2>1. /\ task[t].pc = "locking"
        /\ FreeAddrs(Head(task[t].todo).family, task[t].stamp) = {}
        /\ domain_to_entry' = PrunedEntries(task[t].stamp)
      BY <1>1, Zenon DEF Exhausted
  <2>2. Head(task[t].todo).family \in Families /\ task[t].stamp \in Nat
      BY <1>1, <2>1, TaskQuery, TaskStamp, Zenon DEF IInv
  <2>3. \A ip \in Allocatable(Head(task[t].todo).family) : \E d \in Domains :
          /\ PrunedEntries(task[t].stamp)[Head(task[t].todo).family][d] # None
          /\ PrunedEntries(task[t].stamp)[Head(task[t].todo).family][d].ip = ip
          /\ PrunedEntries(task[t].stamp)[Head(task[t].todo).family][d].expires_at > task[t].stamp
      BY <1>1, <2>1, <2>2, FullRange, Zenon
  <2> QED
      BY <2>1, <2>3, Zenon
<1>2. IInv => \A t \in Tasks : Exhausted(t) =>
                LET f == Head(task[t].todo).family IN
                \A ip \in Allocatable(f) : \E d \in Domains :
                  /\ domain_to_entry'[f][d] # None
                  /\ domain_to_entry'[f][d].ip = ip
                  /\ domain_to_entry'[f][d].expires_at > task[t].stamp
    BY <1>1, Zenon
<1> QED
    BY <1>2, InvAlways, PTL DEF ServfailMeansFull
=============================================================================
