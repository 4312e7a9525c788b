---------------------- MODULE TransparentRuntimeProofs ----------------------
(***************************************************************************)
(* The safety properties of TransparentRuntime, for any captures, core     *)
(* tasks, clients and ClientHellos, and any number of starts and crashes.  *)
(* Two invariants:                                                         *)
(*   - CaInv, of the certificate files and what is issued from them, which *)
(*     gives ChainsVerify and CaIsStable;                                  *)
(*   - LifeInv, of the workers, the registry and the phases of the backend,*)
(*     which gives RegistryTellsWhatRuns and StoppedLeavesNothing.  First  *)
(*     what each kind of step needs to keep it, then the steps.            *)
(* From both together, that no connection outlives its listener.           *)
(***************************************************************************)
EXTENDS TransparentRuntime, TLAPS

Contents == {None, Torn} \cup Nat
Pair == [cert : Contents, key : Contents]
Algorithms == {"rsa", "ecdsa"}
CertKeys == [host : Hosts, algorithm : Algorithms, issuer : Contents, chain : Contents]
Connections == [pc : {"none", "backlog", "handshake", "generate", "serving", "request", "closed"},
                path : {None, "direct", "nat", "bridge"},
                hello : Hellos \cup {None}, key : CertKeys \cup {None}]

\* What a pair in memory is good for: issuing with the right key, or nothing.
Sound(p) == p \in Pair /\ p.key # None /\ (p.key # Torn => p.cert = p.key)

\* A certificate for host h with algorithm a whose chain verifies.
Verifies(key, h, a) == key.host = h /\ key.algorithm = a /\ key.issuer = key.chain

\* The main task is past build_state.
Built == {"start_tls", "start_intercept", "starting", "running", "quit", "reload",
          "stop_tls", "restart_tls"}

\* The types of what the certificates depend on.
CaTypes ==
  /\ processes \in Nat
  /\ ca_files \in Pair
  /\ cache \in [Hosts -> [Algorithms -> CertKeys] \cup {None}]
  /\ conn \in [Clients -> Connections]

\* The files: while the certificate is being replaced there is no complete key, and
\* the key is written only beside the certificate of the same pair.
CaFiles ==
  /\ ca_files.key \notin {None, Torn} => ca_files.cert = ca_files.key
  /\ pc \in {"write_cert", "fill_cert"} => ca_files.key \in {None, Torn}
  /\ pc \in {"write_key", "fill_key"} => ca_files.key \in {None, Torn} /\ ca_files.cert = processes

\* The pair in memory has been there since before the listener and its clients.
CaLoaded ==
  /\ pc \in Built => Sound(service)
  /\ tls # None => Sound(service)
  /\ \A c \in Clients : conn[c].pc # "none" => Sound(service)

\* The cache and the connections.
Issued ==
  /\ \A h \in Hosts : cache[h] # None => \A a \in Algorithms : Verifies(cache[h][a], h, a)
  /\ \A c \in Clients : conn[c].pc = "generate" =>
       conn[c].hello \in Hellos /\ conn[c].hello.host # None
  /\ \A c \in Clients : conn[c].pc \in {"serving", "request"} =>
       /\ conn[c].key.host = conn[c].hello.host
       /\ conn[c].key.algorithm \in conn[c].hello.schemes
       /\ conn[c].key.issuer = conn[c].key.chain

CaInv == CaTypes /\ CaFiles /\ CaLoaded /\ Issued

-----------------------------------------------------------------------------
(* Certificates.                                                            *)

\* What the connection becomes that certified_key_for_host answers.
LEMMA ServedFacts ==
  ASSUME NEW c \in Clients, conn \in [Clients -> Connections],
         NEW hello \in Hellos, hello.host # None,
         NEW keys \in [Algorithms -> CertKeys],
         \A a \in Algorithms : Verifies(keys[a], hello.host, a)
  PROVE  /\ Served(c, hello, keys) \in Connections
         /\ Served(c, hello, keys).pc \in {"serving", "closed"}
         /\ Served(c, hello, keys).pc = "serving" =>
              /\ Served(c, hello, keys).key.host = Served(c, hello, keys).hello.host
              /\ Served(c, hello, keys).key.algorithm \in Served(c, hello, keys).hello.schemes
              /\ Served(c, hello, keys).key.issuer = Served(c, hello, keys).key.chain
<1> DEFINE a == select_certified_key_algorithm(hello.schemes)
           key == keys[a]
           C == CertKeys
<1>1. a \in Algorithms
    BY Zenon DEF select_certified_key_algorithm, Algorithms
<1>2. key \in C /\ key.host = hello.host /\ key.issuer = key.chain
    BY <1>1, Zenon DEF Verifies
<1>3. Served(c, hello, keys) =
        IF key.algorithm \in hello.schemes
        THEN [conn[c] EXCEPT !.pc = "serving", !.hello = hello, !.key = key] ELSE Closed
    BY Zenon DEF Served
<1> HIDE DEF key, C
<1>4. Closed \in [pc : {"none", "backlog", "handshake", "generate", "serving", "request", "closed"},
                  path : {None, "direct", "nat", "bridge"},
                  hello : Hellos \cup {None}, key : C \cup {None}] /\ Closed.pc = "closed"
    BY Zenon DEF Closed, Connection
<1>5. conn[c] \in [pc : {"none", "backlog", "handshake", "generate", "serving", "request", "closed"},
                   path : {None, "direct", "nat", "bridge"},
                   hello : Hellos \cup {None}, key : C \cup {None}]
    BY Zenon DEF Connections, C
<1>6. Served(c, hello, keys) \in
        [pc : {"none", "backlog", "handshake", "generate", "serving", "request", "closed"},
         path : {None, "direct", "nat", "bridge"},
         hello : Hellos \cup {None}, key : C \cup {None}]
    BY <1>2, <1>3, <1>4, <1>5, ZenonT(40)
<1>7. Served(c, hello, keys) \in Connections
    BY <1>6, Zenon DEF Connections, C
<1>8. key.algorithm \in hello.schemes => /\ Served(c, hello, keys).pc = "serving"
                                         /\ Served(c, hello, keys).hello = hello
                                         /\ Served(c, hello, keys).key = key
    BY <1>3, <1>5, Zenon
<1> QED
    BY <1>2, <1>3, <1>4, <1>7, <1>8, Zenon

\* The certificates issued for a host by a sound pair.
LEMMA IssuedFacts ==
  ASSUME NEW h \in Hosts, Sound(service), KeyParses
  PROVE  LET keys == [a \in {"rsa", "ecdsa"} |-> build_leaf_certified_key(h, a)] IN
         /\ keys \in [Algorithms -> CertKeys]
         /\ \A a \in Algorithms : Verifies(keys[a], h, a)
BY Zenon DEF Sound, KeyParses, build_leaf_certified_key, Algorithms, CertKeys, Verifies, Pair

\* A step that leaves the CA, the cache and the connections alone.
LEMMA CaFrame ==
  ASSUME CaInv, UNCHANGED <<ca_files, service, cache, conn, processes>>,
         tls' # None => tls # None \/ pc \in Built,
         pc' = pc \/ (/\ pc' \notin {"write_cert", "fill_cert", "write_key", "fill_key"}
                      /\ pc' \in Built => pc \in Built)
  PROVE  CaInv'
BY Zenon DEF CaInv, CaTypes, CaFiles, CaLoaded, Issued

\* A step of one connection, to what r says.
LEMMA CaConnection ==
  ASSUME CaInv, UNCHANGED <<ca_files, service, cache, tls, pc, processes>>,
         NEW c \in Clients, NEW r \in Connections, conn' = [conn EXCEPT ![c] = r],
         r.pc # "none" => Sound(service),
         r.pc = "generate" => r.hello \in Hellos /\ r.hello.host # None,
         r.pc \in {"serving", "request"} => /\ r.key.host = r.hello.host
                                            /\ r.key.algorithm \in r.hello.schemes
                                            /\ r.key.issuer = r.key.chain
  PROVE  CaInv'
<1>1. conn' \in [Clients -> Connections] /\ conn'[c] = r
      /\ \A d \in Clients \ {c} : conn'[d] = conn[d]
    BY Zenon DEF CaInv, CaTypes
<1> QED
    BY <1>1, ZenonT(40) DEF CaInv, CaTypes, CaFiles, CaLoaded, Issued

\* A closed or a new connection.
LEMMA FreshConnections ==
  /\ Closed \in Connections /\ Closed.pc = "closed"
  /\ NoConn \in Connections /\ NoConn.pc = "none"
  /\ \A path \in {"direct", "nat", "bridge"} :
       Connection("backlog", path) \in Connections /\ Connection("backlog", path).pc = "backlog"
<1> DEFINE C == CertKeys
<1> HIDE DEF C
<1>1. \A p \in {"none", "backlog", "closed"}, path \in {None, "direct", "nat", "bridge"} :
        /\ Connection(p, path) \in
             [pc : {"none", "backlog", "handshake", "generate", "serving", "request", "closed"},
              path : {None, "direct", "nat", "bridge"},
              hello : Hellos \cup {None}, key : C \cup {None}]
        /\ Connection(p, path).pc = p
    BY Zenon DEF Connection
<1>2. \A p \in {"none", "backlog", "closed"}, path \in {None, "direct", "nat", "bridge"} :
        Connection(p, path) \in Connections /\ Connection(p, path).pc = p
    BY <1>1, Zenon DEF Connections, C
<1> QED
    BY <1>2, Zenon DEF Closed, NoConn

\* Closing a connection that has been there.
LEMMA CaClose ==
  ASSUME CaInv, NEW c \in Clients, conn[c].pc # "none", Close(c), UNCHANGED control
  PROVE  CaInv'
<1>1. Sound(service)
    BY Zenon DEF CaInv, CaLoaded
<1>2. conn' = [conn EXCEPT ![c] = Closed] /\ UNCHANGED <<ca_files, service, cache, tls, pc, processes>>
    BY Zenon DEF Close, Set, control
<1>3. Closed \in Connections /\ Closed.pc = "closed"
    BY FreshConnections, Zenon
<1> QED
    BY <1>1, <1>2, <1>3, CaConnection, Zenon

\* No file has been written and nobody is connected at first.
LEMMA CaInit == Init => CaInv
<1> SUFFICES ASSUME Init PROVE CaInv
    BY Zenon
<1>1. conn \in [Clients -> Connections] /\ \A c \in Clients : conn[c].pc = "none"
    BY FreshConnections, Zenon DEF Init
<1>2. CaTypes
    BY <1>1, Zenon DEF Init, CaTypes, Pair, Contents, NoCache
<1> QED
    BY <1>1, <1>2, Zenon DEF Init, CaInv, CaFiles, CaLoaded, Issued, Built, NoCache

\* The steps of build_state.
LEMMA CaBuild ==
  ASSUME CaInv, CheckCa \/ WriteCert \/ WriteKey \/ UseGenerated
  PROVE  CaInv'
<1> USE DEF CaInv
<1>1. CASE CheckCa
  <2>1. CASE LoadCa /\ Goto("start_tls")
    <3>1. service' = ca_files /\ pc' = "start_tls" /\ UNCHANGED <<ca_files, cache, tls, conn, processes>>
        BY <1>1, <2>1, Zenon DEF CheckCa, LoadCa, Goto, Rest
    <3>2. Sound(service')
        BY <2>1, <3>1, Zenon DEF Sound, CaTypes, CaFiles, LoadCa, CaFilesExist
    <3> QED
        BY <3>1, <3>2, Zenon DEF CaTypes, CaFiles, CaLoaded, Issued
  <2>2. CASE ~CaFilesExist /\ Goto("write_cert") /\ UNCHANGED <<worker_vars, tls_vars>>
    <3>1. ca_files.key \in {None, Torn}
        BY <2>2, Zenon DEF CaFiles, CaFilesExist
    <3>2. pc' = "write_cert" /\ UNCHANGED <<ca_files, service, cache, tls, conn, processes>>
        BY <1>1, <2>2, Zenon DEF CheckCa, Goto, Rest, tls_vars
    <3> QED
        BY <3>1, <3>2, Zenon DEF CaTypes, CaFiles, CaLoaded, Issued, Built
  <2>3. CASE CaFilesExist /\ Goto("exit") /\ UNCHANGED <<worker_vars, tls_vars>>
    <3>1. pc' = "exit" /\ UNCHANGED <<ca_files, service, cache, tls, conn, processes>>
        BY <1>1, <2>3, Zenon DEF CheckCa, Goto, Rest, tls_vars
    <3> QED
        BY <3>1, CaFrame, Zenon DEF Built
  <2> QED
      BY <1>1, <2>1, <2>2, <2>3, Zenon DEF CheckCa
<1>2. CASE WriteCert
  <2>1. ca_files.key \in {None, Torn} /\ UNCHANGED <<service, cache, tls, conn, processes>>
      BY <1>2, Zenon DEF WriteCert, WriteFile, CaFiles, BeginWrite, EndWrite, tls_vars, Rest
  <2>2. \/ pc' = "fill_cert" /\ ca_files' = [ca_files EXCEPT !.cert = Torn]
        \/ pc' = "write_key" /\ ca_files' = [ca_files EXCEPT !.cert = processes]
        \/ pc' = "exit" /\ ca_files' = ca_files
      BY <1>2, Zenon DEF WriteCert, WriteFile, BeginWrite, EndWrite, Goto, tls_vars
  <2>3. ca_files' \in Pair /\ ca_files'.key = ca_files.key
        /\ (pc' = "write_key" => ca_files'.cert = processes)
      BY <2>2, Zenon DEF CaTypes, Pair, Contents
  <2> QED
      BY <2>1, <2>2, <2>3, Zenon DEF CaTypes, CaFiles, CaLoaded, Issued, Built
<1>3. CASE WriteKey
  <2>1. ca_files.cert = processes /\ UNCHANGED <<service, cache, tls, conn, processes>>
      BY <1>3, Zenon DEF WriteKey, WriteFile, CaFiles, BeginWrite, EndWrite, tls_vars, Rest
  <2>2. \/ pc' = "fill_key" /\ ca_files' = [ca_files EXCEPT !.key = Torn]
        \/ pc' = "use_ca" /\ ca_files' = [ca_files EXCEPT !.key = processes]
        \/ pc' = "exit" /\ ca_files' = ca_files
      BY <1>3, Zenon DEF WriteKey, WriteFile, BeginWrite, EndWrite, Goto, tls_vars
  <2>3. ca_files' \in Pair /\ ca_files'.cert = processes
        /\ (pc' = "fill_key" => ca_files'.key = Torn)
        /\ (pc' = "use_ca" => ca_files'.key = processes)
      BY <2>1, <2>2, Zenon DEF CaTypes, Pair, Contents
  <2> QED
      BY <2>1, <2>2, <2>3, Zenon DEF CaTypes, CaFiles, CaLoaded, Issued, Built
<1>4. CASE UseGenerated
  <2>1. service' = [cert |-> processes, key |-> processes] /\ pc' = "start_tls"
        /\ UNCHANGED <<ca_files, cache, tls, conn, processes>>
      BY <1>4, Zenon DEF UseGenerated, UseCa, Goto, Rest
  <2>2. processes # None => Sound(service')
      BY <2>1, Zenon DEF Sound, CaTypes, Pair, Contents
  <2> QED
      BY <2>1, <2>2, RuntimeAssumption, Zenon DEF CaTypes, CaFiles, CaLoaded, Issued
<1> QED
    BY <1>1, <1>2, <1>3, <1>4, Zenon

\* Every step, crash and restart included, keeps the invariant of the CA pair.
LEMMA CaNext == CaInv /\ [Next]_vars => CaInv'
<1> SUFFICES ASSUME CaInv, [Next]_vars PROVE CaInv'
    BY Zenon
<1>1. CASE CheckCa \/ WriteCert \/ WriteKey \/ UseGenerated
    BY <1>1, CaBuild, Zenon
<1>2. CASE StartTls
  <2>1. /\ UNCHANGED <<ca_files, service, cache, conn, processes>>
        /\ pc \in Built /\ pc' \in {"start_intercept", "exit"}
      BY <1>2, Zenon DEF StartTls, start_tls, Goto, Rest, tls_vars, Built
  <2> QED
      BY <2>1, CaFrame, Zenon
<1>3. CASE StartIntercept \/ InterceptStarted \/ Quit \/ Reload \/ StopIntercept \/ StopTls
  <2>1. /\ UNCHANGED <<ca_files, service, cache, conn, tls, processes>>
        /\ pc \in Built
        /\ pc' \in {"starting", "exit", "running", "quit", "reload", "stop_tls", "restart_tls",
                    "start_intercept"}
      BY <1>3, Zenon DEF StartIntercept, InterceptStarted, Quit, Reload, StopIntercept, StopTls, Goto, Rest,
                  tls_vars, control, Built
  <2> QED
      BY <2>1, CaFrame, Zenon
<1>4. CASE TlsStopped
  <2>1. /\ UNCHANGED <<ca_files, service, cache, conn, processes>>
        /\ pc \in Built /\ pc' \in {"exit", "start_tls"} /\ tls' = None
      BY <1>4, Zenon DEF TlsStopped, Goto, Rest, Built
  <2> QED
      BY <2>1, CaFrame, Zenon
<1>5. CASE BackendStep \/ (\E w \in Tasks : Worker(w) \/ WorkerFails(w)) \/ (\E c \in Clients : Tunnel(c))
           \/ UNCHANGED vars
  <2>1. UNCHANGED <<ca_files, service, cache, conn, tls, processes, pc>>
      BY <1>5, Zenon DEF BackendStep, Worker, WorkerFails, Tunnel, vars, tls_vars, control
  <2> QED
      BY <2>1, CaFrame, Zenon
<1>6. CASE DropRuntime
  <2>1. /\ UNCHANGED <<ca_files, service, cache, processes>>
        /\ pc' = "exiting" /\ tls' = None
        /\ conn' = [c \in Clients |-> IF conn[c].pc = "none" THEN NoConn ELSE Closed]
      BY <1>6, Zenon DEF DropRuntime, Goto, Rest
  <2>2. conn' \in [Clients -> Connections]
      BY <2>1, FreshConnections, Zenon
  <2>3. \A c \in Clients : /\ conn'[c].pc # "none" => conn[c].pc # "none"
                           /\ conn'[c].pc \notin {"generate", "serving", "request"}
      BY <2>1, FreshConnections, Zenon
  <2> QED
      BY <2>1, <2>2, <2>3, Zenon DEF CaInv, CaTypes, CaFiles, CaLoaded, Issued, Built
<1>7. CASE End
  <2>1. UNCHANGED <<ca_files, service, cache, conn, tls, processes>> /\ pc' = "ended"
      BY <1>7, Zenon DEF End, Goto, Rest, tls_vars
  <2> QED
      BY <2>1, CaFrame, Zenon DEF Built
<1>8. CASE Restart
  <2>1. /\ ca_files' = ca_files /\ pc' = "load_ca" /\ tls' = None
        /\ cache' = NoCache /\ conn' = [c \in Clients |-> NoConn]
      BY <1>8, Zenon DEF Restart
  <2>2. conn' \in [Clients -> Connections] /\ \A c \in Clients : conn'[c].pc = "none"
      BY <2>1, FreshConnections, Zenon
  <2>3. CaTypes'
    <3>1. cache' \in [Hosts -> [Algorithms -> CertKeys] \cup {None}]
        BY <2>1, Zenon DEF NoCache
    <3>2. ca_files' \in Pair
        BY <2>1, Zenon DEF CaInv, CaTypes
    <3>3. processes' \in Nat
      <4>1. processes \in Nat
          BY Zenon DEF CaInv, CaTypes
      <4>2. processes' = processes + 1
          BY <1>8, Zenon DEF Restart
      <4> QED
          BY <4>1, <4>2
    <3> QED
        BY <2>2, <3>1, <3>2, <3>3, Zenon DEF CaTypes
  <2>4. CaFiles' /\ CaLoaded'
      BY <2>1, <2>2, Zenon DEF CaInv, CaFiles, CaLoaded, Built
  <2>5. Issued'
      BY <2>1, <2>2, Zenon DEF Issued, NoCache
  <2> QED
      BY <2>3, <2>4, <2>5, Zenon DEF CaInv
<1>9. ASSUME NEW c \in Clients, Arrive(c) PROVE CaInv'
  <2>1. PICK path \in {"direct", "nat", "bridge"} : Connect(c, path)
      BY <1>9, Zenon DEF Arrive
  <2> DEFINE r == Connection("backlog", path)
  <2>2. conn' = [conn EXCEPT ![c] = r] /\ UNCHANGED <<ca_files, service, cache, tls, pc, processes>>
      BY <1>9, <2>1, Zenon DEF Arrive, Connect, Set, control
  <2>3. Sound(service)
      BY <2>1, Zenon DEF Connect, Listening, CaInv, CaLoaded
  <2>4. r \in Connections /\ r.pc = "backlog"
      BY FreshConnections, Zenon
  <2> HIDE DEF r
  <2> QED
      BY <2>2, <2>3, <2>4, CaConnection, Zenon
<1>10. ASSUME NEW c \in Clients, Leave(c), UNCHANGED control PROVE CaInv'
  <2>1. conn[c].pc # "none" /\ Close(c)
      BY <1>10, Zenon DEF Leave
  <2> QED
      BY <1>10, <2>1, CaClose, Zenon
<1>11. ASSUME NEW c \in Clients, NEW hello \in Hellos, ClientHello(c, hello), UNCHANGED control
       PROVE  CaInv'
  <2>0. Sound(service) /\ conn[c].pc = "handshake" /\ conn[c] \in Connections
      BY <1>11, Zenon DEF ClientHello, CaInv, CaLoaded, CaTypes
  <2>1. CASE Close(c)
      BY <1>11, <2>0, <2>1, CaClose, Zenon
  <2>2. CASE hello.host # None /\ cache[hello.host] # None /\ Set(c, Served(c, hello, cache[hello.host]))
    <3> DEFINE r == Served(c, hello, cache[hello.host])
    <3>1. hello.host \in Hosts
        BY <2>2, Zenon DEF Hosts
    <3>2. cache[hello.host] \in [Algorithms -> CertKeys]
          /\ \A a \in Algorithms : Verifies(cache[hello.host][a], hello.host, a)
        BY <2>2, <3>1, Zenon DEF CaInv, CaTypes, Issued
    <3>3. conn' = [conn EXCEPT ![c] = r] /\ UNCHANGED <<ca_files, service, cache, tls, pc, processes>>
        BY <1>11, <2>2, Zenon DEF Set, control
    <3>4. /\ r \in Connections /\ r.pc \in {"serving", "closed"}
          /\ r.pc = "serving" => /\ r.key.host = r.hello.host
                                 /\ r.key.algorithm \in r.hello.schemes
                                 /\ r.key.issuer = r.key.chain
        BY <2>2, <3>2, ServedFacts, Zenon DEF CaInv, CaTypes
    <3> HIDE DEF r
    <3> QED
        BY <2>0, <3>3, <3>4, CaConnection, Zenon
  <2>3. CASE hello.host # None /\ Set(c, [conn[c] EXCEPT !.pc = "generate", !.hello = hello])
    <3> DEFINE r == [conn[c] EXCEPT !.pc = "generate", !.hello = hello]
               C == CertKeys
    <3>1. conn' = [conn EXCEPT ![c] = r] /\ UNCHANGED <<ca_files, service, cache, tls, pc, processes>>
        BY <1>11, <2>3, Zenon DEF Set, control
    <3> HIDE DEF C
    <3>2. r \in Connections /\ r.pc = "generate" /\ r.hello = hello
      <4>1. conn[c] \in [pc : {"none", "backlog", "handshake", "generate", "serving", "request", "closed"},
                         path : {None, "direct", "nat", "bridge"},
                         hello : Hellos \cup {None}, key : C \cup {None}]
          BY <2>0, Zenon DEF Connections, C
      <4>2. r \in [pc : {"none", "backlog", "handshake", "generate", "serving", "request", "closed"},
                   path : {None, "direct", "nat", "bridge"},
                   hello : Hellos \cup {None}, key : C \cup {None}]
            /\ r.pc = "generate" /\ r.hello = hello
          BY <4>1, Zenon
      <4> QED
          BY <4>2, Zenon DEF Connections, C
    <3> HIDE DEF r
    <3> QED
        BY <2>0, <2>3, <3>1, <3>2, CaConnection, Zenon
  <2> QED
      BY <1>11, <2>1, <2>2, <2>3, Zenon DEF ClientHello
<1>12. ASSUME NEW c \in Clients, Accept(c), UNCHANGED control PROVE CaInv'
  <2> DEFINE r == [conn[c] EXCEPT !.pc = "handshake"]
             C == CertKeys
  <2>1. conn' = [conn EXCEPT ![c] = r] /\ UNCHANGED <<ca_files, service, cache, tls, pc, processes>>
        /\ Sound(service)
      BY <1>12, Zenon DEF Accept, Set, control, CaInv, CaLoaded
  <2> HIDE DEF C
  <2>2. r \in Connections /\ r.pc = "handshake"
    <3>1. conn[c] \in [pc : {"none", "backlog", "handshake", "generate", "serving", "request", "closed"},
                       path : {None, "direct", "nat", "bridge"},
                       hello : Hellos \cup {None}, key : C \cup {None}]
        BY Zenon DEF Connections, C, CaInv, CaTypes
    <3>2. r \in [pc : {"none", "backlog", "handshake", "generate", "serving", "request", "closed"},
                 path : {None, "direct", "nat", "bridge"},
                 hello : Hellos \cup {None}, key : C \cup {None}] /\ r.pc = "handshake"
        BY <3>1, Zenon
    <3> QED
        BY <3>2, Zenon DEF Connections, C
  <2> HIDE DEF r
  <2> QED
      BY <2>1, <2>2, CaConnection, Zenon
<1>13. ASSUME NEW c \in Clients, IssueFails(c) \/ CloseIdle(c), UNCHANGED control PROVE CaInv'
  <2>1. conn[c].pc # "none" /\ Close(c)
      BY <1>13, Zenon DEF IssueFails, CloseIdle
  <2> QED
      BY <1>13, <2>1, CaClose, Zenon
<1>14. ASSUME NEW c \in Clients, Issue(c), UNCHANGED control PROVE CaInv'
  <2> DEFINE host == conn[c].hello.host
             keys == [a \in {"rsa", "ecdsa"} |-> build_leaf_certified_key(host, a)]
             r == Served(c, conn[c].hello, keys)
  <2>0. conn[c].pc = "generate" /\ KeyParses /\ Sound(service)
        /\ conn[c].hello \in Hellos /\ host # None
      BY <1>14, Zenon DEF Issue, CaInv, CaLoaded, Issued
  <2>1. host \in Hosts
      BY <2>0, Zenon DEF Hosts
  <2>2. conn' = [conn EXCEPT ![c] = r] /\ cache' = [cache EXCEPT ![host] = keys]
        /\ UNCHANGED <<ca_files, service, tls, pc, processes>>
      BY <1>14, Zenon DEF Issue, control
  <2>3. keys \in [Algorithms -> CertKeys] /\ \A a \in Algorithms : Verifies(keys[a], host, a)
      BY <2>0, <2>1, IssuedFacts, Zenon
  <2> HIDE DEF keys
  <2>4. /\ r \in Connections /\ r.pc \in {"serving", "closed"}
        /\ r.pc = "serving" => /\ r.key.host = r.hello.host
                               /\ r.key.algorithm \in r.hello.schemes
                               /\ r.key.issuer = r.key.chain
      BY <2>0, <2>3, ServedFacts, Zenon DEF CaInv, CaTypes
  <2> HIDE DEF r, host
  <2>5. conn' \in [Clients -> Connections] /\ conn'[c] = r
        /\ \A d \in Clients \ {c} : conn'[d] = conn[d]
      BY <2>2, <2>4, Zenon DEF CaInv, CaTypes
  <2>6. cache' \in [Hosts -> [Algorithms -> CertKeys] \cup {None}]
        /\ \A h \in Hosts : cache'[h] # None => \A a \in Algorithms : Verifies(cache'[h][a], h, a)
      BY <2>1, <2>2, <2>3, Zenon DEF CaInv, CaTypes, Issued
  <2> QED
      BY <2>0, <2>2, <2>4, <2>5, <2>6, ZenonT(40) DEF CaInv, CaTypes, CaFiles, CaLoaded, Issued
<1>15. CASE ServeListener
  <2>1. UNCHANGED <<ca_files, service, cache, tls, pc, processes>>
        /\ (conn' = conn \/ conn' = [c \in Clients |-> IF conn[c].pc = "backlog" THEN Closed ELSE conn[c]])
      BY <1>15, Zenon DEF ServeListener, StopAccepting, StopListening, control
  <2>2. conn' \in [Clients -> Connections]
      BY <2>1, FreshConnections, Zenon DEF CaInv, CaTypes
  <2>3. \A c \in Clients : conn'[c] = conn[c] \/ (conn'[c] = Closed /\ conn[c].pc # "none")
      BY <2>1, Zenon DEF CaInv, CaTypes
  <2> QED
      BY <2>1, <2>2, <2>3, FreshConnections, ZenonT(40) DEF CaInv, CaTypes, CaFiles, CaLoaded, Issued
<1>16. ASSUME NEW c \in Clients, BeginRequest(c) \/ FinishRequest(c), UNCHANGED control
       PROVE  CaInv'
  <2>0. /\ conn[c].pc \in {"serving", "request"} /\ Sound(service) /\ conn[c] \in Connections
        /\ conn[c].key.host = conn[c].hello.host
        /\ conn[c].key.algorithm \in conn[c].hello.schemes
        /\ conn[c].key.issuer = conn[c].key.chain
      BY <1>16, Zenon DEF BeginRequest, FinishRequest, CaInv, CaLoaded, CaTypes, Issued
  <2>1. CASE Close(c)
      BY <1>16, <2>0, <2>1, CaClose, Zenon
  <2>2. ASSUME NEW p \in {"serving", "request"}, Set(c, [conn[c] EXCEPT !.pc = p])
        PROVE  CaInv'
    <3> DEFINE r == [conn[c] EXCEPT !.pc = p]
               C == CertKeys
    <3>1. conn' = [conn EXCEPT ![c] = r] /\ UNCHANGED <<ca_files, service, cache, tls, pc, processes>>
        BY <1>16, <2>2, Zenon DEF Set, control
    <3> HIDE DEF C
    <3>2. r \in Connections /\ r.pc = p /\ r.hello = conn[c].hello /\ r.key = conn[c].key
      <4>1. conn[c] \in [pc : {"none", "backlog", "handshake", "generate", "serving", "request", "closed"},
                         path : {None, "direct", "nat", "bridge"},
                         hello : Hellos \cup {None}, key : C \cup {None}]
          BY <2>0, Zenon DEF Connections, C
      <4>2. r \in [pc : {"none", "backlog", "handshake", "generate", "serving", "request", "closed"},
                   path : {None, "direct", "nat", "bridge"},
                   hello : Hellos \cup {None}, key : C \cup {None}]
            /\ r.pc = p /\ r.hello = conn[c].hello /\ r.key = conn[c].key
          BY <4>1, Zenon
      <4> QED
          BY <4>2, Zenon DEF Connections, C
    <3> HIDE DEF r
    <3>3. r.pc # "generate"
        BY <3>2, Zenon
    <3> QED
        BY <2>0, <3>1, <3>2, <3>3, CaConnection, Zenon
  <2> QED
      BY <1>16, <2>1, <2>2, Zenon DEF BeginRequest, FinishRequest, Close
<1>17. ASSUME NEW c \in Clients, Speak(c) \/ Hangup(c) \/ ServeConnection(c) PROVE CaInv'
    BY <1>17, <1>10, <1>11, <1>12, <1>13, <1>14, <1>16, Zenon DEF Speak, Hangup, ServeConnection
<1> QED
    BY <1>1, <1>2, <1>3, <1>4, <1>5, <1>6, <1>7, <1>8, <1>9, <1>15, <1>17, ZenonT(40) DEF Next, System, Main

\* A connection is served with a certificate for its host that its client can
\* verify and whose signature matches the CA certificate it is sent with, however
\* often the process crashed or failed between writing the two files of the CA
\* (get_or_generate_ca_cert, host_certified_keys).
THEOREM ChainsVerifyAlways == Spec => []ChainsVerify
<1>1. CaInv => ChainsVerify
    BY Zenon DEF CaInv, CaFiles, Issued, ChainsVerify
<1> QED
    BY <1>1, CaInit, CaNext, PTL DEF Spec

\* Only get_or_generate_ca_cert writes the files, and only while one is missing or
\* the key is not complete.
LEMMA CaFilesKept ==
  ASSUME CaInv, [Next]_vars, Complete(ca_files.cert), Complete(ca_files.key)
  PROVE  UNCHANGED ca_files
<1>1. CASE CheckCa \/ UseGenerated \/ StartTls
    BY <1>1, Zenon DEF CheckCa, UseGenerated, StartTls, LoadCa, UseCa, start_tls, tls_vars
<1>2. CASE WriteCert \/ WriteKey
  <2>1. pc \in {"write_cert", "fill_cert", "write_key", "fill_key"}
      BY <1>2, Zenon DEF WriteCert, WriteKey, WriteFile
  <2> QED
      BY <2>1, Zenon DEF CaInv, CaFiles, Complete
<1>3. CASE \/ StartIntercept \/ InterceptStarted \/ Quit \/ Reload \/ StopIntercept \/ StopTls
           \/ TlsStopped \/ DropRuntime \/ End \/ Restart
    BY <1>3, Zenon DEF StartIntercept, InterceptStarted, Quit, Reload, StopIntercept, StopTls,
                TlsStopped, DropRuntime, End, Restart, tls_vars
<1>4. CASE \/ BackendStep \/ (\E w \in Tasks : Worker(w) \/ WorkerFails(w))
           \/ (\E c \in Clients : Tunnel(c)) \/ UNCHANGED vars
    BY <1>4, Zenon DEF BackendStep, Worker, WorkerFails, Tunnel, vars, tls_vars
<1>5. CASE \/ ServeListener
           \/ (\E c \in Clients : Arrive(c) \/ Speak(c) \/ Hangup(c) \/ ServeConnection(c))
    BY <1>5, ZenonT(40) DEF ServeListener, StopAccepting, StopListening, Arrive, Connect, Speak, Leave,
                ClientHello, Hangup, ServeConnection, Accept, IssueFails, Issue, BeginRequest, CloseIdle, FinishRequest,
                  Close, Set
<1> QED
    BY <1>1, <1>2, <1>3, <1>4, <1>5, Zenon DEF Next, System, Main

\* A complete CA pair stays as it is for good, over any number of starts, crashes
\* and restarts.
THEOREM CaIsStableAlways == Spec => CaIsStable
<1>1. CaInv /\ [Next]_vars =>
        [Complete(ca_files.cert) /\ Complete(ca_files.key) => UNCHANGED ca_files]_vars
    BY CaFilesKept, Zenon
<1> QED
    BY <1>1, CaInit, CaNext, PTL DEF Spec, CaIsStable

-----------------------------------------------------------------------------
(* The workers: their states, the registry and the phases of the backend.   *)

Over == {"exiting", "ended"}
Plain == {"none", "running", "returned", "done"}
Still == {"none", "done"}
Live == {"running", "returned", "orphan", "dropped"}
BackendNames == Range(Captures) \cup Range(CoreTasks)
CoreWorkers == {Core(i) : i \in DOMAIN CoreTasks}

StartPhases == {"captures", "device", "dns", "stack", "core"}
StopPhases == {"join_captures", "join_core", "drain_bridges"}

\* The workers of the backend that may be alive: all those of the current start,
\* less the ones a shutdown has joined.
Active ==
  CASE kind = "windivert" /\ phase \in {"captures", "up", "failed"} -> CaptureWorkers
    [] kind = "windivert" /\ phase = "join_captures" ->
         {Capture(i) : i \in {j \in DOMAIN Captures : step <= j}}
    [] kind = "tun" /\ phase \in {"core", "up"} -> CoreWorkers
    [] kind = "tun" /\ phase = "join_core" ->
         {Core(i) : i \in {j \in DOMAIN CoreTasks : step <= j}}
    [] OTHER -> {}

LifeTypes ==
  /\ task \in [Tasks -> Plain \cup {"orphan", "dropped"}]
  /\ registry \in [Names -> {None, "Running", "Finished"}]
  /\ start \in 1..MaxStarts /\ starts \in 1..MaxStarts
  /\ step \in Nat
  /\ bridge \in [Streams -> {"none", "relaying", "over"}]
  /\ handles \subseteq Streams /\ draining_handles \subseteq Streams
  /\ tls # None => tls \in Tasks /\ tls[1] = TlsListener

\* Where the main task is while the backend is in a phase.
Phases ==
  /\ phase \in StartPhases \cup StopPhases \cup {"up", "failed", "down"}
  /\ phase \in StartPhases => pc = "starting"
  /\ phase \in StopPhases => pc \in {"quit", "reload"}
  /\ phase = "up" => pc \in {"starting", "running", "quit", "reload"}
  /\ phase = "failed" => pc \in {"starting", "exit"} \cup Over
  /\ phase = "down" => pc \notin {"starting", "running"}
  /\ kind \in {"windivert", "tun"}
  /\ phase \in {"captures", "join_captures"} => kind = "windivert"
  /\ phase \in {"device", "dns", "stack", "core", "join_core", "drain_bridges"} => kind = "tun"
  /\ phase = "core" => step \in DOMAIN CoreTasks

\* What is held, and in which phases.
Held ==
  /\ open \subseteq (IF kind = "windivert" /\ phase \in {"captures", "up", "failed"}
                     THEN CaptureWorkers ELSE {})
  /\ kind = "windivert" \/ phase \in {"down", "device", "failed"} => link = None
  /\ handles # {} => kind = "tun" /\ phase \in {"core", "up", "join_core"}
  /\ draining_handles # {} => phase = "drain_bridges"
  /\ \A c \in Streams : bridge[c] = "relaying" => c \in handles \cup draining_handles

\* While the process runs: only active workers of the backend and the current
\* listener are alive, and the cleanup worker of a started WinDivert backend is.
\* Once its runtime is gone, only threads are.
Running ==
  /\ pc \notin Over => \A w \in Tasks :
       /\ w[1] # NatCleanup => task[w] \in Plain
       /\ w[1] = NatCleanup => task[w] \in {"none", "running", "orphan", "dropped"}
       /\ w[1] \in BackendNames /\ w \notin Active => task[w] \in Still
       /\ w[1] = TlsListener /\ w # tls => task[w] \in Still
  /\ pc \notin Over /\ (\/ phase = "captures" /\ step > 0
                        \/ phase = "up" /\ kind = "windivert"
                        \/ phase = "join_captures") => task[Cleanup] = "running"
  /\ pc \in Over => \A w \in Tasks :
       /\ task[w] \notin {"running", "returned"}
       /\ w[1] \in BackendNames /\ (phase = "down" \/ kind = "tun") => task[w] \in Still \cup {"dropped"}

\* The registry.
Registered ==
  pc \notin Over => \A n \in Names :
    registry[n] = "Running" <=> \E w \in Tasks : w[1] = n /\ task[w] \in Live

LifeInv == LifeTypes /\ Phases /\ Held /\ Running /\ Registered

-----------------------------------------------------------------------------
(* Names.                                                                   *)

\* The names that are workers' are distinct.
LEMMA DistinctNames ==
  /\ BackendNames \subseteq Names /\ TlsListener \in Names /\ NatCleanup \in Names
  /\ TlsListener \notin BackendNames /\ NatCleanup \notin BackendNames /\ TlsListener # NatCleanup
  /\ Names = BackendNames \cup {TlsListener, NatCleanup}
<1>1. TlsListener # NatCleanup
    BY Zenon DEF TlsListener, NatCleanup
<1> QED
    BY <1>1, RuntimeAssumption, Zenon DEF BackendNames

\* The lists of workers.
LEMMA Lists ==
  /\ Len(Captures) \in Nat /\ DOMAIN Captures = 1..Len(Captures)
  /\ Len(CoreTasks) \in Nat /\ DOMAIN CoreTasks = 1..Len(CoreTasks) /\ 1 \in DOMAIN CoreTasks
<1>1. Captures \in Seq(Names) /\ CoreTasks \in Seq(Names)
    BY RuntimeAssumption, Zenon
<1>2. DOMAIN CoreTasks # {}
    BY RuntimeAssumption, Zenon DEF Range
<1> QED
    BY <1>1, <1>2

\* The workers of the current start.
LEMMA OfStart ==
  ASSUME LifeTypes
  PROVE  /\ \A i \in DOMAIN Captures : /\ Capture(i) \in Tasks /\ Capture(i)[1] \in BackendNames
                                       /\ Capture(i)[2] = start /\ Capture(i) \in CaptureWorkers
         /\ \A i \in DOMAIN CoreTasks : /\ Core(i) \in Tasks /\ Core(i)[1] \in BackendNames
                                        /\ Core(i)[2] = start /\ Core(i) \in CoreWorkers
         /\ Cleanup \in Tasks /\ Cleanup[1] = NatCleanup
<1>1. \A i \in DOMAIN Captures : Captures[i] \in BackendNames
    BY Zenon DEF BackendNames, Range
<1>2. \A i \in DOMAIN CoreTasks : CoreTasks[i] \in BackendNames
    BY Zenon DEF BackendNames, Range
<1>3. BackendNames \subseteq Names /\ NatCleanup \in Names /\ start \in 1..MaxStarts
    BY DistinctNames, Zenon DEF LifeTypes
<1> QED
    BY <1>1, <1>2, <1>3, Zenon DEF Capture, Core, Cleanup, Tasks, CaptureWorkers, CoreWorkers

\* Active workers are the backend's and of the current start.
LEMMA ActiveFacts ==
  ASSUME LifeTypes
  PROVE  \A w \in Active : w \in Tasks /\ w[1] \in BackendNames /\ w[2] = start
BY OfStart, ZenonT(40) DEF Active, CaptureWorkers, CoreWorkers

-----------------------------------------------------------------------------
(* Steps, by what they do to the workers.                                   *)

\* One worker changes its state.
LEMMA OneTask ==
  ASSUME LifeTypes, NEW w \in Tasks, NEW s \in Plain \cup {"orphan", "dropped"},
         task' = [task EXCEPT ![w] = s]
  PROVE  /\ task' \in [Tasks -> Plain \cup {"orphan", "dropped"}]
         /\ task'[w] = s
         /\ \A v \in Tasks \ {w} : task'[v] = task[v]
BY Zenon DEF LifeTypes

\* A step that leaves workers, backend and listener alone.
LEMMA LifeFrame ==
  ASSUME LifeInv, UNCHANGED <<task, registry, backend_vars, tls>>, starts' \in 1..MaxStarts,
         Phases', pc' \in Over <=> pc \in Over
  PROVE  LifeInv'
<1>1. UNCHANGED <<phase, kind, start, step, open, link, bridge, handles, draining_handles>>
    BY Zenon DEF backend_vars
<1>2. Active' = Active /\ Cleanup' = Cleanup /\ CaptureWorkers' = CaptureWorkers
    BY <1>1, Zenon DEF Active, Cleanup, Capture, Core, CaptureWorkers, CoreWorkers
<1>3. LifeTypes' /\ Held'
    BY <1>1, <1>2, Zenon DEF LifeInv, LifeTypes, Held
<1>4. Running' /\ Registered'
    BY <1>1, <1>2, Zenon DEF LifeInv, Running, Registered
<1> QED
    BY <1>3, <1>4, Zenon DEF LifeInv

\* A step of the backend that leaves the workers alone: whoever stops being
\* active has been joined.
LEMMA BackendFrame ==
  ASSUME LifeInv, UNCHANGED <<task, registry, tls, starts>>, LifeTypes', Phases', Held',
         pc \notin Over, pc' \notin Over,
         \A w \in Tasks : w[1] \in BackendNames /\ w \notin Active' => w \notin Active \/ Joined(w),
         (\/ phase' = "captures" /\ step' > 0
          \/ phase' = "up" /\ kind' = "windivert"
          \/ phase' = "join_captures") => task[Cleanup'] = "running"
  PROVE  LifeInv'
<1>1. \A w \in Tasks : w[1] \in BackendNames /\ w \notin Active' => task[w] \in Still
  <2>1. \A w \in Tasks : w[1] \in BackendNames => task[w] \in Plain
      BY DistinctNames, Zenon DEF LifeInv, Running
  <2> QED
      BY <2>1, Zenon DEF LifeInv, Running, Joined, Plain, Still
<1>2. Running'
    BY <1>1, Zenon DEF LifeInv, Running
<1>3. Registered'
    BY Zenon DEF LifeInv, Registered
<1> QED
    BY <1>2, <1>3, Zenon DEF LifeInv

\* A start of a worker that may be active, or is the cleanup worker or the listener.
LEMMA SpawnFrame ==
  ASSUME LifeInv, LifeTypes', Phases', Held', pc \notin Over, pc' \notin Over,
         NEW w \in Tasks, spawn(w),
         \A v \in Tasks : v[1] \in BackendNames /\ v \notin Active' => v \notin Active /\ v # w,
         \A v \in Tasks : v[1] = TlsListener /\ v # tls' => v # w /\ (v # tls \/ tls = tls'),
         (\/ phase' = "captures" /\ step' > 0
          \/ phase' = "up" /\ kind' = "windivert"
          \/ phase' = "join_captures") => task'[Cleanup'] = "running"
  PROVE  LifeInv'
<1>1. task' = [task EXCEPT ![w] = "running"] /\ registry' = [registry EXCEPT ![w[1]] = "Running"]
    BY Zenon DEF spawn, mark_running
<1>2. task'[w] = "running" /\ \A v \in Tasks \ {w} : task'[v] = task[v]
    BY <1>1, Zenon DEF LifeInv, LifeTypes
<1>3. Running'
    BY <1>2, Zenon DEF LifeInv, Running, Plain, Still
<1>4. w[1] \in Names /\ registry \in [Names -> {None, "Running", "Finished"}]
    BY Zenon DEF Tasks, LifeInv, LifeTypes
<1>5. registry'[w[1]] = "Running" /\ \A n \in Names \ {w[1]} : registry'[n] = registry[n]
    BY <1>1, <1>4, Zenon
<1>6. Registered'
    BY <1>2, <1>5 DEF LifeInv, Registered, Live
<1> QED
    BY <1>3, <1>6, Zenon DEF LifeInv

\* A worker of the backend or the listener returns.
LEMMA ReturnFrame ==
  ASSUME LifeInv, UNCHANGED <<backend_vars, tls, control>>, NEW w \in Tasks, Return(w),
         w[1] \in BackendNames \/ (tls # None /\ w = tls)
  PROVE  LifeInv'
<1> DEFINE s == IF task[w] = "running" THEN "returned" ELSE "dropped"
<1>1. task' = [task EXCEPT ![w] = s] /\ registry' = registry /\ task[w] \in {"running", "orphan"}
    BY Zenon DEF Return, Alive
<1>2. s \in Plain \cup {"orphan", "dropped"} /\ LifeTypes
    BY Zenon DEF Plain, LifeInv
<1> HIDE DEF s
<1>3. /\ task' \in [Tasks -> Plain \cup {"orphan", "dropped"}]
      /\ task'[w] = s /\ \A v \in Tasks \ {w} : task'[v] = task[v]
    BY <1>1, <1>2, OneTask, Zenon
<1>4. UNCHANGED <<phase, kind, start, step, open, link, bridge, handles, draining_handles, pc, starts>>
    BY Zenon DEF backend_vars, control
<1>5. Active' = Active /\ Cleanup' = Cleanup /\ CaptureWorkers' = CaptureWorkers
    BY <1>4, Zenon DEF Active, Cleanup, Capture, Core, CaptureWorkers, CoreWorkers
<1>6. w[1] # NatCleanup /\ (w[1] \in BackendNames \/ (w = tls /\ w[1] = TlsListener))
    BY DistinctNames, Zenon DEF LifeInv, LifeTypes
<1>7. LifeTypes' /\ Phases' /\ Held'
  <2>1. LifeTypes'
      BY <1>1, <1>3, <1>4, Zenon DEF LifeInv, LifeTypes
  <2>2. Phases'
      BY <1>4, Zenon DEF LifeInv, Phases
  <2>3. Held'
      BY <1>4, <1>5, Zenon DEF LifeInv, Held
  <2> QED
      BY <2>1, <2>2, <2>3, Zenon
<1>8. CASE pc \notin Over
  <2>1. task[w] = "running" /\ s = "returned"
      BY <1>1, <1>6, <1>8, Zenon DEF LifeInv, Running, Plain, s
  <2>2. (w[1] \in BackendNames => w \in Active) /\ (w[1] = TlsListener => w = tls)
      BY <1>8, <2>1, Zenon DEF LifeInv, Running, Still
  <2>3. Cleanup # w
      BY <1>2, <1>6, OfStart, Zenon
  <2>4. Cleanup \in Tasks
      BY <1>2, OfStart, Zenon
  <2>5. \A v \in Tasks :
          /\ v[1] # NatCleanup => task'[v] \in Plain
          /\ v[1] = NatCleanup => task'[v] \in {"none", "running", "orphan", "dropped"}
          /\ v[1] \in BackendNames /\ v \notin Active => task'[v] \in Still
          /\ v[1] = TlsListener /\ v # tls => task'[v] \in Still
    <3> SUFFICES ASSUME NEW v \in Tasks
                 PROVE  /\ v[1] # NatCleanup => task'[v] \in Plain
                        /\ v[1] = NatCleanup => task'[v] \in {"none", "running", "orphan", "dropped"}
                        /\ v[1] \in BackendNames /\ v \notin Active => task'[v] \in Still
                        /\ v[1] = TlsListener /\ v # tls => task'[v] \in Still
        BY Zenon
    <3>1. CASE v = w
        BY <1>3, <1>6, <2>1, <2>2, <3>1, Zenon DEF Plain
    <3>2. CASE v # w
        BY <1>3, <1>8, <3>2, Zenon DEF LifeInv, Running
    <3> QED
        BY <3>1, <3>2, Zenon
  <2>6. Running'
      BY <1>3, <1>4, <1>5, <1>8, <2>3, <2>4, <2>5, ZenonT(40) DEF LifeInv, Running
  <2>7. \A v \in Tasks : task'[v] \in Live <=> task[v] \in Live
      BY <1>3, <2>1, Zenon DEF Live
  <2>8. Registered'
      BY <1>1, <1>4, <1>8, <2>7, ZenonT(40) DEF LifeInv, Registered
  <2> QED
      BY <1>7, <2>6, <2>8, Zenon DEF LifeInv
<1>9. CASE pc \in Over
  <2>1. s = "dropped"
      BY <1>9, Zenon DEF LifeInv, Running, s
  <2>2. Running'
      BY <1>3, <1>4, <1>9, <2>1, Zenon DEF LifeInv, Running
  <2>3. Registered'
      BY <1>4, <1>9, Zenon DEF Registered
  <2> QED
      BY <1>7, <2>2, <2>3, Zenon DEF LifeInv
<1> QED
    BY <1>8, <1>9, Zenon

\* A wrapper reports the end of its worker: no other worker of the name is live.
LEMMA CompletionFrame ==
  ASSUME LifeInv, UNCHANGED <<backend_vars, tls, control>>, NEW w \in Tasks, log_worker_completion(w)
  PROVE  LifeInv'
<1>1. /\ task[w] = "returned" /\ task' = [task EXCEPT ![w] = "done"]
      /\ registry' = [registry EXCEPT ![w[1]] = IF registry[w[1]] = None THEN registry[w[1]] ELSE "Finished"]
    BY Zenon DEF log_worker_completion, mark_finished
<1>2. LifeTypes /\ "done" \in Plain \cup {"orphan", "dropped"}
    BY Zenon DEF LifeInv, Plain
<1>3. /\ task' \in [Tasks -> Plain \cup {"orphan", "dropped"}]
      /\ task'[w] = "done" /\ \A v \in Tasks \ {w} : task'[v] = task[v]
    BY <1>1, <1>2, OneTask, Zenon
<1>4. UNCHANGED <<phase, kind, start, step, open, link, bridge, handles, draining_handles, pc, starts>>
    BY Zenon DEF backend_vars, control
<1>5. Active' = Active /\ Cleanup' = Cleanup /\ CaptureWorkers' = CaptureWorkers
    BY <1>4, Zenon DEF Active, Cleanup, Capture, Core, CaptureWorkers, CoreWorkers
<1>6. pc \notin Over /\ w[1] # NatCleanup
    BY <1>1, Zenon DEF LifeInv, Running
<1>7. w[1] \in Names /\ registry \in [Names -> {None, "Running", "Finished"}]
    BY Zenon DEF Tasks, LifeInv, LifeTypes
<1>8. registry[w[1]] = "Running"
    BY <1>1, <1>6, <1>7, Zenon DEF LifeInv, Registered, Live
<1>9. /\ registry' \in [Names -> {None, "Running", "Finished"}] /\ registry'[w[1]] # "Running"
      /\ \A n \in Names \ {w[1]} : registry'[n] = registry[n]
  <2>1. registry'[w[1]] = "Finished"
      BY <1>1, <1>7, <1>8, RuntimeAssumption, Zenon
  <2> QED
      BY <1>1, <1>7, <1>8, <2>1, ZenonT(40)
<1>10. LifeTypes' /\ Phases' /\ Held'
    BY <1>3, <1>4, <1>5, <1>9, ZenonT(60) DEF LifeInv, LifeTypes, Phases, Held
<1>11. Running'
  <2>1. Cleanup \in Tasks /\ Cleanup # w
      BY <1>2, <1>6, OfStart, Zenon
  <2> QED
      BY <1>3, <1>4, <1>5, <1>6, <2>1, Zenon DEF LifeInv, Running, Plain, Still
<1>12. \A v \in Tasks : v[1] = w[1] => task'[v] \notin Live
  <2> SUFFICES ASSUME NEW v \in Tasks, v[1] = w[1], v # w PROVE task[v] \notin Live
      BY <1>3, Zenon DEF Live
  <2>1. CASE w[1] \in BackendNames
    <3>1. w \in Active
        BY <1>1, <1>6, <2>1, Zenon DEF LifeInv, Running, Still
    <3>2. v \notin Active
      <4>1. w = <<w[1], w[2]>> /\ v = <<v[1], v[2]>>
          BY DEF Tasks
      <4>2. w[2] = start /\ (v \in Active => v[2] = start)
          BY <1>2, <3>1, ActiveFacts, Zenon
      <4> QED
          BY <4>1, <4>2, Zenon
    <3> QED
        BY <1>6, <2>1, <3>2, Zenon DEF LifeInv, Running, Still, Live
  <2>2. CASE w[1] = TlsListener
    <3>1. w = tls
        BY <1>1, <1>6, <2>2, Zenon DEF LifeInv, Running, Still
    <3> QED
        BY <1>6, <2>2, <3>1, Zenon DEF LifeInv, Running, Still, Live
  <2> QED
      BY <1>6, <1>7, <2>1, <2>2, DistinctNames, Zenon
<1>13. Registered'
    BY <1>3, <1>4, <1>9, <1>12 DEF LifeInv, Registered
<1> QED
    BY <1>10, <1>11, <1>13, Zenon DEF LifeInv

-----------------------------------------------------------------------------
(* The actions.                                                             *)

\* A process that has started nothing satisfies the invariant.
LEMMA LifeInit == Init => LifeInv
<1> SUFFICES ASSUME Init PROVE LifeInv
    BY Zenon
<1> USE DEF Init
<1>1. task \in [Tasks -> Plain \cup {"orphan", "dropped"}] /\ \A w \in Tasks : task[w] = "none"
    BY Zenon DEF NoTasks, Plain
<1>2. registry \in [Names -> {None, "Running", "Finished"}] /\ \A n \in Names : registry[n] # "Running"
    BY RuntimeAssumption, Zenon DEF NoEntries
<1>3. LifeTypes
    BY <1>1, <1>2, RuntimeAssumption DEF LifeTypes
<1>4. Phases /\ Held
    BY Zenon DEF Phases, Held, StartPhases, StopPhases
<1>5. Running /\ Registered
    BY <1>1, <1>2, Zenon DEF Running, Registered, Plain, Still, Live, Over
<1> QED
    BY <1>3, <1>4, <1>5, Zenon DEF LifeInv

\* Steps of the main task and of connections that start and stop nothing.
LEMMA QuietSteps ==
  ASSUME LifeInv,
         \/ CheckCa \/ WriteCert \/ WriteKey \/ UseGenerated \/ InterceptStarted \/ Quit \/ Reload
         \/ StopTls \/ End \/ (StopAccepting /\ UNCHANGED <<control, backend_vars>>)
         \/ (\E c \in Clients : Arrive(c) \/ Speak(c) \/ Hangup(c) \/ ServeConnection(c))
         \/ UNCHANGED vars
  PROVE  LifeInv'
<1> USE DEF LifeInv
<1>1. CASE CheckCa \/ WriteCert \/ WriteKey \/ UseGenerated
  <2>1. UNCHANGED <<task, registry, backend_vars, tls, starts>>
      BY <1>1, Zenon DEF CheckCa, WriteCert, WriteKey, WriteFile, UseGenerated, LoadCa, BeginWrite, EndWrite,
                  UseCa, Rest, worker_vars, tls_vars
  <2>2. /\ pc \in {"load_ca", "write_cert", "fill_cert", "write_key", "fill_key", "use_ca"}
        /\ pc' \in {"start_tls", "write_cert", "fill_cert", "write_key", "fill_key", "use_ca", "exit"}
      BY <1>1, Zenon DEF CheckCa, WriteCert, WriteKey, WriteFile, UseGenerated, Goto
  <2>3. UNCHANGED <<phase, kind, step>>
      BY <2>1, Zenon DEF backend_vars
  <2>4. phase = "down"
      BY <2>2, Zenon DEF Phases, StartPhases, StopPhases, Over
  <2>5. Phases' /\ pc \notin Over /\ pc' \notin Over
      BY <2>2, <2>3, <2>4, ZenonT(40) DEF Phases, StartPhases, StopPhases, Over
  <2> QED
      BY <2>1, <2>5, LifeFrame, Zenon DEF LifeTypes
<1>2. CASE InterceptStarted \/ Quit \/ Reload \/ StopTls
  <2>1. UNCHANGED <<task, registry, backend_vars, tls>>
      BY <1>2, ZenonT(40) DEF InterceptStarted, Quit, Reload, StopTls, Tell, Rest, worker_vars, tls_vars
  <2>2. starts' \in 1..MaxStarts
      BY <1>2, RuntimeAssumption DEF InterceptStarted, Quit, Reload, StopTls, Rest, LifeTypes
  <2>3. UNCHANGED <<phase, kind, step>>
      BY <2>1, Zenon DEF backend_vars
  <2>4. \/ pc = "starting" /\ phase = "up" /\ pc' = "running"
        \/ pc = "starting" /\ phase = "failed" /\ pc' = "exit"
        \/ pc = "running" /\ pc' \in {"quit", "reload"}
        \/ phase = "down" /\ pc \in {"quit", "reload"}
             /\ pc' \in {"stop_tls", "restart_tls", "start_intercept"}
      BY <1>2, Zenon DEF InterceptStarted, Quit, Reload, StopTls, Goto
  <2>5. Phases' /\ pc \notin Over /\ pc' \notin Over
      BY <2>3, <2>4, Zenon DEF Phases, StartPhases, StopPhases, Over
  <2> QED
      BY <2>1, <2>2, <2>5, LifeFrame, Zenon
<1>3. CASE End
  <2>1. UNCHANGED <<task, registry, backend_vars, tls, starts>> /\ pc = "exiting" /\ pc' = "ended"
      BY <1>3, Zenon DEF End, Goto, Rest, worker_vars, tls_vars
  <2>2. UNCHANGED <<phase, kind, step>>
      BY <2>1, Zenon DEF backend_vars
  <2>3. Phases' /\ pc \in Over /\ pc' \in Over
      BY <2>1, <2>2, Zenon DEF Phases, StartPhases, StopPhases, Over
  <2> QED
      BY <2>1, <2>3, LifeFrame, Zenon DEF LifeTypes
<1>4. CASE \/ (StopAccepting /\ UNCHANGED <<control, backend_vars>>)
           \/ (\E c \in Clients : Arrive(c) \/ Speak(c) \/ Hangup(c) \/ ServeConnection(c))
           \/ UNCHANGED vars
  <2>1. UNCHANGED <<task, registry, backend_vars, tls, control>>
      BY <1>4, ZenonT(40) DEF StopAccepting, Arrive, Connect, Speak, Leave, ClientHello, Hangup, ServeConnection,
                  Accept, IssueFails, Issue, BeginRequest, CloseIdle, FinishRequest,
                  Close, Set, worker_vars, tls_vars, vars
  <2>2. UNCHANGED <<phase, kind, step, pc, starts>>
      BY <2>1, Zenon DEF backend_vars, control
  <2>3. Phases'
      BY <2>2, Zenon DEF Phases
  <2> QED
      BY <2>1, <2>2, <2>3, LifeFrame, Zenon DEF LifeTypes
<1> QED
    BY <1>1, <1>2, <1>3, <1>4, Zenon

\* The listener starts, stops and is given up.
LEMMA ListenerSteps ==
  ASSUME LifeInv,
         \/ StartTls \/ TlsStopped \/ (StopListening /\ UNCHANGED <<control, backend_vars>>)
  PROVE  LifeInv'
<1> USE DEF LifeInv
<1>1. CASE StartTls
  <2>0. UNCHANGED <<backend_vars, starts>> /\ pc = "start_tls" /\ pc' \in {"start_intercept", "exit"}
      BY <1>1, Zenon DEF StartTls, Goto, Rest
  <2>1. UNCHANGED <<phase, kind, start, step, open, link, bridge, handles, draining_handles>>
      BY <2>0, Zenon DEF backend_vars
  <2>2. phase = "down" /\ Phases' /\ pc \notin Over /\ pc' \notin Over
      BY <2>0, <2>1, Zenon DEF Phases, StartPhases, StopPhases, Over
  <2>3. CASE UNCHANGED <<worker_vars, tls_vars>>
    <3>1. UNCHANGED <<task, registry, tls>>
        BY <2>3, Zenon DEF worker_vars, tls_vars
    <3> QED
        BY <2>0, <2>2, <3>1, LifeFrame, Zenon DEF LifeTypes
  <2>4. CASE start_tls(<<TlsListener, starts>>)
    <3> DEFINE w == <<TlsListener, starts>>
    <3>1. w \in Tasks /\ w[1] = TlsListener
        BY DistinctNames, Zenon DEF Tasks, LifeTypes
    <3>2. spawn(w) /\ tls' = w /\ tls = None
        BY <2>4, Zenon DEF start_tls
    <3> HIDE DEF w
    <3>3. task' = [task EXCEPT ![w] = "running"] /\ registry' = [registry EXCEPT ![w[1]] = "Running"]
        BY <3>2, Zenon DEF spawn, mark_running
    <3>4. LifeTypes'
      <4>1. task' \in [Tasks -> Plain \cup {"orphan", "dropped"}]
          BY <3>1, <3>3, OneTask, Zenon DEF Plain
      <4>2. registry' \in [Names -> {None, "Running", "Finished"}]
          BY <3>3, Zenon DEF LifeTypes
      <4> QED
          BY <2>0, <2>1, <3>1, <3>2, <4>1, <4>2, Zenon DEF LifeTypes
    <3>5. Active' = Active /\ Active = {} /\ CaptureWorkers' = CaptureWorkers
        BY <2>1, <2>2, Zenon DEF Active, CaptureWorkers, Capture, Core, CoreWorkers
    <3>6. Held'
        BY <2>1, <3>5, Zenon DEF Held
    <3>7. \A v \in Tasks : v[1] \in BackendNames => v # w
        BY <3>1, DistinctNames, Zenon
    <3>8. \A v \in Tasks : v # tls
        BY <3>2, RuntimeAssumption, Zenon
    <3> QED
        BY <2>1, <2>2, <3>1, <3>2, <3>4, <3>5, <3>6, <3>7, <3>8, SpawnFrame, ZenonT(40)
  <2> QED
      BY <1>1, <2>3, <2>4, Zenon DEF StartTls
<1>2. CASE TlsStopped
  <2>0. /\ UNCHANGED <<worker_vars, backend_vars, starts>> /\ Joined(tls) /\ tls' = None
        /\ pc \in {"stop_tls", "restart_tls"} /\ pc' \in {"exit", "start_tls"}
      BY <1>2, Zenon DEF TlsStopped, Goto, Rest
  <2>1. UNCHANGED <<task, registry, phase, kind, start, step, open, link, bridge, handles, draining_handles>>
      BY <2>0, Zenon DEF backend_vars, worker_vars
  <2>2. phase = "down" /\ Phases' /\ pc \notin Over /\ pc' \notin Over
      BY <2>0, <2>1, Zenon DEF Phases, StartPhases, StopPhases, Over
  <2>3. Active' = Active /\ CaptureWorkers' = CaptureWorkers /\ Cleanup' = Cleanup
      BY <2>1, Zenon DEF Active, CaptureWorkers, Capture, Core, CoreWorkers, Cleanup
  <2>4. LifeTypes'
      BY <2>0, <2>1, Zenon DEF LifeTypes
  <2>5. Held'
      BY <2>1, <2>3, Zenon DEF Held
  <2>6. \A w \in Tasks : w[1] = TlsListener => task[w] \in Still
    <3>1. \A w \in Tasks : w[1] = TlsListener => task[w] \in Plain
        BY <2>2, DistinctNames, Zenon DEF Running
    <3> QED
        BY <2>0, <2>2, <3>1, Zenon DEF Running, Joined, Plain, Still
  <2>7. Running'
      BY <2>0, <2>1, <2>2, <2>3, <2>6, Zenon DEF Running
  <2>8. Registered'
      BY <2>1, <2>2, Zenon DEF Registered
  <2> QED
      BY <2>2, <2>4, <2>5, <2>7, <2>8, Zenon
<1>3. CASE StopListening /\ UNCHANGED <<control, backend_vars>>
  <2>1. tls # None /\ Return(tls) /\ UNCHANGED <<backend_vars, tls, control>>
      BY <1>3, Zenon DEF StopListening, Listening
  <2>2. tls \in Tasks
      BY <2>1, Zenon DEF LifeTypes
  <2> QED
      BY <2>1, <2>2, ReturnFrame, Zenon
<1> QED
    BY <1>1, <1>2, <1>3, Zenon

-----------------------------------------------------------------------------
(* The steps of the intercept backend.                                      *)

\* The backend is chosen.
LEMMA ChooseSteps ==
  ASSUME LifeInv, StartIntercept PROVE LifeInv'
<1> USE DEF LifeInv
<1>0. UNCHANGED <<worker_vars, tls_vars, starts>> /\ pc = "start_intercept" /\ pc' \in {"starting", "exit"}
    BY Zenon DEF StartIntercept, Goto, Rest
<1>1. UNCHANGED <<task, registry, tls>>
    BY <1>0, Zenon DEF worker_vars, tls_vars
<1>2. phase = "down" /\ pc \notin Over /\ pc' \notin Over
    BY <1>0, Zenon DEF Phases, StartPhases, StopPhases, Over
<1>3. CASE pc' = "exit"
  <2>1. UNCHANGED backend_vars
      BY <1>3, Zenon DEF StartIntercept, Goto
  <2>2. UNCHANGED <<phase, kind, step>>
      BY <2>1, Zenon DEF backend_vars
  <2>3. Phases'
      BY <1>2, <1>3, <2>2, Zenon DEF Phases, StartPhases, StopPhases
  <2> QED
      BY <1>0, <1>1, <1>2, <2>1, <2>3, LifeFrame, ZenonT(40) DEF LifeTypes
<1>4. CASE pc' = "starting"
  <2>1. /\ kind' \in {"windivert", "tun"} /\ start' = starts /\ step' = 0
        /\ phase' = (IF kind' = "windivert" THEN "captures" ELSE "device")
        /\ UNCHANGED <<open, link, bridge, handles, draining_handles>>
      BY <1>4, Zenon DEF StartIntercept, StartOf, Goto, tun_vars, backend_vars
  <2>2. Phases'
      BY <1>4, <2>1, Zenon DEF Phases, StartPhases, StopPhases
  <2>3. LifeTypes'
      BY <1>0, <1>1, <2>1, Zenon DEF LifeTypes
  <2>4. Held'
      BY <1>2, <2>1, Zenon DEF Held
  <2>5. Active = {}
      BY <1>2, Zenon DEF Active
  <2> QED
      BY <1>0, <1>1, <1>2, <2>1, <2>2, <2>3, <2>4, <2>5, BackendFrame
<1> QED
    BY <1>0, <1>3, <1>4, Zenon

\* WinDivert: what starts a worker.
LEMMA CaptureStarts ==
  ASSUME LifeInv, UNCHANGED <<tls_vars, control>>, StartNatCleanup \/ StartCapture PROVE LifeInv'
<1> USE DEF LifeInv
<1>0. UNCHANGED <<tls, pc, starts>>
    BY Zenon DEF tls_vars, control
<1>1. /\ phase = "captures" /\ UNCHANGED <<kind, start, link, bridge, handles, draining_handles>>
      /\ phase' \in {"captures", "up"}
    BY Zenon DEF StartNatCleanup, StartCapture, Advance, tun_vars
<1>2. kind = "windivert" /\ pc = "starting" /\ Phases' /\ pc \notin Over
    BY <1>0, <1>1, Zenon DEF Phases, StartPhases, StopPhases, Over
<1>3. Active = CaptureWorkers /\ Active' = CaptureWorkers' /\ CaptureWorkers' = CaptureWorkers
      /\ Cleanup' = Cleanup
    BY <1>1, <1>2, Zenon DEF Active, CaptureWorkers, Capture, Cleanup
<1>4. PICK w \in Tasks :
        /\ spawn(w) /\ step' \in Nat
        /\ (w = Cleanup /\ open' = open) \/ (w \in CaptureWorkers /\ open' = open \cup {w} /\ step > 0)
  <2>1. CASE StartNatCleanup
    <3>1. spawn(Cleanup) /\ step' = 1 /\ open' = open
        BY <2>1, Zenon DEF StartNatCleanup, Advance
    <3> QED
        BY <3>1, OfStart, Zenon
  <2>2. CASE StartCapture
    <3>1. step \in DOMAIN Captures /\ spawn(Capture(step)) /\ step' = step + 1
          /\ open' = open \cup {Capture(step)}
        BY <2>2, Zenon DEF StartCapture, Advance
    <3>2. step \in Nat /\ step > 0 /\ step' \in Nat
        BY <3>1, RuntimeAssumption DEF LifeTypes
    <3> QED
        BY <3>1, <3>2, OfStart, Zenon
  <2> QED
      BY <2>1, <2>2, Zenon
<1>5. w[1] \in BackendNames \cup {NatCleanup} /\ w[1] # TlsListener /\ (w = Cleanup => w[1] = NatCleanup)
      /\ (w # Cleanup => w \in CaptureWorkers)
  <2>1. \A v \in CaptureWorkers : v[1] \in BackendNames
      BY OfStart, Zenon DEF CaptureWorkers
  <2> QED
      BY <1>4, <2>1, OfStart, DistinctNames, Zenon
<1>6. task' = [task EXCEPT ![w] = "running"] /\ registry' = [registry EXCEPT ![w[1]] = "Running"]
    BY <1>4, Zenon DEF spawn, mark_running
<1>7. LifeTypes'
  <2>1. task' \in [Tasks -> Plain \cup {"orphan", "dropped"}]
      BY <1>6, OneTask, Zenon DEF Plain
  <2>2. registry' \in [Names -> {None, "Running", "Finished"}]
      BY <1>6, Zenon DEF LifeTypes
  <2> QED
      BY <1>0, <1>1, <1>4, <2>1, <2>2, Zenon DEF LifeTypes
<1>8. Held'
    BY <1>1, <1>2, <1>3, <1>4, Zenon DEF Held
<1>9. \A v \in Tasks : v[1] \in BackendNames /\ v \notin Active' => v \notin Active /\ v # w
    BY <1>3, <1>5, DistinctNames, Zenon
<1>10. task'[Cleanup] = "running"
  <2>1. Cleanup \in Tasks /\ Cleanup[1] = NatCleanup
      BY OfStart, Zenon
  <2>2. w # Cleanup => step > 0
      BY <1>4, Zenon
  <2>3. w # Cleanup => task[Cleanup] = "running"
      BY <1>1, <1>2, <2>2, Zenon DEF Running
  <2> QED
      BY <1>6, <2>1, <2>3, Zenon DEF LifeTypes
<1> QED
    BY <1>0, <1>2, <1>3, <1>4, <1>5, <1>7, <1>8, <1>9, <1>10, SpawnFrame, ZenonT(40)

\* WinDivert: the other steps of a start or a shutdown.
LEMMA CaptureSteps ==
  ASSUME LifeInv, UNCHANGED <<tls_vars, control>>, OpenFails \/ StopCaptures \/ JoinCapture,
         StopCaptures => pc \in {"quit", "reload"}
  PROVE  LifeInv'
<1> USE DEF LifeInv
<1>0. UNCHANGED <<task, registry, tls, pc, starts, kind, start, link, bridge, handles, draining_handles>>
    BY Zenon DEF tls_vars, control, OpenFails, StopCaptures, JoinCapture, worker_vars, tun_vars
<1>1. kind = "windivert" /\ pc \notin Over /\ CaptureWorkers' = CaptureWorkers /\ Cleanup' = Cleanup
    BY <1>0, ZenonT(40) DEF OpenFails, StopCaptures, JoinCapture, Phases, StartPhases, StopPhases, Over,
                CaptureWorkers, Capture, Cleanup
<1>2. CASE OpenFails
  <2>1. phase = "captures" /\ phase' = "failed" /\ UNCHANGED <<step, open>>
      BY <1>2, Zenon DEF OpenFails
  <2>2. LifeTypes' /\ Held'
      BY <1>0, <1>1, <2>1, Zenon DEF LifeTypes, Held
  <2>3. Phases'
      BY <1>0, <2>1, Zenon DEF Phases, StartPhases, StopPhases
  <2>4. Active' = Active
      BY <1>0, <1>1, <2>1, Zenon DEF Active
  <2> QED
      BY <1>0, <1>1, <2>1, <2>2, <2>3, <2>4, BackendFrame, Zenon
<1>3. CASE StopCaptures
  <2>1. phase = "up" /\ phase' = "join_captures" /\ step' = 1 /\ open' = open \ CaptureWorkers
      BY <1>3, Zenon DEF StopCaptures, CloseHandles, Advance
  <2>2. LifeTypes' /\ Held'
      BY <1>0, <1>1, <2>1, Zenon DEF LifeTypes, Held
  <2>3. Phases'
      BY <1>0, <1>1, <1>3, <2>1, Zenon DEF Phases, StartPhases, StopPhases
  <2>4. Active' = Active
    <3>1. {j \in DOMAIN Captures : step' <= j} = DOMAIN Captures
        BY <2>1, Lists
    <3> QED
        BY <1>0, <1>1, <2>1, <3>1, Zenon DEF Active, CaptureWorkers, Capture
  <2>5. task[Cleanup] = "running"
      BY <1>1, <2>1, Zenon DEF Running
  <2> QED
      BY <1>0, <1>1, <2>1, <2>2, <2>3, <2>4, <2>5, BackendFrame, Zenon
<1>4. CASE JoinCapture
  <2>1. /\ phase = "join_captures" /\ phase' = phase /\ step' = step + 1 /\ open' = open
        /\ step \in DOMAIN Captures /\ Joined(Capture(step))
      BY <1>4, Zenon DEF JoinCapture
  <2>2. step \in Nat /\ step' \in Nat
      BY <2>1 DEF LifeTypes
  <2>3. LifeTypes' /\ Held'
      BY <1>0, <1>1, <2>1, <2>2, Zenon DEF LifeTypes, Held
  <2>4. Phases'
      BY <1>0, <2>1, Zenon DEF Phases, StartPhases, StopPhases
  <2>5. \A w : w \in Active /\ w \notin Active' => w = Capture(step)
    <3>1. \A j \in DOMAIN Captures : step <= j /\ ~(step' <= j) => j = step
        BY <2>1, <2>2, Lists
    <3>2. Active = {Capture(i) : i \in {j \in DOMAIN Captures : step <= j}}
        BY <1>1, <2>1, Zenon DEF Active
    <3>3. Active' = {Capture(i) : i \in {j \in DOMAIN Captures : step' <= j}}
        BY <1>0, <1>1, <2>1, Zenon DEF Active, Capture
    <3> QED
        BY <3>1, <3>2, <3>3, Zenon
  <2>6. task[Cleanup] = "running"
      BY <1>1, <2>1, Zenon DEF Running
  <2> QED
      BY <1>0, <1>1, <2>1, <2>3, <2>4, <2>5, <2>6, BackendFrame, Zenon
<1> QED
    BY <1>2, <1>3, <1>4, Zenon

\* WinDivert: the cleanup worker's wrapper is aborted.
LEMMA AbortSteps ==
  ASSUME LifeInv, UNCHANGED <<tls_vars, control>>, AbortNatCleanup
  PROVE  LifeInv'
<1> USE DEF LifeInv
<1>0. /\ UNCHANGED <<registry, tls, pc, starts, kind, start, step, open, link, bridge, handles, draining_handles>>
      /\ phase = "join_captures" /\ phase' = "down" /\ step > Len(Captures)
    BY Zenon DEF tls_vars, control, AbortNatCleanup, abort, tun_vars
<1>1. kind = "windivert" /\ pc \in {"quit", "reload"} /\ pc \notin Over
    BY <1>0, Zenon DEF Phases, StartPhases, StopPhases, Over
<1>2. task[Cleanup] = "running" /\ Cleanup \in Tasks /\ Cleanup[1] = NatCleanup
    BY <1>0, <1>1, OfStart, Zenon DEF Running
<1>3. PICK s \in {"orphan", "dropped"} : task' = [task EXCEPT ![Cleanup] = s]
    BY <1>2, Zenon DEF AbortNatCleanup, abort
<1>4. /\ task' \in [Tasks -> Plain \cup {"orphan", "dropped"}]
      /\ task'[Cleanup] = s /\ \A v \in Tasks \ {Cleanup} : task'[v] = task[v]
    BY <1>2, <1>3, OneTask, Zenon
<1>5. LifeTypes' /\ Held'
    BY <1>0, <1>1, <1>4, Zenon DEF LifeTypes, Held
<1>6. Phases'
    BY <1>0, <1>1, Zenon DEF Phases, StartPhases, StopPhases
<1>7. Active = {} /\ Active' = {}
  <2>1. {j \in DOMAIN Captures : step <= j} = {}
      BY <1>0, RuntimeAssumption, SMTT(30) DEF LifeTypes
  <2> QED
      BY <1>0, <1>1, <2>1, Zenon DEF Active
<1>8. Running'
    BY <1>0, <1>1, <1>2, <1>4, <1>7, DistinctNames, Zenon DEF Running
<1>9. \A v \in Tasks : task'[v] \in Live <=> task[v] \in Live
    BY <1>2, <1>4, Zenon DEF Live
<1>10. Registered'
    BY <1>0, <1>1, <1>9, Zenon DEF Registered
<1> QED
    BY <1>5, <1>6, <1>8, <1>10, Zenon

\* TUN: a core task is started.
LEMMA CoreStarts ==
  ASSUME LifeInv, UNCHANGED <<tls_vars, control>>, StartCore PROVE LifeInv'
<1> USE DEF LifeInv
<1>0. /\ UNCHANGED <<tls, pc, starts, kind, start, open, link, bridge, handles, draining_handles>>
      /\ phase = "core" /\ spawn(Core(step)) /\ step' = step + 1
      /\ phase' = (IF step = Len(CoreTasks) THEN "up" ELSE "core")
    BY Zenon DEF tls_vars, control, StartCore, Advance, tun_vars
<1>1. kind = "tun" /\ pc = "starting" /\ pc \notin Over /\ step \in DOMAIN CoreTasks
    BY <1>0, Zenon DEF Phases, StartPhases, StopPhases, Over
<1>2. step \in Nat /\ step' \in Nat /\ (phase' = "core" => step' \in DOMAIN CoreTasks)
  <2>1. phase' = "core" => step # Len(CoreTasks)
      BY <1>0, Zenon
  <2>2. step \in Nat /\ step' = step + 1
      BY <1>0, Zenon DEF LifeTypes
  <2> QED
      BY <1>1, <2>1, <2>2, Lists
<1>3. Phases'
    BY <1>0, <1>1, <1>2, Zenon DEF Phases, StartPhases, StopPhases
<1> DEFINE w == Core(step)
<1>4. w \in Tasks /\ w[1] \in BackendNames /\ w[1] # TlsListener /\ w \in CoreWorkers
    BY <1>1, OfStart, DistinctNames, Zenon
<1>5. Active = CoreWorkers /\ Active' = CoreWorkers
    BY <1>0, <1>1, Zenon DEF Active, CoreWorkers, Core
<1>6. task' = [task EXCEPT ![w] = "running"] /\ registry' = [registry EXCEPT ![w[1]] = "Running"]
    BY <1>0, Zenon DEF spawn, mark_running
<1> HIDE DEF w
<1>7. LifeTypes'
  <2>1. task' \in [Tasks -> Plain \cup {"orphan", "dropped"}]
      BY <1>4, <1>6, OneTask, Zenon DEF Plain
  <2>2. registry' \in [Names -> {None, "Running", "Finished"}]
      BY <1>6, Zenon DEF LifeTypes
  <2> QED
      BY <1>0, <1>2, <2>1, <2>2, Zenon DEF LifeTypes
<1>8. Held'
    BY <1>0, <1>1, Zenon DEF Held
<1>9. spawn(w)
    BY <1>0, Zenon DEF w
<1> QED
    BY <1>0, <1>1, <1>3, <1>4, <1>5, <1>7, <1>8, <1>9, SpawnFrame, ZenonT(40)

\* TUN: the start up to the core tasks.
LEMMA DeviceSteps ==
  ASSUME LifeInv, UNCHANGED <<tls_vars, control>>, OpenDevice \/ ConfigureDns \/ BuildStack
  PROVE  LifeInv'
<1> USE DEF LifeInv
<1>0. /\ UNCHANGED <<task, registry, tls, pc, starts, kind, start, open, bridge, handles, draining_handles>>
      /\ phase \in {"device", "dns", "stack"}
      /\ (phase' = "failed" /\ link' = None) \/ phase' \in {"dns", "stack"} \/ (phase' = "core" /\ step' = 1)
      /\ step' \in {step, 0, 1}
    BY Zenon DEF tls_vars, control, OpenDevice, ConfigureDns, BuildStack, Advance, worker_vars
<1>1. kind = "tun" /\ pc = "starting" /\ pc \notin Over /\ step' \in Nat
    BY <1>0 DEF Phases, StartPhases, StopPhases, Over, LifeTypes
<1>2. Phases'
    BY <1>0, <1>1, Lists, Zenon DEF Phases, StartPhases, StopPhases
<1>3. LifeTypes' /\ Held'
    BY <1>0, <1>1, Zenon DEF LifeTypes, Held
<1>4. Active = {}
    BY <1>0, <1>1, Zenon DEF Active
<1> QED
    BY <1>0, <1>1, <1>2, <1>3, <1>4, BackendFrame, Zenon

\* TUN: the shutdown of the core tasks.
LEMMA CoreSteps ==
  ASSUME LifeInv, UNCHANGED <<tls_vars, control>>, StopCore \/ JoinCore \/ TakeBridges,
         StopCore => pc \in {"quit", "reload"}
  PROVE  LifeInv'
<1> USE DEF LifeInv
<1>0. UNCHANGED <<task, registry, tls, pc, starts, kind, start, open, link, bridge>>
    BY Zenon DEF tls_vars, control, StopCore, JoinCore, TakeBridges, Tell, worker_vars, tun_vars
<1>1. kind = "tun" /\ pc \in {"quit", "reload"} /\ pc \notin Over
    BY <1>0, Zenon DEF StopCore, JoinCore, TakeBridges, Phases, StartPhases, StopPhases, Over
<1>2. CASE StopCore
  <2>1. phase = "up" /\ phase' = "join_core" /\ step' = 1 /\ UNCHANGED <<handles, draining_handles>>
      BY <1>2, Zenon DEF StopCore, Advance, tun_vars
  <2>2. LifeTypes' /\ Held'
      BY <1>0, <1>1, <2>1, Zenon DEF LifeTypes, Held
  <2>3. Phases'
      BY <1>0, <1>1, <2>1, Zenon DEF Phases, StartPhases, StopPhases
  <2>4. Active' = Active
    <3>1. {j \in DOMAIN CoreTasks : step' <= j} = DOMAIN CoreTasks
        BY <2>1, Lists
    <3> QED
        BY <1>0, <1>1, <2>1, <3>1, Zenon DEF Active, CoreWorkers, Core
  <2> QED
      BY <1>0, <1>1, <2>1, <2>2, <2>3, <2>4, BackendFrame, Zenon
<1>3. CASE JoinCore
  <2>1. /\ phase = "join_core" /\ phase' = phase /\ step' = step + 1 /\ step < Len(CoreTasks)
        /\ Joined(Core(step)) /\ UNCHANGED <<handles, draining_handles>>
      BY <1>3, Zenon DEF JoinCore, tun_vars
  <2>2. step \in Nat /\ step' \in Nat
      BY <2>1 DEF LifeTypes
  <2>3. LifeTypes' /\ Held'
      BY <1>0, <1>1, <2>1, <2>2, Zenon DEF LifeTypes, Held
  <2>4. Phases'
      BY <1>0, <2>1, Zenon DEF Phases, StartPhases, StopPhases
  <2>5. \A w : w \in Active /\ w \notin Active' => w = Core(step)
    <3>1. \A j \in DOMAIN CoreTasks : step <= j /\ ~(step' <= j) => j = step
        BY <2>1, <2>2, Lists
    <3>2. Active = {Core(i) : i \in {j \in DOMAIN CoreTasks : step <= j}}
        BY <1>1, <2>1, Zenon DEF Active
    <3>3. Active' = {Core(i) : i \in {j \in DOMAIN CoreTasks : step' <= j}}
        BY <1>0, <1>1, <2>1, Zenon DEF Active, Core
    <3> QED
        BY <3>1, <3>2, <3>3, Zenon
  <2> QED
      BY <1>0, <1>1, <2>1, <2>3, <2>4, <2>5, BackendFrame, Zenon
<1>4. CASE TakeBridges
  <2>1. /\ phase = "join_core" /\ phase' = "drain_bridges" /\ step' = step /\ step = Len(CoreTasks)
        /\ Joined(Core(step)) /\ handles' = {} /\ draining_handles' = handles
      BY <1>4, Zenon DEF TakeBridges
  <2>2. LifeTypes'
      BY <1>0, <2>1, Zenon DEF LifeTypes
  <2>3. Held'
      BY <1>0, <1>1, <2>1, Zenon DEF Held
  <2>4. Phases'
      BY <1>0, <1>1, <2>1, Zenon DEF Phases, StartPhases, StopPhases
  <2>5. \A w \in Active : w = Core(step)
    <3>1. \A j \in DOMAIN CoreTasks : step <= j => j = step
        BY <2>1, Lists
    <3>2. Active = {Core(i) : i \in {j \in DOMAIN CoreTasks : step <= j}}
        BY <1>1, <2>1, Zenon DEF Active
    <3> QED
        BY <3>1, <3>2, Zenon
  <2> QED
      BY <1>0, <1>1, <2>1, <2>2, <2>3, <2>4, <2>5, BackendFrame, Zenon
<1> QED
    BY <1>2, <1>3, <1>4, Zenon

\* TUN: the drain of the bridges and the end of the shutdown.
LEMMA DrainSteps ==
  ASSUME LifeInv, UNCHANGED <<tls_vars, control>>,
         DeadlinePasses \/ AwaitBridge \/ AbortBridge \/ RestoreDns
  PROVE  LifeInv'
<1> USE DEF LifeInv
<1>0. /\ UNCHANGED <<task, registry, tls, pc, starts, kind, start, step, open, handles>>
      /\ phase = "drain_bridges"
    BY Zenon DEF tls_vars, control, DeadlinePasses, AwaitBridge, AbortBridge, RestoreDns, worker_vars
<1>1. kind = "tun" /\ pc \in {"quit", "reload"} /\ pc \notin Over /\ handles = {}
    BY <1>0, Zenon DEF Phases, StartPhases, StopPhases, Over, Held
<1>2. \/ phase' = phase /\ link' = link
      \/ phase' = "down" /\ link' = None /\ draining_handles = {} /\ draining_handles' = {} /\ bridge' = bridge
    BY Zenon DEF DeadlinePasses, AwaitBridge, AbortBridge, RestoreDns
<1>3. Phases'
    BY <1>0, <1>1, <1>2, Zenon DEF Phases, StartPhases, StopPhases
<1>4. /\ bridge' \in [Streams -> {"none", "relaying", "over"}] /\ draining_handles' \subseteq Streams
      /\ \A c \in Streams : bridge'[c] = "relaying" => c \in draining_handles'
  <2>1. CASE DeadlinePasses \/ RestoreDns
      BY <1>1, <2>1, Zenon DEF DeadlinePasses, RestoreDns, LifeTypes, Held
  <2>2. CASE AwaitBridge
      BY <1>1, <2>2, Zenon DEF AwaitBridge, LifeTypes, Held
  <2>3. CASE AbortBridge
    <3>1. PICK c \in draining_handles : /\ bridge' = [bridge EXCEPT ![c] = "over"]
                                        /\ draining_handles' = draining_handles \ {c}
        BY <2>3, Zenon DEF AbortBridge
    <3> QED
        BY <1>1, <3>1, Zenon DEF LifeTypes, Held
  <2> QED
      BY <2>1, <2>2, <2>3, Zenon
<1>5. LifeTypes'
    BY <1>0, <1>4, Zenon DEF LifeTypes
<1>6. Held'
    BY <1>0, <1>1, <1>2, <1>4, Zenon DEF Held
<1>7. Active = {}
    BY <1>0, <1>1, Zenon DEF Active
<1> QED
    BY <1>0, <1>1, <1>2, <1>3, <1>5, <1>6, <1>7, BackendFrame, Zenon

\* Bridges start and end.
LEMMA BridgeSteps ==
  ASSUME LifeInv, NEW c \in Clients, Tunnel(c)
  PROVE  LifeInv'
<1> USE DEF LifeInv
<1>0. /\ UNCHANGED <<task, registry, tls, pc, starts, phase, kind, start, step, open, link, draining_handles>>
      /\ c \in Streams
    BY RuntimeAssumption, Zenon DEF Tunnel, AcceptBridge, BridgeEnds, worker_vars, tls_vars, control
<1>1. Active' = Active /\ Cleanup' = Cleanup /\ CaptureWorkers' = CaptureWorkers
    BY <1>0, Zenon DEF Active, Cleanup, Capture, Core, CaptureWorkers, CoreWorkers
<1>2. Phases'
    BY <1>0, Zenon DEF Phases
<1>3. Running' /\ Registered'
    BY <1>0, <1>1, Zenon DEF Running, Registered
<1>4. CASE BridgeEnds(c)
  <2>1. bridge' = [bridge EXCEPT ![c] = "over"] /\ handles' = handles
      BY <1>4, Zenon DEF BridgeEnds
  <2>2. LifeTypes'
      BY <1>0, <2>1, Zenon DEF LifeTypes
  <2>3. Held'
      BY <1>0, <1>1, <2>1, Zenon DEF Held, LifeTypes
  <2> QED
      BY <1>2, <1>3, <2>2, <2>3, Zenon
<1>5. CASE AcceptBridge(c)
  <2> DEFINE w == <<TcpLoop, start>>
  <2>1. /\ kind = "tun" /\ task[w] = "running" /\ bridge' = [bridge EXCEPT ![c] = "relaying"]
        /\ handles' = {d \in handles : bridge[d] # "over"} \cup {c}
      BY <1>5, Zenon DEF AcceptBridge, Unfinished
  <2>2. w \in Tasks /\ w[1] \in BackendNames
      BY RuntimeAssumption, DistinctNames, Zenon DEF Tasks, LifeTypes, BackendNames
  <2> HIDE DEF w
  <2>3. pc \notin Over
      BY <2>1, <2>2, Zenon DEF Running
  <2>4. w \in Active
      BY <2>1, <2>2, <2>3, Zenon DEF Running, Still
  <2>5. phase \in {"core", "up", "join_core"}
      BY <2>1, <2>4, Zenon DEF Active
  <2>6. LifeTypes'
      BY <1>0, <2>1, Zenon DEF LifeTypes
  <2>7. \A d \in Streams : bridge'[d] = "relaying" => d \in handles' \cup draining_handles'
      BY <1>0, <2>1, Zenon DEF Held, LifeTypes
  <2>8. Held'
      BY <1>0, <1>1, <2>1, <2>5, <2>7, Zenon DEF Held
  <2> QED
      BY <1>2, <1>3, <2>6, <2>8, Zenon
<1> QED
    BY <1>4, <1>5, Zenon DEF Tunnel

\* Workers of the backend return, and wrappers report it.
LEMMA WorkerSteps ==
  ASSUME LifeInv, NEW w \in Tasks, Worker(w) \/ WorkerFails(w)
  PROVE  LifeInv'
<1>1. UNCHANGED <<backend_vars, tls, control>>
    BY Zenon DEF Worker, WorkerFails, CaptureStops, CoreStops, CaptureFails, CoreFails, tls_vars
<1>2. log_worker_completion(w) \/ (Return(w) /\ w[1] \in BackendNames)
    BY Zenon DEF Worker, WorkerFails, CaptureStops, CoreStops, CaptureFails, CoreFails, BackendNames
<1> QED
    BY <1>1, <1>2, ReturnFrame, CompletionFrame, Zenon

\* The tokio runtime is dropped.
LEMMA DropSteps ==
  ASSUME LifeInv, DropRuntime
  PROVE  LifeInv'
<1> USE DEF LifeInv
<1>0. /\ UNCHANGED <<registry, starts, phase, kind, start, step, open, handles, draining_handles>>
      /\ tls' = None /\ link' = None /\ pc = "exit" /\ pc' = "exiting"
      /\ bridge' = [c \in Streams |-> IF bridge[c] = "none" THEN "none" ELSE "over"]
    BY Zenon DEF DropRuntime, Goto, Rest
<1>1. pc \notin Over /\ pc' \in Over
    BY <1>0, Zenon DEF Over
<1>2. phase \in {"failed", "down"} /\ Phases'
    BY <1>0, Zenon DEF Phases, StartPhases, StopPhases, Over
<1>3. \A w \in Tasks : task'[w] = CASE task[w] = "running" /\ Blocking(w) -> "orphan"
                                    [] task[w] \in {"none", "done"} -> task[w]
                                    [] OTHER -> "dropped"
    BY Zenon DEF DropRuntime
<1>4. \A w \in Tasks : /\ task'[w] \in {"none", "done", "orphan", "dropped"}
                       /\ task'[w] = "orphan" => task[w] = "running"
    BY <1>3, Zenon
<1>5. task' \in [Tasks -> Plain \cup {"orphan", "dropped"}]
  <2>1. task' = [w \in Tasks |-> task'[w]]
      BY Zenon DEF DropRuntime
  <2> QED
      BY <1>4, <2>1, Zenon DEF Plain
<1>6. LifeTypes'
    BY <1>0, <1>5, Zenon DEF LifeTypes
<1>7. Held'
  <2>1. CaptureWorkers' = CaptureWorkers
      BY <1>0, Zenon DEF CaptureWorkers, Capture
  <2> QED
      BY <1>0, <2>1, Zenon DEF Held
<1>8. Running'
  <2>1. phase = "down" \/ kind = "tun" => Active = {}
      BY <1>2, Zenon DEF Active
  <2>2. \A w \in Tasks : w[1] \in BackendNames /\ (phase = "down" \/ kind = "tun") => task[w] # "running"
      BY <1>1, <2>1, Zenon DEF Running, Still
  <2> QED
      BY <1>0, <1>1, <1>4, <2>2, Zenon DEF Running, Still
<1>9. Registered'
    BY <1>1, Zenon DEF Registered
<1> QED
    BY <1>2, <1>6, <1>7, <1>8, <1>9, Zenon

\* A new process has started nothing yet.
LEMMA RestartSteps ==
  ASSUME LifeInv, Restart
  PROVE  LifeInv'
<1>1. task' \in [Tasks -> Plain \cup {"orphan", "dropped"}] /\ \A w \in Tasks : task'[w] = "none"
    BY Zenon DEF Restart, NoTasks, Plain
<1>2. registry' \in [Names -> {None, "Running", "Finished"}] /\ \A n \in Names : registry'[n] # "Running"
    BY RuntimeAssumption, Zenon DEF Restart, NoEntries
<1>3. /\ pc' = "load_ca" /\ phase' = "down" /\ kind' = "tun" /\ start' = 1 /\ step' = 0
      /\ open' = {} /\ link' = None /\ bridge' = [c \in Streams |-> "none"] /\ tls' = None
      /\ handles' = {} /\ draining_handles' = {}
    BY Zenon DEF Restart
<1>4. starts' \in 1..MaxStarts /\ 1 \in 1..MaxStarts
  <2>1. starts \in 1..MaxStarts /\ starts < MaxStarts /\ starts' = starts + 1 /\ MaxStarts \in Nat \ {0}
      BY RuntimeAssumption, Zenon DEF Restart, LifeInv, LifeTypes
  <2> QED
      BY <2>1
<1>5. LifeTypes'
    BY <1>1, <1>2, <1>3, <1>4, Zenon DEF LifeTypes
<1>6. Phases' /\ Held'
    BY <1>3, Zenon DEF Phases, Held, StartPhases, StopPhases
<1>7. Running' /\ Registered'
    BY <1>1, <1>2, <1>3, Zenon DEF Running, Registered, Plain, Still, Live, Over
<1> QED
    BY <1>5, <1>6, <1>7, Zenon DEF LifeInv

\* Every step keeps the invariant.
LEMMA LifeNext == LifeInv /\ [Next]_vars => LifeInv'
<1> SUFFICES ASSUME LifeInv, [Next]_vars PROVE LifeInv'
    BY Zenon
<1>1. CASE BackendStep
  <2>1. OpenFails \/ JoinCapture => ~StopCaptures
      BY Zenon DEF OpenFails, JoinCapture, StopCaptures
  <2>2. JoinCore \/ TakeBridges => ~StopCore
      BY Zenon DEF JoinCore, TakeBridges, StopCore
  <2> QED
      BY Zenon, <1>1, <2>1, <2>2, CaptureStarts, CaptureSteps, AbortSteps, CoreStarts, DeviceSteps,
         CoreSteps, DrainSteps DEF BackendStep
<1>2. CASE StopIntercept
    BY <1>2, CaptureSteps, CoreSteps, Zenon DEF StopIntercept
<1>3. CASE ServeListener
    BY <1>3, QuietSteps, ListenerSteps, Zenon DEF ServeListener
<1>4. CASE Main
    BY <1>1, <1>2, <1>4, QuietSteps, ListenerSteps, ChooseSteps, DropSteps, Zenon DEF Main
<1>5. CASE \E w \in Tasks : Worker(w) \/ WorkerFails(w)
    BY <1>5, WorkerSteps, Zenon
<1>6. CASE \E c \in Clients : Arrive(c) \/ Speak(c) \/ Hangup(c) \/ ServeConnection(c)
    BY <1>6, QuietSteps, Zenon
<1>7. CASE \E c \in Clients : Tunnel(c)
    BY <1>7, BridgeSteps, Zenon
<1>8. CASE Quit \/ Reload \/ UNCHANGED vars
    BY <1>8, QuietSteps, Zenon
<1>9. CASE Restart
    BY <1>9, RestartSteps, Zenon
<1> QED
    BY <1>3, <1>4, <1>5, <1>6, <1>7, <1>8, <1>9, Zenon DEF Next, System

-----------------------------------------------------------------------------

\* LifeInv is an invariant of the specification.
THEOREM LifeInvariant == Spec => []LifeInv
BY LifeInit, LifeNext, PTL DEF Spec

\* The registry reports a name as running exactly while a worker of it has not been
\* logged as completed, and only NAT cleanups stay unlogged: for any numbers of
\* captures, core tasks, clients, starts and processes.
THEOREM RegistryTellsWhatRunsAlways == Spec => []RegistryTellsWhatRuns
<1>1. LifeInv => RegistryTellsWhatRuns
  <2> SUFFICES ASSUME LifeInv, pc \notin Over, NEW n \in Names
               PROVE  LET states == {task[<<n, k>>] : k \in 1..MaxStarts}
                      IN /\ registry[n] = "Running" <=>
                              states \cap {"running", "returned", "orphan", "dropped"} # {}
                         /\ n # NatCleanup => states \cap {"orphan", "dropped"} = {}
      BY Zenon DEF RegistryTellsWhatRuns, Over
  <2>1. \A k \in 1..MaxStarts : <<n, k>> \in Tasks /\ <<n, k>>[1] = n
      BY Zenon DEF Tasks
  <2>2. \A w \in Tasks : w[1] = n => \E k \in 1..MaxStarts : w = <<n, k>>
      BY DEF Tasks
  <2>3. registry[n] = "Running" <=> \E k \in 1..MaxStarts : task[<<n, k>>] \in Live
      BY <2>1, <2>2, Zenon DEF LifeInv, Registered
  <2>4. n # NatCleanup => \A k \in 1..MaxStarts : task[<<n, k>>] \in Plain
      BY <2>1, Zenon DEF LifeInv, Running
  <2> QED
      BY <2>3, <2>4, Zenon DEF Live, Plain
<1> QED
    BY <1>1, LifeInvariant, PTL

\* A backend that is down, and a TUN start that failed, leave nothing behind but
\* orphaned NAT cleanups: for any numbers of captures, core tasks, clients, starts
\* and processes.
THEOREM StoppedLeavesNothingAlways == Spec => []StoppedLeavesNothing
<1>1. LifeInv => StoppedLeavesNothing
  <2> SUFFICES ASSUME LifeInv, phase = "down" \/ (phase = "failed" /\ kind = "tun")
               PROVE  /\ open = {} /\ link = None
                      /\ \A c \in Streams : bridge[c] # "relaying"
                      /\ \A w \in Tasks : w[1] \notin {TlsListener, NatCleanup} =>
                                            task[w] \in {"none", "done", "dropped"}
      BY Zenon DEF StoppedLeavesNothing
  <2>1. open = {} /\ link = None /\ handles = {} /\ draining_handles = {}
      BY Zenon DEF LifeInv, Held
  <2>2. \A c \in Streams : bridge[c] # "relaying"
      BY <2>1, Zenon DEF LifeInv, Held
  <2>3. Active = {}
      BY Zenon DEF Active
  <2>4. \A w \in Tasks : w[1] \notin {TlsListener, NatCleanup} => w[1] \in BackendNames
      BY DistinctNames, Zenon DEF Tasks
  <2>5. \A w \in Tasks : w[1] \in BackendNames => task[w] \in Still \cup {"dropped"}
    <3>1. CASE pc \notin Over
        BY <2>3, <3>1, Zenon DEF LifeInv, Running
    <3>2. CASE pc \in Over
        BY <3>2, Zenon DEF LifeInv, Running
    <3> QED
        BY <3>1, <3>2, Zenon
  <2> QED
      BY <2>1, <2>2, <2>4, <2>5, Zenon DEF Still
<1> QED
    BY <1>1, LifeInvariant, PTL

-----------------------------------------------------------------------------
(* The listener and its connections.                                        *)

\* What the backend and the workers do leaves a running listener running: its task
\* is the only one that can end under its name.
LEMMA ListenerKept ==
  ASSUME LifeInv, tls # None, task[tls] = "running",
         BackendStep \/ StopIntercept \/ \E w \in Tasks : Worker(w) \/ WorkerFails(w)
  PROVE  task'[tls] = "running"
<1>0. tls \in Tasks /\ tls[1] = TlsListener /\ task \in [Tasks -> Plain \cup {"orphan", "dropped"}]
    BY Zenon DEF LifeInv, LifeTypes
<1>1. ASSUME NEW w, NEW s, task' = [task EXCEPT ![w] = s], s = "running" \/ w # tls
      PROVE  task'[tls] = "running"
    BY <1>0, <1>1, Zenon
<1>2. ASSUME NEW w, spawn(w) PROVE task'[tls] = "running"
    BY <1>1, <1>2, Zenon DEF spawn
<1>3. ASSUME NEW w, Return(w), w[1] # TlsListener PROVE task'[tls] = "running"
    BY <1>0, <1>1, <1>3, Zenon DEF Return
<1>4. ASSUME UNCHANGED task PROVE task'[tls] = "running"
    BY <1>4, Zenon
<1>5. CASE BackendStep \/ StopIntercept
  <2>1. CASE AbortNatCleanup
    <3>1. PICK s : task' = [task EXCEPT ![Cleanup] = s]
        BY <2>1, Zenon DEF AbortNatCleanup, abort
    <3>2. Cleanup # tls
        BY <1>0, OfStart, DistinctNames, Zenon DEF LifeInv
    <3> QED
        BY <1>1, <3>1, <3>2, Zenon
  <2>2. CASE StartNatCleanup \/ StartCapture \/ StartCore
      BY <1>2, <2>2, Zenon DEF StartNatCleanup, StartCapture, StartCore
  <2>3. CASE StopCaptures \/ StopCore \/ JoinCore
      BY <1>4, <2>3, Zenon DEF StopCaptures, StopCore, JoinCore, Tell, worker_vars
  <2>4. CASE \/ OpenFails \/ JoinCapture \/ OpenDevice \/ ConfigureDns \/ BuildStack
             \/ TakeBridges \/ DeadlinePasses \/ AwaitBridge \/ AbortBridge \/ RestoreDns
      BY <1>4, <2>4, Zenon DEF OpenFails, JoinCapture, OpenDevice, ConfigureDns, BuildStack, TakeBridges,
                       DeadlinePasses, AwaitBridge, AbortBridge, RestoreDns, worker_vars
  <2> QED
      BY <1>5, <2>1, <2>2, <2>3, <2>4, Zenon DEF BackendStep, StopIntercept
<1>6. ASSUME NEW w \in Tasks, Worker(w) \/ WorkerFails(w) PROVE task'[tls] = "running"
  <2>1. CASE log_worker_completion(w)
    <3>1. w # tls /\ task' = [task EXCEPT ![w] = "done"]
        BY <2>1, Zenon DEF log_worker_completion
    <3> QED
        BY <1>1, <3>1, Zenon
  <2>2. CASE Return(w) /\ w[1] \in BackendNames
      BY <1>3, <2>2, DistinctNames, Zenon
  <2> QED
      BY <1>6, <2>1, <2>2, Zenon DEF Worker, WorkerFails, CaptureStops, CoreStops, CaptureFails,
                  CoreFails, BackendNames
<1> QED
    BY <1>5, <1>6, Zenon

\* Every step keeps the listener of its connections.
LEMMA ListenerNext == CaInv /\ LifeInv /\ ConnectionsHaveListener /\ [Next]_vars => ConnectionsHaveListener'
<1> SUFFICES ASSUME CaInv, LifeInv, ConnectionsHaveListener, [Next]_vars PROVE ConnectionsHaveListener'
    BY Zenon
<1> USE DEF ConnectionsHaveListener, Listening
<1>1. CASE BackendStep \/ StopIntercept \/ \E w \in Tasks : Worker(w) \/ WorkerFails(w)
  <2>1. UNCHANGED <<tls, conn>>
      BY <1>1, Zenon DEF BackendStep, StopIntercept, Worker, WorkerFails, tls_vars
  <2> QED
      BY <1>1, <2>1, ListenerKept, Zenon
<1>2. CASE \/ CheckCa \/ WriteCert \/ WriteKey \/ UseGenerated \/ StartIntercept \/ InterceptStarted
           \/ Quit \/ Reload \/ StopTls \/ End \/ UNCHANGED vars \/ \E c \in Clients : Tunnel(c)
  <2>1. UNCHANGED <<tls, conn, task>>
    <3>1. CASE CheckCa \/ WriteCert \/ WriteKey \/ UseGenerated
        BY <3>1, Zenon DEF CheckCa, WriteCert, WriteKey, WriteFile, UseGenerated, LoadCa, BeginWrite, EndWrite,
                    UseCa, worker_vars, tls_vars
    <3>2. CASE \/ StartIntercept \/ InterceptStarted \/ Quit \/ Reload \/ StopTls \/ End
               \/ UNCHANGED vars \/ \E c \in Clients : Tunnel(c)
        BY <3>2, Zenon DEF StartIntercept, InterceptStarted, Quit, Reload, StopTls, Tell, End, Tunnel,
                    AcceptBridge, BridgeEnds, worker_vars, tls_vars, vars
    <3> QED
        BY <1>2, <3>1, <3>2, Zenon
  <2> QED
      BY <2>1, Zenon
<1>3. CASE StartTls
  <2>1. CASE UNCHANGED <<worker_vars, tls_vars>>
      BY <2>1, Zenon DEF worker_vars, tls_vars
  <2>2. CASE start_tls(<<TlsListener, starts>>)
      BY <2>2, Zenon DEF start_tls
  <2> QED
      BY <1>3, <2>1, <2>2, Zenon DEF StartTls
<1>4. CASE TlsStopped
    BY <1>4, Zenon DEF TlsStopped, Joined
<1>5. CASE DropRuntime \/ Restart
  <2>1. \A c \in Clients : conn'[c] \in {NoConn, Closed}
      BY <1>5, Zenon DEF DropRuntime, Restart
  <2> QED
      BY <2>1, FreshConnections, Zenon DEF InTask
<1>6. CASE ServeListener
  <2>1. CASE StopAccepting
      BY <2>1, Zenon DEF StopAccepting, worker_vars
  <2>2. CASE StopListening
    <3>1. \A c \in Clients : /\ conn[c].pc \notin InTask
                             /\ conn'[c] = IF conn[c].pc = "backlog" THEN Closed ELSE conn[c]
        BY <2>2, Zenon DEF StopListening, Drained
    <3> QED
        BY <3>1, FreshConnections, Zenon DEF InTask
  <2> QED
      BY <1>6, <2>1, <2>2, Zenon DEF ServeListener
<1>7. ASSUME NEW c \in Clients, Arrive(c) \/ Speak(c) \/ Hangup(c) \/ ServeConnection(c)
      PROVE  ConnectionsHaveListener'
  <2>1. UNCHANGED <<task, tls>>
      BY <1>7, ZenonT(40) DEF Arrive, Connect, Speak, Leave, ClientHello, Hangup, ServeConnection,
                  Accept, IssueFails, Issue, BeginRequest, CloseIdle, FinishRequest,
                  Close, Set, worker_vars
  <2>2. tls # None /\ task[tls] = "running"
    <3>1. CASE conn[c].pc \in InTask \cup {"backlog"}
        BY <3>1, Zenon
    <3>2. CASE \E path \in {"direct", "nat", "bridge"} : Connect(c, path)
        BY <3>2, Zenon DEF Connect
    <3> QED
        BY <1>7, <3>1, <3>2, ZenonT(40) DEF Arrive, Speak, Leave, ClientHello, Hangup, ServeConnection,
                    Accept, IssueFails, Issue, BeginRequest, CloseIdle, FinishRequest, InTask
  <2> QED
      BY <2>1, <2>2, Zenon
<1> QED
    BY <1>1, <1>2, <1>3, <1>4, <1>5, <1>6, <1>7, ZenonT(40) DEF Next, System, Main

\* No connection outlives the task of its listener, and no listener is given up
\* while it has one, for any clients, workers, starts and processes.
THEOREM ConnectionsHaveListenerAlways == Spec => []ConnectionsHaveListener
<1>1. Init => ConnectionsHaveListener
    BY FreshConnections, Zenon DEF Init, ConnectionsHaveListener, InTask
<1> QED
    BY <1>1, CaInit, CaNext, ListenerNext, LifeInvariant, PTL DEF Spec
=============================================================================
