---------------------------- MODULE TlsIntercept ----------------------------
(***************************************************************************)
(* TLS interception (gateway/transport/tls.rs): the CA pair in its two     *)
(* files, the certificates issued per host and their cache, and the        *)
(* connections of the TLS listener from accept to the end of the drain.    *)
(* The module is open: TransparentRuntime starts and stops the listener,   *)
(* and decides when the bytes of a client get through.                     *)
(***************************************************************************)
EXTENDS WorkerRegistry

CONSTANTS
  Clients,   \* client connections, each used once
  Hellos,    \* what a ClientHello may say: [host, schemes], host None without SNI
  Torn       \* content of a file whose writing was cut short

VARIABLES
  ca_files,  \* [cert, key]: None, Torn, or the number of a generated pair
  service,   \* TlsInterceptState: the pair in memory, None before it is loaded
  cache,     \* [host]: HostCertifiedKeys, None when there are none yet
  tls,       \* the TlsListenerHandle: a worker, or None
  draining,  \* whether the listener's loop has seen its shutdown signal
  conn       \* [client]: [pc, path, hello, key]: how its bytes get here, what it
             \* asked for and the CertifiedKey it is served with

tls_vars == <<ca_files, service, cache, tls, draining, conn>>

Hosts == {h.host : h \in Hellos} \ {None}
Connection(pc, path) == [pc |-> pc, path |-> path, hello |-> None, key |-> None]
NoConn == Connection("none", None)
Closed == Connection("closed", None)
NoCache == [h \in Hosts |-> None]

\* The states of a connection in which its task is in connection_tasks.
InTask == {"handshake", "generate", "serving", "request"}

-----------------------------------------------------------------------------
(* get_or_generate_ca_cert                                                 *)

CaFilesExist == ca_files.cert # None /\ ca_files.key # None

LoadCa ==
  /\ CaFilesExist
  /\ service' = ca_files
  /\ UNCHANGED <<worker_vars, ca_files, cache, tls, draining, conn>>

\* fs::write truncates or creates the file, then fills it.
BeginWrite(file) ==
  /\ ca_files' = [ca_files EXCEPT ![file] = Torn]
  /\ UNCHANGED <<worker_vars, service, cache, tls, draining, conn>>

EndWrite(file, pair) ==
  /\ ca_files' = [ca_files EXCEPT ![file] = pair]
  /\ UNCHANGED <<worker_vars, service, cache, tls, draining, conn>>

\* The generated pair is returned from memory, not read back.
UseCa(pair) ==
  /\ service' = [cert |-> pair, key |-> pair]
  /\ UNCHANGED <<worker_vars, ca_files, cache, tls, draining, conn>>

-----------------------------------------------------------------------------
(* Certificates.  A leaf names its host and the key that signed it; the    *)
(* chain sent along with it ends in the CA certificate.                    *)

build_leaf_certified_key(host, algorithm) ==
  [host |-> host, algorithm |-> algorithm, issuer |-> service.key, chain |-> service.cert]

\* Nothing can be issued when the key file does not hold a key.
KeyParses == service.key # Torn

select_certified_key_algorithm(schemes) ==
  IF "rsa" \notin schemes /\ "ecdsa" \in schemes THEN "ecdsa" ELSE "rsa"

\* certified_key_for_host, and the end of the handshake: a client that can verify
\* neither algorithm is given the RSA certificate, and rustls refuses it.
Served(c, hello, keys) ==
  LET key == keys[select_certified_key_algorithm(hello.schemes)]
  IN IF key.algorithm \in hello.schemes
     THEN [conn[c] EXCEPT !.pc = "serving", !.hello = hello, !.key = key] ELSE Closed

\* Set(c, r): the connection c becomes r and nothing else changes.
Set(c, r) ==
  /\ conn' = [conn EXCEPT ![c] = r]
  /\ UNCHANGED <<worker_vars, ca_files, service, cache, tls, draining>>

Close(c) == Set(c, Closed)

\* DynamicCertResolver::resolve without a server name, or with one in the cache,
\* or up to the miss of host_certified_keys, after which the cache is unlocked.
ClientHello(c, hello) ==
  /\ conn[c].pc = "handshake"
  /\ \/ hello.host = None /\ Close(c)
     \/ /\ hello.host # None
        /\ cache[hello.host] # None
        /\ Set(c, Served(c, hello, cache[hello.host]))
     \/ /\ hello.host # None
        /\ cache[hello.host] = None
        /\ Set(c, [conn[c] EXCEPT !.pc = "generate", !.hello = hello])

\* The rest of host_certified_keys: issue, lock the cache again, insert.
IssueFails(c) ==
  /\ conn[c].pc = "generate"
  /\ ~KeyParses
  /\ Close(c)

Issue(c) ==
  /\ conn[c].pc = "generate"
  /\ KeyParses
  /\ LET host == conn[c].hello.host
         keys == [a \in {"rsa", "ecdsa"} |-> build_leaf_certified_key(host, a)]
     IN /\ conn' = [conn EXCEPT ![c] = Served(c, @.hello, keys)]
        /\ cache' = [cache EXCEPT ![host] = keys]
  /\ UNCHANGED <<worker_vars, ca_files, service, tls, draining>>

-----------------------------------------------------------------------------
(* serve_app_tls_with_listener                                             *)

\* The socket is bound by start_tls and dropped when the loop's task is over.
Listening == tls # None /\ task[tls] = "running"

start_tls(w) ==
  /\ tls = None
  /\ spawn(w)
  /\ tls' = w
  /\ draining' = FALSE
  /\ UNCHANGED <<ca_files, service, cache, conn>>

\* The kernel completes a connection as long as the socket is there.
Connect(c, path) ==
  /\ Listening
  /\ conn[c].pc = "none"
  /\ Set(c, Connection("backlog", path))

\* listener.accept(); select! may prefer it to a shutdown signal that is there.
Accept(c) ==
  /\ Listening /\ ~draining
  /\ conn[c].pc = "backlog"
  /\ Set(c, [conn[c] EXCEPT !.pc = "handshake"])

\* The client gives up the handshake or ends the served connection.
Leave(c) ==
  /\ conn[c].pc \in {"backlog", "handshake", "serving", "request"}
  /\ Close(c)

StopAccepting ==
  /\ Listening /\ ~draining
  /\ tls \in told
  /\ draining' = TRUE
  /\ UNCHANGED <<worker_vars, ca_files, service, cache, tls, conn>>

BeginRequest(c) ==
  /\ conn[c].pc = "serving"
  /\ Set(c, [conn[c] EXCEPT !.pc = "request"])

\* GracefulShutdown closes a connection between requests, and after its request one
\* that is in the middle of one, for which there is no deadline.
CloseIdle(c) ==
  /\ draining
  /\ conn[c].pc = "serving"
  /\ Close(c)

FinishRequest(c) ==
  /\ conn[c].pc = "request"
  /\ Set(c, IF draining THEN Closed ELSE [conn[c] EXCEPT !.pc = "serving"])

\* graceful.shutdown() and the join of connection_tasks have returned.
Drained == \A c \in Clients : conn[c].pc \notin InTask

\* Returning drops the listening socket, and with it what nobody accepted.
StopListening ==
  /\ Listening /\ draining
  /\ Drained
  /\ Return(tls)
  /\ conn' = [c \in Clients |->
                IF conn[c].pc = "backlog" THEN Closed ELSE conn[c]]
  /\ UNCHANGED <<ca_files, service, cache, tls, draining>>
=============================================================================
