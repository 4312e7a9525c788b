------------------------- MODULE TransparentRuntime -------------------------
(***************************************************************************)
(* The process in transparent mode, from its start to its end, and its     *)
(* restarts (serve_transparent in gateway/runtime.rs, main.rs): it loads   *)
(* or creates the CA, starts the TLS listener and the intercept backend,   *)
(* restarts them on a reload, and stops them in the opposite order.        *)
(* Composes TlsIntercept, InterceptBackend and WorkerRegistry: a client    *)
(* reaches the TLS listener directly, through a WinDivert redirection or   *)
(* through a bridge of the TUN stack, and that path may go away first.     *)
(* The HTTP and DNS components and what a reload compares are in HotReload.*)
(***************************************************************************)
EXTENDS TlsIntercept, InterceptBackend

CONSTANTS
  MaxProcesses,  \* bound: the number of processes, one after the other
  MaxEvents      \* bound: the starts so far plus the clients of this process

TlsListener == "tls-listener"

ASSUME RuntimeAssumption ==
  /\ None \notin Nat /\ None \notin {"Running", "Finished"} /\ None \notin Tasks
  /\ Clients \subseteq Nat /\ Streams = Clients
  /\ Names = {TlsListener, NatCleanup} \cup Range(Captures) \cup Range(CoreTasks)
  /\ MaxStarts \in Nat \ {0} /\ MaxProcesses \in Nat \ {0} /\ MaxEvents \in Nat
  /\ Captures \in Seq(Names) /\ Captures # <<>> /\ IsInjective(Captures)
  /\ CoreTasks \in Seq(Names) /\ IsInjective(CoreTasks)
  /\ Runner \in Range(CoreTasks) /\ TcpLoop \in Range(CoreTasks)
  /\ Range(Captures) \cap Range(CoreTasks) = {}
  /\ {TlsListener, NatCleanup} \cap (Range(Captures) \cup Range(CoreTasks)) = {}

VARIABLES
  pc,          \* where the main task is
  processes,   \* the number of this process
  starts       \* the number of this start or restart of the components, in all processes

control == <<pc, processes, starts>>
vars == <<worker_vars, tls_vars, backend_vars, control>>

\* Clients are numbered in the order in which they turn up.
Arrived == {c \in Clients : conn[c].pc # "none" \/ bridge[c] # "none"}
Spare == starts + Cardinality(Arrived) < MaxEvents

IsNext(c) == Spare /\ c \notin Arrived /\ \A d \in Clients : d < c => d \in Arrived

Goto(p) == pc' = p
Rest == UNCHANGED <<processes, starts>>

Init ==
  /\ registry = NoEntries /\ task = NoTasks /\ told = {}
  /\ service = None /\ cache = NoCache /\ tls = None /\ draining = FALSE
  /\ conn = [c \in Clients |-> NoConn]
  /\ phase = "down" /\ kind = "tun" /\ start = 1 /\ step = 0 /\ open = {} /\ link = None
  /\ bridge = [c \in Streams |-> "none"] /\ handles = {} /\ draining_handles = {}
  /\ deadline = FALSE
  /\ pc = "load_ca"
  /\ ca_files = [cert |-> None, key |-> None]
  /\ processes = 1
  /\ starts = 1

-----------------------------------------------------------------------------
(* build_state: the CA files                                               *)

\* Mutant: a pair is taken as soon as its certificate exists, with a new key if need be.
CheckCa_FillsMissing ==
  /\ pc = "load_ca"
  /\ \/ LoadCa /\ Goto("start_tls")
     \/ /\ ~CaFilesExist
        /\ Goto(IF ca_files.cert = None THEN "write_cert" ELSE "write_key")
        /\ UNCHANGED <<worker_vars, tls_vars>>
  /\ Rest /\ UNCHANGED backend_vars

\* The files may exist and not be readable.
CheckCa ==
  /\ pc = "load_ca"
  /\ \/ LoadCa /\ Goto("start_tls")
     \/ /\ ~CaFilesExist
        /\ Goto("write_cert")
        /\ UNCHANGED <<worker_vars, tls_vars>>
     \/ CaFilesExist /\ Goto("exit") /\ UNCHANGED <<worker_vars, tls_vars>>
  /\ Rest /\ UNCHANGED backend_vars

\* The number of the process is the number of the pair it generates.
WriteFile(file, before, filling, after) ==
  /\ \/ pc = before /\ BeginWrite(file) /\ Goto(filling)
     \/ pc = filling /\ EndWrite(file, processes) /\ Goto(after)
     \/ pc \in {before, filling} /\ Goto("exit") /\ UNCHANGED <<worker_vars, tls_vars>>
  /\ Rest /\ UNCHANGED backend_vars

WriteCert == WriteFile("cert", "write_cert", "fill_cert", "write_key")
WriteKey == WriteFile("key", "write_key", "fill_key", "use_ca")

UseGenerated ==
  /\ pc = "use_ca"
  /\ UseCa(processes)
  /\ Goto("start_tls")
  /\ Rest /\ UNCHANGED backend_vars

-----------------------------------------------------------------------------
(* start_transparent_components, reload and shutdown of the runtime        *)

StartTls ==
  /\ pc = "start_tls"
  /\ \/ start_tls(<<TlsListener, starts>>) /\ Goto("start_intercept")
     \/ Goto("exit") /\ UNCHANGED <<worker_vars, tls_vars>>
  /\ Rest /\ UNCHANGED backend_vars

\* A kind or stack the build does not support is refused before anything starts.
StartIntercept ==
  /\ pc = "start_intercept"
  /\ \/ /\ \E k \in {"windivert", "tun"} : StartOf(k, starts)
        /\ Goto("starting")
        /\ UNCHANGED <<open, tun_vars>>
     \/ Goto("exit") /\ UNCHANGED backend_vars
  /\ Rest /\ UNCHANGED <<worker_vars, tls_vars>>

BackendStep ==
  /\ \/ StartNatCleanup \/ StartCapture \/ OpenFails \/ JoinCapture \/ AbortNatCleanup
     \/ OpenDevice \/ ConfigureDns \/ BuildStack \/ StartCore
     \/ JoinCore \/ TakeBridges \/ DeadlinePasses \/ AwaitBridge \/ AbortBridge \/ RestoreDns
  /\ UNCHANGED <<tls_vars, control>>

InterceptStarted ==
  /\ pc = "starting"
  /\ \/ phase = "up" /\ Goto("running")
     \/ phase = "failed" /\ Goto("exit")
  /\ Rest /\ UNCHANGED <<worker_vars, tls_vars, backend_vars>>

\* shutdown_signal, or a reload whose plan restarts the intercept backend.
Quit ==
  /\ pc = "running"
  /\ Goto("quit")
  /\ Rest /\ UNCHANGED <<worker_vars, tls_vars, backend_vars>>

Reload ==
  /\ pc = "running"
  /\ starts < MaxStarts /\ Spare
  /\ Goto("reload")
  /\ starts' = starts + 1
  /\ UNCHANGED <<processes, worker_vars, tls_vars, backend_vars>>

StopIntercept ==
  /\ pc \in {"quit", "reload"}
  /\ StopCaptures \/ StopCore
  /\ UNCHANGED <<tls_vars, control>>

StopTls ==
  /\ phase = "down"
  /\ \/ pc = "quit" /\ Tell(tls) /\ Goto("stop_tls")
     \/ pc = "reload" /\ Tell(tls) /\ Goto("restart_tls")
     \/ pc = "reload" /\ Goto("start_intercept") /\ UNCHANGED worker_vars
  /\ Rest /\ UNCHANGED <<tls_vars, backend_vars>>

TlsStopped ==
  /\ \/ pc = "stop_tls" /\ Goto("exit")
     \/ pc = "restart_tls" /\ Goto("start_tls")
  /\ Joined(tls)
  /\ tls' = None /\ draining' = FALSE
  /\ Rest /\ UNCHANGED <<worker_vars, ca_files, service, cache, conn, backend_vars>>

-----------------------------------------------------------------------------
(* main returns and the tokio runtime is dropped: async tasks are dropped  *)
(* where they are, threads of spawn_blocking are waited for.               *)

Blocking(w) == w[1] \in Range(Captures)

DropRuntime ==
  /\ pc = "exit"
  /\ Goto("exiting")
  /\ task' = [w \in Tasks |->
                CASE task[w] = "running" /\ Blocking(w) -> "orphan"
                  [] task[w] \in {"none", "done"} -> task[w]
                  [] OTHER -> "dropped"]
  /\ conn' = [c \in Clients |->
                IF conn[c].pc = "none" THEN NoConn ELSE Closed]
  /\ bridge' = [c \in Streams |-> IF bridge[c] = "none" THEN "none" ELSE "over"]
  /\ tls' = None
  /\ link' = None
  /\ Rest
  /\ UNCHANGED <<registry, told, ca_files, service, cache, draining,
                 phase, kind, start, step, open, handles, draining_handles, deadline>>

End ==
  /\ pc = "exiting"
  /\ \A w \in Tasks : Blocking(w) => ~Alive(w)
  /\ Goto("ended")
  /\ Rest /\ UNCHANGED <<worker_vars, tls_vars, backend_vars>>

\* The process is started again after it ended, or was killed wherever it was.
Restart ==
  /\ processes < MaxProcesses /\ starts < MaxStarts
  /\ registry' = NoEntries /\ task' = NoTasks /\ told' = {}
  /\ service' = None /\ cache' = NoCache /\ tls' = None /\ draining' = FALSE
  /\ conn' = [c \in Clients |-> NoConn]
  /\ phase' = "down" /\ kind' = "tun" /\ start' = 1 /\ step' = 0 /\ open' = {} /\ link' = None
  /\ bridge' = [c \in Streams |-> "none"] /\ handles' = {} /\ draining_handles' = {}
  /\ deadline' = FALSE
  /\ pc' = "load_ca"
  /\ processes' = processes + 1
  /\ starts' = starts + 1
  /\ UNCHANGED ca_files

-----------------------------------------------------------------------------
(* Workers and clients                                                     *)

Worker(w) ==
  /\ \/ log_worker_completion(w) /\ UNCHANGED backend_vars
     \/ CaptureStops(w) \/ CoreStops(w)
  /\ UNCHANGED <<tls_vars, control>>

WorkerFails(w) == (CaptureFails(w) \/ CoreFails(w)) /\ UNCHANGED <<tls_vars, control>>

\* Redirected packets get through in both directions.
Redirecting ==
  /\ kind = "windivert"
  /\ \A i \in DOMAIN Captures :
       Captures[i] \in {"windivert-TcpRequestRedirect", "windivert-TcpProxyResponse"} =>
         Capture(i) \in open /\ task[Capture(i)] = "running"

\* A client comes directly, by a redirection or through its bridge.
Reaches(c) ==
  \/ conn[c].path = "direct"
  \/ conn[c].path = "nat" /\ Redirecting
  \/ conn[c].path = "bridge" /\ bridge[c] = "relaying" /\ TunnelMoves

Arrive(c) ==
  /\ \/ IsNext(c) /\ Connect(c, "direct")
     \/ IsNext(c) /\ Redirecting /\ Connect(c, "nat")
     \/ bridge[c] = "relaying" /\ Connect(c, "bridge")
  /\ UNCHANGED <<control, backend_vars>>

Tunnel(c) ==
  /\ \/ IsNext(c) /\ AcceptBridge(c)
     \/ BridgeEnds(c)
  /\ UNCHANGED <<tls_vars, control>>

\* A request that has been read may end without the client: its answer is written to a
\* socket whose path may be gone.
Speak(c) ==
  /\ \/ FinishRequest(c)
     \/ /\ Reaches(c)
        /\ \/ Leave(c) \/ BeginRequest(c)
           \/ \E h \in Hellos : ClientHello(c, h)
  /\ UNCHANGED <<control, backend_vars>>

\* The local end of a bridge is closed with it.
Hangup(c) ==
  /\ conn[c].path = "bridge" /\ bridge[c] = "over"
  /\ Leave(c)
  /\ UNCHANGED <<control, backend_vars>>

ServeConnection(c) ==
  /\ Accept(c) \/ IssueFails(c) \/ Issue(c) \/ CloseIdle(c)
  /\ UNCHANGED <<control, backend_vars>>

ServeListener == (StopAccepting \/ StopListening) /\ UNCHANGED <<control, backend_vars>>

Main ==
  \/ CheckCa \/ WriteCert \/ WriteKey \/ UseGenerated
  \/ StartTls \/ StartIntercept \/ BackendStep \/ InterceptStarted
  \/ StopIntercept \/ StopTls \/ TlsStopped \/ DropRuntime \/ End

\* Everything that happens without a client, a signal, an error or a crash.
System ==
  \/ Main \/ ServeListener
  \/ \E w \in Tasks : Worker(w)
  \/ \E c \in Clients : Hangup(c) \/ ServeConnection(c)

Next ==
  \/ System
  \/ Quit \/ Reload \/ Restart
  \/ \E w \in Tasks : WorkerFails(w)
  \/ \E c \in Clients : Arrive(c) \/ Tunnel(c) \/ Speak(c)

(***************************************************************************)
(* While the process can do something by itself it does something: its     *)
(* tasks and threads are scheduled, the drain's timeout fires, idle        *)
(* connections are closed, and a closed socket is noticed.  Nothing is     *)
(* asked of clients, so requests and handshakes need not end.  Each of     *)
(* these steps happens finitely often, so this is weaker than fairness to  *)
(* each of them.                                                           *)
(***************************************************************************)
Fairness == WF_vars(System)

Spec == Init /\ [][Next]_vars /\ Fairness

-----------------------------------------------------------------------------
(* Properties                                                              *)

\* Whatever the crashes and failed writes before it, a connection is served with a
\* certificate for its own host that its client can verify, signed by the key of
\* the CA certificate sent along; and a complete key file never sits beside the
\* certificate of another pair (get_or_generate_ca_cert, host_certified_keys).
ChainsVerify ==
  /\ \A c \in Clients : conn[c].pc \in {"serving", "request"} =>
       /\ conn[c].key.host = conn[c].hello.host
       /\ conn[c].key.algorithm \in conn[c].hello.schemes
       /\ conn[c].key.issuer = conn[c].key.chain
  /\ ca_files.key \notin {None, Torn} => ca_files.cert = ca_files.key

\* A CA pair that is complete on disk is never touched again: no start, crash,
\* restart or failed write of a later process replaces the certificate that users
\* have installed (get_or_generate_ca_cert).
Complete(content) == content \notin {None, Torn}
CaIsStable == [][Complete(ca_files.cert) /\ Complete(ca_files.key) => UNCHANGED ca_files]_vars

\* A connection that has been accepted or waits to be has a listener whose task
\* still runs: stopping or restarting the listener, and everything the intercept
\* backend does meanwhile, abandons no connection (serve_app_tls_with_listener
\* returns only after its drain, and dropping the socket refuses the backlog).
ConnectionsHaveListener ==
  \A c \in Clients : conn[c].pc \in InTask \cup {"backlog"} => Listening

\* While the process runs, the registry reports a name as running exactly while a
\* worker of that name, of whichever start, has not been logged as completed.  The
\* one worker never logged is the NAT cleanup, whose wrapper the shutdown aborts
\* (mark_running, log_worker_completion, TransparentInterceptHandle::shutdown).
RegistryTellsWhatRuns ==
  pc \notin {"exiting", "ended"} =>
    \A n \in Names :
      LET states == {task[<<n, k>>] : k \in 1..MaxStarts}
      IN /\ registry[n] = "Running" <=>
              states \cap {"running", "returned", "orphan", "dropped"} # {}
         /\ n # NatCleanup => states \cap {"orphan", "dropped"} = {}

\* A backend that is down, after a shutdown or before its first start, has no open
\* capture, no interface, no bridge and no worker left but orphaned NAT cleanups;
\* a TUN start that failed leaves nothing either (shutdown of both backends,
\* run_transparent_tun_smoltcp_runtime).
StoppedLeavesNothing ==
  (phase = "down" \/ (phase = "failed" /\ kind = "tun")) =>
    /\ open = {} /\ link = None
    /\ \A c \in Streams : bridge[c] # "relaying"
    /\ \A w \in Tasks : w[1] \notin {TlsListener, NatCleanup} => task[w] \in {"none", "done", "dropped"}

\* A client that the drain of the listener waits for and that no abort of a bridge
\* can cut off: it is in its handshake or in the middle of a request.
Stalled ==
  \E c \in Clients : conn[c].pc \in {"handshake", "request"} /\ conn[c].path # "bridge"

\* A thread of an abandoned WinDivert start, which nothing will ever close.
LeftCapture == pc = "exiting" /\ \E w \in open : Alive(w)

\* Once it has been told to stop or has failed, the process ends, unless a client
\* that does not come through a bridge stays in its handshake or in a request for
\* good, as one does whose redirection has been stopped, or a failed start has left a
\* capture open.  Idle connections are closed, and the bridges' deadline keeps tunnelled
\* clients from holding the process, whatever they were doing
\* (serve_app_tls_with_listener has no deadline of its own).
ProcessEnds ==
  \/ pc \in {"quit", "exit"} ~> pc \in {"ended", "load_ca"}
  \/ <>[](Stalled \/ LeftCapture)
=============================================================================
