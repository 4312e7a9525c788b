------------------------------ MODULE HotReload ------------------------------
(***************************************************************************)
(* Hot reload of the configuration (`--watch-config`).                     *)
(*                                                                         *)
(* Two concurrent tasks and their environment:                             *)
(*   - the config watch (watch.rs), which polls the modification time of   *)
(*     the config file, debounces it, loads the file, swaps the live rule  *)
(*     set and queues a numbered reload request;                           *)
(*   - the runtime loop (gateway/runtime.rs), which drains the queue to    *)
(*     its newest request, rebuilds the plugin registry and restarts the   *)
(*     components the change affects, in a fixed order;                    *)
(*   - the environment: somebody edits the file, clients open and close    *)
(*     connections, an operator sends the shutdown signal.                 *)
(* Every await of the two tasks, and every write another thread can see,   *)
(* is a step of its own.                                                   *)
(***************************************************************************)
EXTENDS Integers, Sequences

CONSTANTS
  Configs,    \* the loadable configurations (records, see ConfigShape)
  Bad,        \* the content of a file load_config refuses
  None,       \* Rust's None
  MaxEdits,   \* bound: edits of the config file
  MaxConns,   \* bound: connections open on one listener
  Platform,   \* "windows" or "unix"
  Faults      \* TRUE: starting a component or building plugins may fail

Ports == 1..65535

(***************************************************************************)
(* AppConfig, reduced to what the reload code compares.  backend is        *)
(* BackendOptions: the two enums that should_start_fake_dns_runtime looks  *)
(* at, the fake DNS options, and the other backend settings as one value.  *)
(***************************************************************************)
ConfigShape(c) ==
  /\ DOMAIN c = {"listen", "tls_port", "backend", "plugins", "rules"}
  /\ c.listen \in Ports
  /\ c.tls_port \in Ports \cup {None}
  /\ DOMAIN c.backend = {"kind", "stack", "dns"}

ASSUME HotReloadAssumption ==
  /\ \A c \in Configs : ConfigShape(c)
  /\ Bad \notin Configs
  /\ MaxEdits \in Nat
  /\ MaxConns \in Nat
  /\ Platform \in {"windows", "unix"}
  /\ Faults \in BOOLEAN

\* A handle that is there is not None, whatever it runs with.
ASSUME NoneAssumption ==
  /\ None \notin Nat
  /\ None \notin [dns : {c.backend.dns : c \in Configs}, runtime : BOOLEAN, born : Nat]

NoTime == -1                \* a modification time that is None

VARIABLES
  mode,            \* "explicit" or "transparent"
  file,            \* the config file: content, modification time (the number of
                   \* the edit), has CONFIG_WATCH_STABLE_WINDOW passed since, was
                   \* it written before the watch first looked
  watchPc,         \* control state of the config watch task
  watchStop,       \* its shutdown channel has fired
  last,            \* last_processed_modified
  pending,         \* pending_modified
  nextGeneration,  \* next_generation
  loaded,          \* reloaded_config, between the rule swap and the send
  queue,           \* the unbounded reload channel
  liveRules,       \* LiveRuleSet
  livePlugins,     \* LivePluginRegistry: the options and rules it was built from
  snap,            \* the rules snapshot build_registry works on
  pc,              \* control state of the runtime loop
  active,          \* active_config (and TransparentRuntimeHandles.config)
  activeGen,       \* active_generation
  next,            \* the configuration being applied
  nextGen,         \* its generation
  handles,         \* TransparentRuntimeHandles: what each component runs with
  conns            \* connections open on each listener

watchVars == <<watchPc, last, pending, nextGeneration, loaded>>
envVars == <<mode, file>>
pluginVars == <<livePlugins, snap>>
reloadVars == <<active, activeGen, next, nextGen>>
vars == <<envVars, watchVars, watchStop, queue, liveRules, pluginVars, pc,
          reloadVars, handles, conns>>

Listeners == {"http", "tls"}
Components == Listeners \cup {"dns", "intercept"}
Halted == pc \in {"stopped", "failed"}

-----------------------------------------------------------------------------
(* Configuration arithmetic and the reload plan.                           *)

\* listen_addr.port() + 1 is a u16 addition, which wraps in a release build.
effective_tls_port(c) ==
  IF c.tls_port = None THEN (c.listen + 1) % 65536 ELSE c.tls_port

should_start_fake_dns_runtime(backend) ==
  ~(backend.kind = "tun" /\ backend.stack = "smoltcp")

\* Mutant: compares the configured TLS ports, not the effective ones.
TransparentReloadPlan_RawTlsPort(cur, nxt) ==
  {c \in Components : \/ c = "http" /\ cur.listen # nxt.listen
                      \/ c = "tls" /\ cur.tls_port # nxt.tls_port
                      \/ c = "dns" /\ cur.backend.dns # nxt.backend.dns
                      \/ c = "intercept" /\ \/ cur.backend # nxt.backend
                                            \/ cur.listen # nxt.listen
                                            \/ cur.tls_port # nxt.tls_port}

TransparentReloadPlan(cur, nxt) ==
  LET restart_http == cur.listen # nxt.listen
      restart_tls  == effective_tls_port(cur) # effective_tls_port(nxt)
      restart_dns  == cur.backend.dns # nxt.backend.dns
      restart_intercept ==
        restart_dns \/ cur.backend # nxt.backend \/ restart_http \/ restart_tls
  IN  {c \in Components : \/ c = "http" /\ restart_http
                          \/ c = "tls" /\ restart_tls
                          \/ c = "dns" /\ restart_dns
                          \/ c = "intercept" /\ restart_intercept}

\* serve_explicit only owns the HTTP listener.
ExplicitReloadPlan(cur, nxt) ==
  IF cur.listen # nxt.listen THEN {"http"} ELSE {}

Plan == IF mode = "explicit" THEN ExplicitReloadPlan(active, next)
                             ELSE TransparentReloadPlan(active, next)

(***************************************************************************)
(* What a component runs with once it is started for configuration c as    *)
(* part of generation g.  A FakeDnsInstance is identified by the           *)
(* generation that created it: it owns a fresh fake-IP store, and the      *)
(* intercept backend keeps a clone of the server it was started with.      *)
(***************************************************************************)
HttpHandle(c) == c.listen
TlsHandle(c) == effective_tls_port(c)
FakeDnsInstance(c, g) ==
  [dns |-> c.backend.dns, runtime |-> should_start_fake_dns_runtime(c.backend), born |-> g]
InterceptBackendHandle(c, server) ==
  [listen |-> c.listen, tls |-> effective_tls_port(c), backend |-> c.backend,
   server |-> server]

Started(c, cfg, g) ==
  CASE c = "http" -> HttpHandle(cfg)
    [] c = "tls"  -> TlsHandle(cfg)
    [] c = "dns"  -> FakeDnsInstance(cfg, g)
    [] c = "intercept" -> InterceptBackendHandle(cfg, handles["dns"].born)

\* tun/system.rs always bails out; windivert bails out except on Windows.
Unsupported(backend) ==
  \/ backend.kind = "tun" /\ backend.stack = "system"
  \/ backend.kind = "windivert" /\ Platform = "unix"

(***************************************************************************)
(* The TLS listener binds the wildcard address of its port, without        *)
(* SO_REUSEADDR.  On unix the wildcard and a specific address of one port  *)
(* exclude each other; Windows lets both bind.                             *)
(***************************************************************************)
SharesPort(a, b) == Platform = "unix" /\ a = b

Blocked(c, cfg) ==
  \/ c = "http" /\ SharesPort(handles["tls"], HttpHandle(cfg))
  \/ c = "tls" /\ SharesPort(handles["http"], TlsHandle(cfg))
  \/ c = "intercept" /\ Unsupported(cfg.backend)

-----------------------------------------------------------------------------
(* Start-up: the state when the components run and the watch is spawned.   *)

Startable(m, c) ==
  m = "transparent" => /\ ~SharesPort(HttpHandle(c), TlsHandle(c))
                       /\ ~Unsupported(c.backend)

start_transparent_components(c) ==
  [x \in Components |->
     CASE x = "http" -> HttpHandle(c)
       [] x = "tls"  -> TlsHandle(c)
       [] x = "dns"  -> FakeDnsInstance(c, 0)
       [] x = "intercept" -> InterceptBackendHandle(c, 0)]

start_explicit_components(c) ==
  [x \in Components |-> IF x = "http" THEN HttpHandle(c) ELSE None]

Init ==
  /\ mode \in {"explicit", "transparent"}
  /\ \E boot \in Configs :
       /\ Startable(mode, boot)
       /\ file = [mtime |-> 0, body |-> boot, settled |-> TRUE, early |-> FALSE]
       /\ liveRules = boot.rules
       /\ livePlugins = [options |-> boot.plugins, rules |-> boot.rules]
       /\ snap = boot.rules
       /\ active = boot /\ next = boot
       /\ handles = IF mode = "explicit" THEN start_explicit_components(boot)
                                         ELSE start_transparent_components(boot)
  /\ watchPc \in {"off", "starting"}      \* with or without --watch-config
  /\ watchStop = FALSE
  /\ last = NoTime /\ pending = NoTime
  /\ nextGeneration = 1
  /\ loaded = None
  /\ queue = <<>>
  /\ pc = "idle"
  /\ activeGen = 0 /\ nextGen = 0
  /\ conns = [l \in Listeners |-> 0]

-----------------------------------------------------------------------------
(* The environment.                                                        *)

\* Every edit gets a modification time of its own, later than the ones before.
Edit ==
  /\ file.mtime < MaxEdits
  /\ \E b \in Configs \cup {Bad} :
       file' = [mtime |-> file.mtime + 1, body |-> b, settled |-> FALSE,
                early |-> watchPc = "starting"]
  /\ UNCHANGED <<mode, watchVars, watchStop, queue, liveRules, pluginVars, pc,
                 reloadVars, handles, conns>>

\* The stable window passes without another edit.
Settle ==
  /\ ~file.settled
  /\ file' = [file EXCEPT !.settled = TRUE]
  /\ UNCHANGED <<mode, watchVars, watchStop, queue, liveRules, pluginVars, pc,
                 reloadVars, handles, conns>>

StopPc == [http |-> "stop_http", tls |-> "stop_tls"]
QuitPc == [http |-> "quit_http", tls |-> "quit_tls"]

\* The listener has been told to shut down and waits for its connections.
Draining(l) == (pc = StopPc[l] /\ l \in Plan) \/ pc = QuitPc[l]

Connect(l) ==
  /\ handles[l] # None /\ ~Draining(l) /\ ~Halted
  /\ conns[l] < MaxConns
  /\ conns' = [conns EXCEPT ![l] = @ + 1]
  /\ UNCHANGED <<envVars, watchVars, watchStop, queue, liveRules, pluginVars, pc,
                 reloadVars, handles>>

Disconnect(l) ==
  /\ conns[l] > 0
  /\ conns' = [conns EXCEPT ![l] = @ - 1]
  /\ UNCHANGED <<envVars, watchVars, watchStop, queue, liveRules, pluginVars, pc,
                 reloadVars, handles>>

-----------------------------------------------------------------------------
(* The config watch task.                                                  *)

runtimeVars == <<pluginVars, pc, reloadVars, handles, conns>>

\* The first stat runs in the task, after the components have started.
WatchStart ==
  /\ watchPc = "starting"
  /\ watchPc' = "polling"
  /\ last' \in {file.mtime} \cup (IF Faults THEN {NoTime} ELSE {})
  /\ UNCHANGED <<envVars, watchStop, pending, nextGeneration, loaded, queue,
                 liveRules, runtimeVars>>

WatchPoll ==
  /\ watchPc = "polling"
  /\ file.mtime > last
  /\ \/ /\ pending # file.mtime
        /\ pending' = file.mtime
        /\ UNCHANGED watchPc
     \/ /\ pending = file.mtime
        /\ file.settled                       \* modified_time_is_stable
        /\ watchPc' = "load"
        /\ UNCHANGED pending
  /\ UNCHANGED <<envVars, watchStop, last, nextGeneration, loaded, queue,
                 liveRules, runtimeVars>>

\* Mutant: remembers the modification time of now, not of the load.
Processed_Restat ==
  /\ last' = file.mtime
  /\ pending' = NoTime
  /\ watchPc' = "polling"

Processed ==
  /\ last' = pending
  /\ pending' = NoTime
  /\ watchPc' = "polling"

\* The file may have been rewritten since WatchPoll looked at it.
WatchLoad ==
  /\ watchPc = "load"
  /\ \/ /\ file.body = Bad
        /\ Processed
        /\ UNCHANGED <<liveRules, loaded>>
     \/ /\ file.body # Bad
        /\ liveRules' = file.body.rules
        /\ loaded' = file.body
        /\ watchPc' = "send"
        /\ UNCHANGED <<last, pending>>
  /\ UNCHANGED <<envVars, watchStop, nextGeneration, queue, runtimeVars>>

\* Mutant: next_generation is not advanced.
WatchSend_SameGeneration ==
  /\ watchPc = "send"
  /\ queue' = IF pc = "failed" THEN queue
              ELSE Append(queue, [generation |-> nextGeneration, config |-> loaded])
  /\ loaded' = None
  /\ Processed
  /\ UNCHANGED <<envVars, watchStop, nextGeneration, liveRules, runtimeVars>>

WatchSend ==
  /\ watchPc = "send"
  /\ IF pc = "failed"                         \* the receiver is gone
       THEN UNCHANGED <<queue, nextGeneration>>
       ELSE /\ queue' = Append(queue, [generation |-> nextGeneration, config |-> loaded])
            /\ nextGeneration' = nextGeneration + 1
  /\ loaded' = None
  /\ Processed
  /\ UNCHANGED <<envVars, watchStop, liveRules, runtimeVars>>

WatchExit ==
  /\ watchPc = "polling" /\ watchStop
  /\ watchPc' = "stopped"
  /\ UNCHANGED <<envVars, watchStop, last, pending, nextGeneration, loaded, queue,
                 liveRules, runtimeVars>>

-----------------------------------------------------------------------------
(* The runtime loop: one reload.                                           *)

\* An error leaves serve_*: the handles, and the watch's with them, are dropped
\* without waiting for what they stand for, and main returns the error.
Fail ==
  /\ pc' = "failed"
  /\ watchStop' = TRUE

RecvReload ==
  /\ pc = "idle" /\ queue # <<>>
  /\ LET request == queue[Len(queue)]           \* take_latest_reload_request
     IN  IF request.generation <= activeGen
           THEN UNCHANGED <<pc, next, nextGen>>
           ELSE /\ pc' = "plugins"
                /\ next' = request.config
                /\ nextGen' = request.generation
  /\ queue' = <<>>
  /\ UNCHANGED <<envVars, watchVars, watchStop, liveRules, pluginVars, active,
                 activeGen, handles, conns>>

\* build_registry reads the live rules, which may be newer than the request's.
SnapshotRules ==
  /\ pc = "plugins"
  /\ snap' = liveRules
  /\ pc' = "rebuild"
  /\ UNCHANGED <<envVars, watchVars, watchStop, queue, liveRules, livePlugins,
                 reloadVars, handles, conns>>

\* Mutant: keeps the registry when the plugin options did not change.
ReplaceRegistry_OnlyOptions ==
  /\ pc = "rebuild"
  /\ pc' = "stop_intercept"
  /\ livePlugins' = IF next.plugins = active.plugins THEN livePlugins
                    ELSE [options |-> next.plugins, rules |-> snap]
  /\ UNCHANGED <<envVars, watchVars, watchStop, queue, liveRules, snap, reloadVars,
                 handles, conns>>

ReplaceRegistry ==
  /\ pc = "rebuild"
  /\ \/ /\ livePlugins' = [options |-> next.plugins, rules |-> snap]
        /\ pc' = "stop_intercept"
        /\ UNCHANGED watchStop
     \/ /\ Faults
        /\ Fail
        /\ UNCHANGED livePlugins
  /\ UNCHANGED <<envVars, watchVars, queue, liveRules, snap, reloadVars, handles,
                 conns>>

\* Mutant: signals the component and does not join it.
StopStep_NoJoin(c, at, after) ==
  /\ pc = at
  /\ pc' = after
  /\ handles' = IF c \in Plan THEN [handles EXCEPT ![c] = None] ELSE handles
  /\ UNCHANGED <<envVars, watchVars, watchStop, queue, liveRules, pluginVars,
                 reloadVars, conns>>

StopStep(c, at, after) ==
  /\ pc = at
  /\ pc' = after
  /\ IF c \in Plan
       THEN /\ c \in Listeners => conns[c] = 0
            /\ handles' = [handles EXCEPT ![c] = None]
       ELSE UNCHANGED handles
  /\ UNCHANGED <<envVars, watchVars, watchStop, queue, liveRules, pluginVars,
                 reloadVars, conns>>

StartStep(c, at, after) ==
  /\ pc = at
  /\ \/ /\ c \notin Plan
        /\ pc' = after
        /\ UNCHANGED <<handles, watchStop>>
     \/ /\ c \in Plan
        /\ ~Blocked(c, next)
        /\ handles' = [handles EXCEPT ![c] = Started(c, next, nextGen)]
        /\ pc' = after
        /\ UNCHANGED watchStop
     \/ /\ c \in Plan
        /\ Blocked(c, next) \/ Faults
        /\ Fail
        /\ UNCHANGED handles
  /\ UNCHANGED <<envVars, watchVars, queue, liveRules, pluginVars, reloadVars,
                 conns>>

\* Mutant: the old backend is only replaced at the end.
StopIntercept_Late ==
  /\ pc = "stop_intercept"
  /\ pc' = "stop_dns"
  /\ UNCHANGED <<envVars, watchVars, watchStop, queue, liveRules, pluginVars,
                 reloadVars, handles, conns>>

\* TransparentRuntimeHandles::reload, in the order of its awaits.
StopIntercept == StopStep("intercept", "stop_intercept", "stop_dns")
StopDns == StopStep("dns", "stop_dns", "start_dns")
StartDns == StartStep("dns", "start_dns", "stop_http")
StopHttp == StopStep("http", "stop_http", "start_http")
StartHttp == StartStep("http", "start_http", "stop_tls")
StopTls == StopStep("tls", "stop_tls", "start_tls")
StartTls == StartStep("tls", "start_tls", "start_intercept")
StartIntercept == StartStep("intercept", "start_intercept", "commit")

\* Mutant: active_generation is left behind.
Commit_KeepsGeneration ==
  /\ pc = "commit"
  /\ pc' = "idle"
  /\ active' = next
  /\ UNCHANGED <<envVars, watchVars, watchStop, queue, liveRules, pluginVars, next,
                 activeGen, nextGen, handles, conns>>

Commit ==
  /\ pc = "commit"
  /\ pc' = "idle"
  /\ active' = next
  /\ activeGen' = nextGen
  /\ UNCHANGED <<envVars, watchVars, watchStop, queue, liveRules, pluginVars, next,
                 nextGen, handles, conns>>

-----------------------------------------------------------------------------
(* The runtime loop: shutdown.  A signal that arrives during a reload      *)
(* finds no listener (shutdown_signal is polled only by the select) and    *)
(* changes nothing.                                                        *)

ShutdownSignal ==
  /\ pc = "idle"
  /\ pc' = "quit_watch"
  /\ watchStop' = TRUE
  /\ UNCHANGED <<envVars, watchVars, queue, liveRules, pluginVars, reloadVars,
                 handles, conns>>

QuitWatch ==
  /\ pc = "quit_watch"
  /\ watchPc \in {"off", "stopped"}
  /\ pc' = "quit_intercept"
  /\ UNCHANGED <<envVars, watchVars, watchStop, queue, liveRules, pluginVars,
                 reloadVars, handles, conns>>

QuitStep(c, at, after) ==
  /\ pc = at
  /\ pc' = after
  /\ c \in Listeners => conns[c] = 0
  /\ handles' = [handles EXCEPT ![c] = None]
  /\ UNCHANGED <<envVars, watchVars, watchStop, queue, liveRules, pluginVars,
                 reloadVars, conns>>

\* Mutant: the TLS listener is forgotten.
Quit_NoTls ==
  \/ QuitWatch
  \/ QuitStep("intercept", "quit_intercept", "quit_dns")
  \/ QuitStep("dns", "quit_dns", "quit_http")
  \/ QuitStep("http", "quit_http", "stopped")

Quit ==
  \/ QuitWatch
  \/ QuitStep("intercept", "quit_intercept", "quit_dns")
  \/ QuitStep("dns", "quit_dns", "quit_http")
  \/ QuitStep("http", "quit_http", "quit_tls")
  \/ QuitStep("tls", "quit_tls", "stopped")

\* The process is gone once the watch has ended too.
Exited ==
  /\ Halted /\ watchPc \in {"off", "stopped"}
  /\ UNCHANGED vars

-----------------------------------------------------------------------------
Reload ==
  \/ RecvReload \/ SnapshotRules \/ ReplaceRegistry
  \/ StopIntercept \/ StopDns \/ StartDns \/ StopHttp \/ StartHttp
  \/ StopTls \/ StartTls \/ StartIntercept \/ Commit

Watch == WatchStart \/ WatchPoll \/ WatchLoad \/ WatchSend \/ WatchExit

Next ==
  \/ Edit \/ Settle \/ ShutdownSignal
  \/ \E l \in Listeners : Connect(l) \/ Disconnect(l)
  \/ Watch \/ Reload \/ Quit \/ Exited

(***************************************************************************)
(* tokio runs a task that can make progress and time passes.  A graceful   *)
(* shutdown has no deadline: that the requests in flight on a draining     *)
(* listener finish is an assumption on clients and upstreams.  Nobody has  *)
(* to edit the file, to disconnect otherwise or to send a signal.          *)
(***************************************************************************)
Fairness ==
  /\ WF_vars(Settle) /\ WF_vars(Watch) /\ WF_vars(Reload) /\ WF_vars(Quit)
  /\ \A l \in Listeners : WF_vars(Draining(l) /\ Disconnect(l))

Spec == Init /\ [][Next]_vars /\ Fairness

-----------------------------------------------------------------------------
(* Properties.                                                             *)

WatchPcs == {"off", "starting", "polling", "load", "send", "stopped"}
ReloadPcs == {"plugins", "rebuild", "stop_intercept", "stop_dns", "start_dns",
              "stop_http", "start_http", "stop_tls", "start_tls",
              "start_intercept", "commit"}
QuitPcs == {"quit_watch", "quit_intercept", "quit_dns", "quit_http", "quit_tls"}

FileStates ==
  [mtime : Nat, body : Configs \cup {Bad}, settled : BOOLEAN, early : BOOLEAN]
ConfigReloadRequests == [generation : Nat, config : Configs]

\* Every variable of the watch and of the runtime loop keeps its type.
TypeOK ==
  /\ mode \in {"explicit", "transparent"}
  /\ file \in FileStates
  /\ watchPc \in WatchPcs /\ watchStop \in BOOLEAN
  /\ last \in Nat \cup {NoTime} /\ pending \in Nat \cup {NoTime}
  /\ nextGeneration \in Nat
  /\ watchPc = "send" => loaded \in Configs
  /\ queue \in Seq(ConfigReloadRequests)
  /\ pc \in {"idle", "stopped", "failed"} \cup ReloadPcs \cup QuitPcs
  /\ active \in Configs /\ next \in Configs
  /\ activeGen \in Nat /\ nextGen \in Nat
  /\ DOMAIN handles = Components
  /\ conns \in [Listeners -> Nat]

\* What component c runs with is what configuration cfg asks for.
RunsWith(c, cfg) ==
  CASE c = "http" -> handles["http"] = HttpHandle(cfg)
    [] c = "tls"  -> handles["tls"] = TlsHandle(cfg)
    [] c = "dns"  -> /\ handles["dns"] # None
                     /\ handles["dns"].dns = cfg.backend.dns
    [] c = "intercept" ->
         /\ handles["dns"] # None
         /\ handles["intercept"] = InterceptBackendHandle(cfg, handles["dns"].born)

Owned == IF mode = "explicit" THEN {"http"} ELSE Components

(***************************************************************************)
(* Whenever the runtime loop is back at its select, every component runs   *)
(* with the settings of active_config, although a reload restarts only the *)
(* components its plan names; in particular the intercept backend resolves *)
(* fake addresses in the store of the running fake DNS server and never in *)
(* one that a reload replaced.  (TransparentRuntimeHandles::reload,        *)
(* TransparentReloadPlan::from_configs)                                    *)
(***************************************************************************)
ComponentsMatchConfig ==
  pc = "idle" => \A c \in Owned : RunsWith(c, active)

(***************************************************************************)
(* Traffic is only captured while the proxy can serve it: as long as the   *)
(* intercept backend runs, the HTTP and the TLS listener it redirects to   *)
(* are bound to the ports it uses and its fake DNS server is the running   *)
(* one, at every step of a reload and of a shutdown.                       *)
(***************************************************************************)
CaptureHasTargets ==
  (~Halted /\ handles["intercept"] # None) =>
    /\ handles["http"] = handles["intercept"].listen
    /\ handles["tls"] = handles["intercept"].tls
    /\ handles["dns"] # None
    /\ handles["intercept"].server = handles["dns"].born

(***************************************************************************)
(* When no request is queued or being applied, the live rules, the rules   *)
(* the plugin registry was built from and the active configuration are of  *)
(* one and the same load: a registry built while the watch swapped rules   *)
(* in never stays.  (spawn_config_watch swaps before it sends;             *)
(* build_registry reads the live rules, not the request's)                 *)
(***************************************************************************)
QuietIsConsistent ==
  (pc = "idle" /\ queue = <<>> /\ watchPc # "send") =>
    /\ liveRules = active.rules
    /\ livePlugins = [options |-> active.plugins, rules |-> active.rules]

(***************************************************************************)
(* Generations in the channel ascend and are newer than the one being      *)
(* applied or active, so the newest pending request is the one             *)
(* take_latest_reload_request keeps, and the stale-generation branch of    *)
(* the runtime loop is dead code.                                          *)
(***************************************************************************)
GenerationsAscend ==
  /\ activeGen <= nextGen /\ nextGen < nextGeneration
  /\ pc \in ReloadPcs => activeGen < nextGen
  /\ \A i \in DOMAIN queue :
       /\ nextGen < queue[i].generation /\ queue[i].generation < nextGeneration
       /\ \A j \in DOMAIN queue : i < j => queue[i].generation < queue[j].generation

(***************************************************************************)
(* A reload never cuts a proxied connection at a listener: a listener that *)
(* is down has drained.  (ShutdownJoinHandle::shutdown awaits the graceful *)
(* shutdown of the listener it stops)                                      *)
(***************************************************************************)
StoppedIsDrained ==
  \A l \in Listeners : handles[l] = None => conns[l] = 0

(***************************************************************************)
(* The active configuration only moves to a strictly newer generation, and *)
(* nothing changes behind a loop that has ended, with one exception: after *)
(* an error nobody waits for the watch, which may still put the rules of a *)
(* last load in force.  A shutdown has joined it (ConfigWatchHandle).      *)
(***************************************************************************)
OnlyForward ==
  [][/\ active' # active => activeGen' > activeGen
     /\ Halted => UNCHANGED <<active, livePlugins, handles>>
     /\ pc = "stopped" => UNCHANGED liveRules]_vars

(***************************************************************************)
(* The last valid content of the file that was written after the watch     *)
(* began ends up as the running configuration and as the live rules,       *)
(* unless the process ends.  (spawn_config_watch, serve_transparent,       *)
(* serve_explicit)                                                         *)
(***************************************************************************)
Converges ==
  <>[](\/ Halted \/ pc \in QuitPcs
       \/ watchPc = "off" \/ file.early \/ file.body = Bad
       \/ active = file.body /\ liveRules = file.body.rules)

(***************************************************************************)
(* Nothing to do means up to date: a watch that is back at polling and has *)
(* processed the modification time the file has now, with no request       *)
(* queued or being applied, has left the file's content running, whatever  *)
(* edits fell between the poll that saw a time and the load that read the  *)
(* content.  (spawn_config_watch remembers the time of the poll, not of    *)
(* the load; file.early is the edit that came before its first stat)       *)
(***************************************************************************)
ConfigFollowsFile ==
  (/\ pc = "idle" /\ queue = <<>>
   /\ watchPc = "polling" /\ last = file.mtime
   /\ ~file.early /\ file.body # Bad) =>
    active = file.body /\ liveRules = file.body.rules

(***************************************************************************)
(* A shutdown that has begun completes, with every component stopped: the  *)
(* runtime loop, the watch it joins and the draining listeners never wait  *)
(* for one another.                                                        *)
(***************************************************************************)
ShutdownCompletes ==
  pc \in QuitPcs ~> (pc = "stopped" /\ \A c \in Components : handles[c] = None)

(***************************************************************************)
(* "The process stays alive" (docs/runtime-reload.md): when nothing but    *)
(* the process itself uses its ports, no reload of a configuration the     *)
(* process could have been started with ends it.                           *)
(***************************************************************************)
ProcessStaysAlive == pc # "failed"

(***************************************************************************)
(* `GET /observability/state` is the "current in-memory runtime snapshot"  *)
(* (README.md): the fake DNS listener it reports while the process is idle *)
(* is there, and one that is there is reported.                            *)
(***************************************************************************)
ReportedFakeDnsRuns ==
  (mode = "transparent" /\ pc = "idle") =>
    (handles["dns"].runtime <=> should_start_fake_dns_runtime(active.backend))
=============================================================================
