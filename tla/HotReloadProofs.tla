--------------------------- MODULE HotReloadProofs ---------------------------
(***************************************************************************)
(* Safety of the hot reload, for every set of configurations and every     *)
(* bound: types, generations, components, rules, and the file they follow. *)
(***************************************************************************)
EXTENDS HotReload, SequenceTheorems, TLAPS

-----------------------------------------------------------------------------
(* Facts about the operators of the reload plan.                           *)

\* Port numbers are natural numbers.
LEMMA PortsAreNat == Ports \subseteq Nat
BY DEF Ports

\* effective_tls_port yields a port number for every configuration.
LEMMA EffectivePort ==
  ASSUME NEW c \in Configs
  PROVE  effective_tls_port(c) \in Nat /\ c.listen \in Nat
<1>1. ASSUME NEW p \in Ports PROVE p \in Nat /\ (p + 1) % 65536 \in Nat
  BY <1>1, PortsAreNat
<1>2. c.listen \in Ports /\ c.tls_port \in Ports \cup {None}
  BY HotReloadAssumption, Zenon DEF ConfigShape
<1> QED
  BY <1>1, <1>2 DEF effective_tls_port

\* A handle that has been started is not None.
LEMMA StartedIsSome ==
  ASSUME NEW c \in Configs, NEW g \in Nat
  PROVE  HttpHandle(c) # None /\ TlsHandle(c) # None /\ FakeDnsInstance(c, g) # None
<1>1. HttpHandle(c) # None /\ TlsHandle(c) # None
  BY EffectivePort, NoneAssumption, Zenon DEF HttpHandle, TlsHandle
<1>2. should_start_fake_dns_runtime(c.backend) \in BOOLEAN
  BY Zenon DEF should_start_fake_dns_runtime
<1>3. c.backend.dns \in {x.backend.dns : x \in Configs}
  BY Zenon
<1>4. FakeDnsInstance(c, g)
        \in [dns : {x.backend.dns : x \in Configs}, runtime : BOOLEAN, born : Nat]
  BY <1>2, <1>3, Zenon DEF FakeDnsInstance
<1> QED
  BY <1>1, <1>4, NoneAssumption, Zenon

\* A reload only restarts components.
LEMMA PlanComponents == Plan \subseteq Components
BY Zenon DEF Plan, ExplicitReloadPlan, TransparentReloadPlan, Components, Listeners

-----------------------------------------------------------------------------
(* Types.                                                                  *)

LEMMA TypeInit == Init => TypeOK
<1> SUFFICES ASSUME Init PROVE TypeOK
  BY Zenon
<1>1. file \in FileStates
  BY DEF Init, FileStates
<1>2. DOMAIN handles = Components
  BY Zenon DEF Init, start_transparent_components, start_explicit_components
<1>3. queue \in Seq(ConfigReloadRequests)
  BY DEF Init
<1> QED
  BY <1>1, <1>2, <1>3, Zenon DEF Init, TypeOK, WatchPcs

LEMMA TypeNext == TypeOK /\ [Next]_vars => TypeOK'
<1> SUFFICES ASSUME TypeOK, [Next]_vars PROVE TypeOK'
  BY Zenon
<1> USE DEF TypeOK, WatchPcs, ReloadPcs, QuitPcs, envVars, watchVars, pluginVars,
            reloadVars, runtimeVars
<1>1. CASE Edit
  BY <1>1 DEF Edit, FileStates
<1>2. CASE Settle
  <2>1. file' \in FileStates
    BY <1>2, Zenon DEF Settle, FileStates
  <2> QED
    BY <1>2, <2>1 DEF Settle
<1>3. CASE ShutdownSignal
  BY <1>3, ZenonT(40) DEF ShutdownSignal
<1>4. ASSUME NEW l \in Listeners, Connect(l) PROVE TypeOK'
  BY <1>4 DEF Connect
<1>5. ASSUME NEW l \in Listeners, Disconnect(l) PROVE TypeOK'
  BY <1>5 DEF Disconnect
<1>6. CASE Watch
  <2>1. CASE WatchStart
    <3>1. last' \in Nat \cup {NoTime}
      BY <2>1, Zenon DEF WatchStart, FileStates
    <3> QED
      BY <2>1, <3>1, ZenonT(40) DEF WatchStart
  <2>2. CASE WatchPoll
    <3>1. pending' \in Nat \cup {NoTime} /\ watchPc' \in {"polling", "load"}
      BY <2>2, Zenon DEF WatchPoll, FileStates
    <3> QED
      BY <2>2, <3>1, ZenonT(40) DEF WatchPoll
  <2>3. CASE WatchLoad
    BY <2>3 DEF WatchLoad, Processed, FileStates
  <2>4. CASE WatchSend
    <3> DEFINE request == [generation |-> nextGeneration, config |-> loaded]
    <3>1. request \in ConfigReloadRequests
      BY <2>4, Zenon DEF WatchSend, ConfigReloadRequests
    <3>2. queue' = queue \/ queue' = Append(queue, request)
      BY <2>4, Zenon DEF WatchSend
    <3>3. queue' \in Seq(ConfigReloadRequests)
      <4> HIDE DEF request
      <4>1. Append(queue, request) \in Seq(ConfigReloadRequests)
        BY <3>1, AppendProperties, Zenon
      <4> QED
        BY <3>2, <4>1, Zenon
    <3> QED
      BY <2>4, <3>3 DEF WatchSend, Processed
  <2>5. CASE WatchExit
    BY <2>5, ZenonT(40) DEF WatchExit
  <2> QED
    BY <1>6, <2>1, <2>2, <2>3, <2>4, <2>5, Zenon DEF Watch
<1>7. CASE Reload
  <2>1. CASE RecvReload
    <3>1. queue[Len(queue)] \in ConfigReloadRequests
      BY <2>1 DEF RecvReload
    <3>2. queue[Len(queue)].generation \in Nat /\ queue[Len(queue)].config \in Configs
      BY <3>1, Zenon DEF ConfigReloadRequests
    <3> QED
      BY <2>1, <3>2 DEF RecvReload
  <2>2. CASE SnapshotRules
    BY <2>2, ZenonT(40) DEF SnapshotRules
  <2>3. CASE ReplaceRegistry
    BY <2>3, ZenonT(40) DEF ReplaceRegistry, Fail
  <2>4. CASE StopIntercept \/ StopDns \/ StopHttp \/ StopTls
    BY <2>4, ZenonT(40) DEF StopIntercept, StopDns, StopHttp, StopTls, StopStep
  <2>5. CASE StartIntercept \/ StartDns \/ StartHttp \/ StartTls
    BY <2>5, ZenonT(60) DEF StartIntercept, StartDns, StartHttp, StartTls, StartStep, Fail
  <2>6. CASE Commit
    BY <2>6, ZenonT(40) DEF Commit
  <2> QED
    BY <1>7, <2>1, <2>2, <2>3, <2>4, <2>5, <2>6, Zenon DEF Reload
<1>8. CASE Quit
  BY <1>8, SMTT(30) DEF Quit, QuitWatch, QuitStep
<1>9. CASE Exited \/ UNCHANGED vars
  BY <1>9, SMTT(30) DEF Exited, vars
<1> QED
  BY <1>1, <1>2, <1>3, <1>4, <1>5, <1>6, <1>7, <1>8, <1>9, Zenon DEF Next

\* Every variable keeps its type, for every set of configurations.
THEOREM TypeCorrect == Spec => []TypeOK
BY TypeInit, TypeNext, PTL DEF Spec

-----------------------------------------------------------------------------
(* Generations.  GenerationsAscend is inductive as it stands.              *)

LEMMA GenerationsInit == Init => GenerationsAscend
BY DEF Init, GenerationsAscend, ReloadPcs

LEMMA GenerationsNext ==
  TypeOK /\ GenerationsAscend /\ [Next]_vars => GenerationsAscend'
<1> SUFFICES ASSUME TypeOK, GenerationsAscend, [Next]_vars PROVE GenerationsAscend'
  BY Zenon
<1> USE DEF ReloadPcs, envVars, watchVars, pluginVars, reloadVars, runtimeVars
<1>1. ASSUME UNCHANGED <<queue, nextGeneration, activeGen, nextGen>>,
             pc' \in ReloadPcs => pc \in ReloadPcs
      PROVE  GenerationsAscend'
  BY <1>1, Zenon DEF GenerationsAscend
<1>2. CASE Edit \/ Settle \/ ShutdownSignal \/ Exited \/ UNCHANGED vars
  BY <1>1, <1>2, Zenon DEF Edit, Settle, ShutdownSignal, Exited, vars
<1>3. ASSUME NEW l \in Listeners, Connect(l) \/ Disconnect(l) PROVE GenerationsAscend'
  BY <1>1, <1>3, Zenon DEF Connect, Disconnect
<1>4. CASE WatchStart \/ WatchPoll \/ WatchLoad \/ WatchExit
  BY <1>1, <1>4, Zenon DEF WatchStart, WatchPoll, WatchLoad, WatchExit
<1>5. CASE WatchSend
  <2> DEFINE request == [generation |-> nextGeneration, config |-> loaded]
  <2>1. CASE UNCHANGED <<queue, nextGeneration>>
    BY <1>1, <1>5, <2>1, ZenonT(40) DEF WatchSend
  <2>2. CASE queue' = Append(queue, request) /\ nextGeneration' = nextGeneration + 1
    <3>1. request \in ConfigReloadRequests /\ request.generation = nextGeneration
      BY <1>5, Zenon DEF WatchSend, ConfigReloadRequests, TypeOK
    <3> HIDE DEF request
    <3>2. /\ Len(queue') = Len(queue) + 1 /\ Len(queue) \in Nat
          /\ queue'[Len(queue) + 1] = request
          /\ \A i \in 1..Len(queue) : queue'[i] = queue[i]
          /\ DOMAIN queue = 1..Len(queue) /\ DOMAIN queue' = 1..(Len(queue) + 1)
      <4>1. queue \in Seq(ConfigReloadRequests)
        BY Zenon DEF TypeOK
      <4>2. /\ Append(queue, request) \in Seq(ConfigReloadRequests)
            /\ Len(Append(queue, request)) = Len(queue) + 1
            /\ \A i \in 1..Len(queue) : Append(queue, request)[i] = queue[i]
            /\ Append(queue, request)[Len(queue) + 1] = request
        BY <3>1, <4>1, AppendProperties
      <4> QED
        BY <2>2, <4>1, <4>2
    <3>3. /\ \A i \in 1..Len(queue) : queue[i].generation \in Nat
          /\ \A i \in DOMAIN queue' : i \in 1..Len(queue) \/ i = Len(queue) + 1
      <4>1. \A i \in 1..Len(queue) : queue[i] \in ConfigReloadRequests
        BY DEF TypeOK
      <4>2. \A r \in ConfigReloadRequests : r.generation \in Nat
        BY Zenon DEF ConfigReloadRequests
      <4> QED
        BY <3>2, <4>1, <4>2
    <3>4. UNCHANGED <<pc, activeGen, nextGen>>
      BY <1>5, Zenon DEF WatchSend
    <3>5. \A i \in 1..Len(queue) :
            /\ nextGen < queue[i].generation /\ queue[i].generation < nextGeneration
            /\ \A j \in 1..Len(queue) : i < j => queue[i].generation < queue[j].generation
      BY <3>2, Zenon DEF GenerationsAscend
    <3>6. ASSUME NEW i \in DOMAIN queue'
          PROVE  nextGen < queue'[i].generation /\ queue'[i].generation < nextGeneration + 1
      BY <3>1, <3>2, <3>3, <3>5, SMTT(30) DEF GenerationsAscend, TypeOK
    <3>7. ASSUME NEW i \in DOMAIN queue', NEW j \in DOMAIN queue', i < j
          PROVE  queue'[i].generation < queue'[j].generation
      <4>1. i \in 1..Len(queue)
        BY <3>2, <3>7
      <4> QED
        BY <3>1, <3>2, <3>3, <3>5, <3>7, <4>1, Zenon
    <3> QED
      BY <2>2, <3>4, <3>6, <3>7 DEF GenerationsAscend, TypeOK
  <2> QED
    BY <1>5, <2>1, <2>2, Zenon DEF WatchSend
<1>6. CASE RecvReload
  <2>1. /\ Len(queue) \in DOMAIN queue /\ queue[Len(queue)] \in ConfigReloadRequests
    BY <1>6 DEF RecvReload, TypeOK
  <2>2. queue[Len(queue)].generation \in Nat
    BY <2>1, Zenon DEF ConfigReloadRequests
  <2>3. /\ nextGen < queue[Len(queue)].generation
        /\ queue[Len(queue)].generation < nextGeneration /\ activeGen <= nextGen
    BY <2>1, Zenon DEF GenerationsAscend
  <2>4. /\ nextGen' = queue[Len(queue)].generation
        /\ queue' = <<>> /\ UNCHANGED <<activeGen, nextGeneration>>
    BY <1>6, <2>2, <2>3 DEF RecvReload, TypeOK
  <2> QED
    BY <2>2, <2>3, <2>4, SMTT(30) DEF GenerationsAscend, TypeOK
<1>7. CASE SnapshotRules \/ ReplaceRegistry
  BY <1>1, <1>7, Zenon DEF SnapshotRules, ReplaceRegistry, Fail
<1>8. CASE StopIntercept \/ StopDns \/ StopHttp \/ StopTls
  BY <1>1, <1>8, Zenon DEF StopIntercept, StopDns, StopHttp, StopTls, StopStep
<1>9. CASE StartIntercept \/ StartDns \/ StartHttp \/ StartTls
  BY <1>1, <1>9, Zenon DEF StartIntercept, StartDns, StartHttp, StartTls, StartStep, Fail
<1>10. CASE Commit
  BY <1>10 DEF Commit, GenerationsAscend, TypeOK
<1>11. CASE Quit
  BY <1>1, <1>11, Zenon DEF Quit, QuitWatch, QuitStep
<1> QED
  BY <1>2, <1>3, <1>4, <1>5, <1>6, <1>7, <1>8, <1>9, <1>10, <1>11, Zenon
     DEF Next, Watch, Reload

\* Generations ascend in the channel and stay ahead of the one being applied:
\* the request take_latest_reload_request keeps is never stale.
THEOREM GenerationsCorrect == Spec => []GenerationsAscend
BY TypeInit, TypeNext, GenerationsInit, GenerationsNext, PTL DEF Spec

-----------------------------------------------------------------------------
(* Components.  ComponentsMatchConfig and CaptureHasTargets only speak of  *)
(* some control states; the inductive invariant follows each component     *)
(* through a reload: as configured by active until its stop, down until    *)
(* its start, as configured by next from then on, and never touched when   *)
(* the plan leaves it out.                                                 *)

DownPcs(c) ==
  CASE c = "dns"  -> {"start_dns"}
    [] c = "http" -> {"start_http"}
    [] c = "tls"  -> {"start_tls"}
    [] c = "intercept" -> {"stop_dns", "start_dns", "stop_http", "start_http",
                           "stop_tls", "start_tls", "start_intercept"}

DonePcs(c) ==
  CASE c = "dns"  -> {"stop_http", "start_http", "stop_tls", "start_tls",
                      "start_intercept", "commit"}
    [] c = "http" -> {"stop_tls", "start_tls", "start_intercept", "commit"}
    [] c = "tls"  -> {"start_intercept", "commit"}
    [] c = "intercept" -> {"commit"}

Staged(c) ==
  /\ c \notin Plan \/ pc \notin DownPcs(c) \cup DonePcs(c) => RunsWith(c, active)
  /\ c \in Plan /\ pc \in DownPcs(c) => handles[c] = None
  /\ c \in Plan /\ pc \in DonePcs(c) => RunsWith(c, next)

ComponentsInv ==
  /\ pc \in {"idle", "quit_watch", "quit_intercept"} \cup ReloadPcs =>
       \A c \in Owned : Staged(c)
  /\ (mode = "explicit" \/ pc \in {"quit_dns", "quit_http", "quit_tls", "stopped"}) =>
       handles["intercept"] = None

LEMMA ComponentsInit == Init => ComponentsInv
<1> SUFFICES ASSUME Init PROVE ComponentsInv
  BY Zenon
<1>1. PICK boot \in Configs :
        /\ active = boot /\ next = boot
        /\ handles = IF mode = "explicit" THEN start_explicit_components(boot)
                                          ELSE start_transparent_components(boot)
  BY Zenon DEF Init
<1>2. /\ pc = "idle" /\ mode \in {"explicit", "transparent"}
      /\ mode = "explicit" => handles["intercept"] = None
  BY <1>1, Zenon DEF Init, start_explicit_components, Components
<1>3. ASSUME NEW c \in Owned PROVE RunsWith(c, active)
  <2>1. FakeDnsInstance(boot, 0) # None
    BY StartedIsSome, Zenon
  <2>2. CASE mode = "explicit"
    BY <1>1, <2>2, Zenon DEF Owned, RunsWith, start_explicit_components, Components, Listeners
  <2>3. CASE mode = "transparent"
    <3>1. /\ handles["http"] = HttpHandle(boot) /\ handles["tls"] = TlsHandle(boot)
          /\ handles["dns"] = FakeDnsInstance(boot, 0)
          /\ handles["intercept"] = InterceptBackendHandle(boot, 0)
      BY <1>1, <2>3, Zenon DEF start_transparent_components, Components, Listeners
    <3>2. handles["dns"].dns = boot.backend.dns /\ handles["dns"].born = 0
      BY <3>1 DEF FakeDnsInstance
    <3> QED
      BY <1>1, <2>1, <2>3, <3>1, <3>2, Zenon DEF Owned, RunsWith, Components, Listeners
  <2> QED
    BY <1>2, <2>2, <2>3, Zenon
<1> QED
  BY <1>2, <1>3, Zenon DEF ComponentsInv, Staged, DownPcs, DonePcs, Owned, Components, Listeners

\* What the plan leaves alone already runs with the settings of the next
\* configuration.
LEMMA PlanIsComplete ==
  ASSUME NEW c \in Owned, c \notin Plan, RunsWith(c, active),
         mode \in {"explicit", "transparent"}
  PROVE  RunsWith(c, next)
BY Zenon DEF Owned, Plan, ExplicitReloadPlan, TransparentReloadPlan, RunsWith, HttpHandle,
       TlsHandle, InterceptBackendHandle, Components, Listeners

\* A transparent reload that restarts anything restarts the intercept backend.
LEMMA InterceptFollows ==
  ASSUME mode = "transparent", NEW c \in Plan
  PROVE  "intercept" \in Plan
BY Zenon DEF Plan, TransparentReloadPlan, Components, Listeners

LEMMA ComponentsNext == TypeOK /\ ComponentsInv /\ [Next]_vars => ComponentsInv'
<1> SUFFICES ASSUME TypeOK, ComponentsInv, [Next]_vars PROVE ComponentsInv'
  BY Zenon
<1> USE DEF envVars, watchVars, pluginVars, reloadVars, runtimeVars
<1>0. /\ mode \in {"explicit", "transparent"} /\ active \in Configs /\ next \in Configs
      /\ nextGen \in Nat /\ DOMAIN handles = Components
  BY Zenon DEF TypeOK
<1>1. ASSUME UNCHANGED <<mode, pc, handles, active, next>> PROVE ComponentsInv'
  BY <1>1, ZenonT(40) DEF ComponentsInv, Staged, Owned, Plan, RunsWith
<1>2. CASE Edit \/ Settle \/ Exited \/ UNCHANGED vars
  BY <1>1, <1>2, Zenon DEF Edit, Settle, Exited, vars
<1>3. ASSUME NEW l \in Listeners, Connect(l) \/ Disconnect(l) PROVE ComponentsInv'
  BY <1>1, <1>3, Zenon DEF Connect, Disconnect
<1>4. CASE Watch
  BY <1>1, <1>4, Zenon DEF Watch, WatchStart, WatchPoll, WatchLoad, WatchSend, WatchExit
<1>5. ASSUME pc \in {"idle", "plugins", "rebuild", "quit_watch"},
             pc' \in {"idle", "plugins", "rebuild", "stop_intercept", "quit_watch",
                      "quit_intercept", "failed"},
             UNCHANGED <<mode, handles, active>>
      PROVE  ComponentsInv'
  <2>1. ASSUME NEW c \in Owned PROVE RunsWith(c, active)
    BY <1>5, Zenon DEF ComponentsInv, Staged, DownPcs, DonePcs, Owned, Components, Listeners, ReloadPcs
  <2>2. ASSUME NEW c \in Owned' PROVE RunsWith(c, active)'
    BY <1>5, <2>1, Zenon DEF Owned, RunsWith
  <2> QED
    BY <1>5, <2>2 DEF ComponentsInv, Staged, DownPcs, DonePcs, Owned, Components, Listeners
<1>6. CASE RecvReload \/ SnapshotRules \/ ReplaceRegistry \/ ShutdownSignal \/ QuitWatch
  BY <1>5, <1>6, Zenon DEF RecvReload, SnapshotRules, ReplaceRegistry, ShutdownSignal, QuitWatch, Fail
<1>7. CASE Commit
  <2>1. ASSUME NEW c \in Owned PROVE RunsWith(c, next)
    <3>1. c \in Plan => RunsWith(c, next)
      BY <1>7, Zenon DEF Commit, ComponentsInv, Staged, DonePcs, Owned, Components, Listeners, ReloadPcs
    <3>2. c \notin Plan => RunsWith(c, active)
      BY <1>7, Zenon DEF Commit, ComponentsInv, Staged, ReloadPcs
    <3> QED
      BY <1>0, <3>1, <3>2, PlanIsComplete, Zenon
  <2>2. ASSUME NEW c \in Owned' PROVE RunsWith(c, active)'
    BY <1>7, <2>1, Zenon DEF Commit, Owned, RunsWith
  <2> QED
    BY <1>7, <2>2, Zenon DEF Commit, ComponentsInv, Staged, DownPcs, DonePcs, Owned, Components, Listeners
<1>8. CASE QuitStep("intercept", "quit_intercept", "quit_dns")
  BY <1>0, <1>8, Zenon DEF QuitStep, ComponentsInv, ReloadPcs, Components
<1>9. ASSUME NEW c \in Components, NEW at \in {"quit_dns", "quit_http", "quit_tls"},
             NEW after \in {"quit_http", "quit_tls", "stopped"}, QuitStep(c, at, after)
      PROVE  ComponentsInv'
  BY <1>0, <1>9, Zenon DEF QuitStep, ComponentsInv, ReloadPcs, Components
<1>10. ASSUME pc' = "failed", UNCHANGED <<mode, handles>> PROVE ComponentsInv'
  BY <1>10, Zenon DEF ComponentsInv, ReloadPcs
<1>11. ASSUME pc \in ReloadPcs, UNCHANGED <<mode, active, next>>
       PROVE  /\ Owned' = Owned /\ Plan' = Plan
              /\ mode = "explicit" => Plan \subseteq {"http"}
  BY <1>11, Zenon DEF Owned, Plan, ExplicitReloadPlan
<1>12. CASE StopIntercept
  <2>1. pc = "stop_intercept" /\ pc' = "stop_dns" /\ UNCHANGED <<mode, active, next>>
    BY <1>12, Zenon DEF StopIntercept, StopStep
  <2>2. /\ "intercept" \in Plan => handles' = [handles EXCEPT !["intercept"] = None]
        /\ "intercept" \notin Plan => handles' = handles
    BY <1>12, Zenon DEF StopIntercept, StopStep
  <2>3. Owned' = Owned /\ Plan' = Plan /\ (mode = "explicit" => Plan \subseteq {"http"})
    BY <1>11, <2>1, Zenon DEF ReloadPcs
  <2>5. ASSUME NEW c \in Owned PROVE Staged(c)'
    <3>1. Staged(c) /\ c \in Components
      BY <2>1, Zenon DEF ComponentsInv, ReloadPcs, Owned, Components, Listeners
    <3> QED
      BY <1>0, <2>1, <2>2, <2>3, <3>1, ZenonT(40) DEF Staged, RunsWith, DownPcs, DonePcs, Components, Listeners
  <2> QED
    BY <1>0, <2>1, <2>2, <2>3, <2>5, Zenon DEF ComponentsInv, Components
<1>13. CASE StopDns
  <2>1. pc = "stop_dns" /\ pc' = "start_dns" /\ UNCHANGED <<mode, active, next>>
    BY <1>13, Zenon DEF StopDns, StopStep
  <2>2. /\ "dns" \in Plan => handles' = [handles EXCEPT !["dns"] = None]
        /\ "dns" \notin Plan => handles' = handles
    BY <1>13, Zenon DEF StopDns, StopStep
  <2>3. Owned' = Owned /\ Plan' = Plan /\ (mode = "explicit" => Plan \subseteq {"http"})
    BY <1>11, <2>1, Zenon DEF ReloadPcs
  <2>4. mode = "transparent" /\ "dns" \in Plan => "intercept" \in Plan
    BY InterceptFollows, Zenon
  <2>5. ASSUME NEW c \in Owned PROVE Staged(c)'
    <3>1. Staged(c) /\ c \in Components
      BY <2>1, Zenon DEF ComponentsInv, ReloadPcs, Owned, Components, Listeners
    <3> QED
      BY <1>0, <2>1, <2>2, <2>3, <3>1, <2>4, ZenonT(40) DEF Staged, RunsWith, DownPcs, DonePcs, Components, Listeners
  <2> QED
    BY <1>0, <2>1, <2>2, <2>3, <2>5, Zenon DEF ComponentsInv, Components
<1>14. CASE StartDns
  <2>1. pc = "start_dns" /\ UNCHANGED <<mode, active, next>>
    BY <1>14, Zenon DEF StartDns, StartStep
  <2>2. CASE pc' = "failed"
    BY <1>10, <1>14, <2>2, Zenon DEF StartDns, StartStep, Fail
  <2>3. CASE pc' = "stop_http"
    <3>1. /\ "dns" \in Plan => handles' = [handles EXCEPT !["dns"] = FakeDnsInstance(next, nextGen)]
          /\ "dns" \notin Plan => handles' = handles
      BY <1>14, <2>3, Zenon DEF StartDns, StartStep, Started, Fail
    <3>2. Owned' = Owned /\ Plan' = Plan /\ (mode = "explicit" => Plan \subseteq {"http"})
      BY <1>11, <2>1, Zenon DEF ReloadPcs
    <3>3. mode = "transparent" /\ "dns" \in Plan => "intercept" \in Plan
      BY InterceptFollows, Zenon
    <3>4. LET d == FakeDnsInstance(next, nextGen) IN d # None /\ d.dns = next.backend.dns
      BY <1>0, StartedIsSome, Zenon DEF FakeDnsInstance
    <3>5. ASSUME NEW c \in Owned PROVE Staged(c)'
      <4>1. Staged(c) /\ c \in Components
        BY <2>1, Zenon DEF ComponentsInv, ReloadPcs, Owned, Components, Listeners
      <4> QED
        BY <1>0, <2>1, <2>3, <3>1, <3>2, <4>1, <3>3, <3>4, ZenonT(40) DEF Staged, RunsWith, DownPcs, DonePcs,
           Components, Listeners
    <3> QED
      BY <1>0, <2>1, <2>3, <3>1, <3>2, <3>5, Zenon DEF ComponentsInv, Components
  <2> QED
    BY <1>14, <2>2, <2>3, Zenon DEF StartDns, StartStep, Fail
<1>15. CASE StopHttp
  <2>1. pc = "stop_http" /\ pc' = "start_http" /\ UNCHANGED <<mode, active, next>>
    BY <1>15, Zenon DEF StopHttp, StopStep
  <2>2. /\ "http" \in Plan => handles' = [handles EXCEPT !["http"] = None]
        /\ "http" \notin Plan => handles' = handles
    BY <1>15, Zenon DEF StopHttp, StopStep
  <2>3. Owned' = Owned /\ Plan' = Plan /\ (mode = "explicit" => Plan \subseteq {"http"})
    BY <1>11, <2>1, Zenon DEF ReloadPcs
  <2>5. ASSUME NEW c \in Owned PROVE Staged(c)'
    <3>1. Staged(c) /\ c \in Components
      BY <2>1, Zenon DEF ComponentsInv, ReloadPcs, Owned, Components, Listeners
    <3> QED
      BY <1>0, <2>1, <2>2, <2>3, <3>1, ZenonT(40) DEF Staged, RunsWith, DownPcs, DonePcs, Components, Listeners
  <2> QED
    BY <1>0, <2>1, <2>2, <2>3, <2>5, Zenon DEF ComponentsInv, Components
<1>16. CASE StartHttp
  <2>1. pc = "start_http" /\ UNCHANGED <<mode, active, next>>
    BY <1>16, Zenon DEF StartHttp, StartStep
  <2>2. CASE pc' = "failed"
    BY <1>10, <1>16, <2>2, Zenon DEF StartHttp, StartStep, Fail
  <2>3. CASE pc' = "stop_tls"
    <3>1. /\ "http" \in Plan => handles' = [handles EXCEPT !["http"] = HttpHandle(next)]
          /\ "http" \notin Plan => handles' = handles
      BY <1>16, <2>3, Zenon DEF StartHttp, StartStep, Started, Fail
    <3>2. Owned' = Owned /\ Plan' = Plan /\ (mode = "explicit" => Plan \subseteq {"http"})
      BY <1>11, <2>1, Zenon DEF ReloadPcs
    <3>5. ASSUME NEW c \in Owned PROVE Staged(c)'
      <4>1. Staged(c) /\ c \in Components
        BY <2>1, Zenon DEF ComponentsInv, ReloadPcs, Owned, Components, Listeners
      <4> QED
        BY <1>0, <2>1, <2>3, <3>1, <3>2, <4>1, ZenonT(40) DEF Staged, RunsWith, DownPcs, DonePcs,
           Components, Listeners
    <3> QED
      BY <1>0, <2>1, <2>3, <3>1, <3>2, <3>5, ZenonT(40) DEF ComponentsInv, Components
  <2> QED
    BY <1>16, <2>2, <2>3, Zenon DEF StartHttp, StartStep, Fail
<1>17. CASE StopTls
  <2>1. pc = "stop_tls" /\ pc' = "start_tls" /\ UNCHANGED <<mode, active, next>>
    BY <1>17, Zenon DEF StopTls, StopStep
  <2>2. /\ "tls" \in Plan => handles' = [handles EXCEPT !["tls"] = None]
        /\ "tls" \notin Plan => handles' = handles
    BY <1>17, Zenon DEF StopTls, StopStep
  <2>3. Owned' = Owned /\ Plan' = Plan /\ (mode = "explicit" => Plan \subseteq {"http"})
    BY <1>11, <2>1, Zenon DEF ReloadPcs
  <2>5. ASSUME NEW c \in Owned PROVE Staged(c)'
    <3>1. Staged(c) /\ c \in Components
      BY <2>1, Zenon DEF ComponentsInv, ReloadPcs, Owned, Components, Listeners
    <3> QED
      BY <1>0, <2>1, <2>2, <2>3, <3>1, ZenonT(40) DEF Staged, RunsWith, DownPcs, DonePcs, Components, Listeners
  <2> QED
    BY <1>0, <2>1, <2>2, <2>3, <2>5, Zenon DEF ComponentsInv, Components
<1>18. CASE StartTls
  <2>1. pc = "start_tls" /\ UNCHANGED <<mode, active, next>>
    BY <1>18, Zenon DEF StartTls, StartStep
  <2>2. CASE pc' = "failed"
    BY <1>10, <1>18, <2>2, Zenon DEF StartTls, StartStep, Fail
  <2>3. CASE pc' = "start_intercept"
    <3>1. /\ "tls" \in Plan => handles' = [handles EXCEPT !["tls"] = TlsHandle(next)]
          /\ "tls" \notin Plan => handles' = handles
      BY <1>18, <2>3, Zenon DEF StartTls, StartStep, Started, Fail
    <3>2. Owned' = Owned /\ Plan' = Plan /\ (mode = "explicit" => Plan \subseteq {"http"})
      BY <1>11, <2>1, Zenon DEF ReloadPcs
    <3>5. ASSUME NEW c \in Owned PROVE Staged(c)'
      <4>1. Staged(c) /\ c \in Components
        BY <2>1, Zenon DEF ComponentsInv, ReloadPcs, Owned, Components, Listeners
      <4> QED
        BY <1>0, <2>1, <2>3, <3>1, <3>2, <4>1, ZenonT(40) DEF Staged, RunsWith, DownPcs, DonePcs,
           Components, Listeners
    <3> QED
      BY <1>0, <2>1, <2>3, <3>1, <3>2, <3>5, Zenon DEF ComponentsInv, Components
  <2> QED
    BY <1>18, <2>2, <2>3, Zenon DEF StartTls, StartStep, Fail
<1>19. CASE StartIntercept
  <2>1. pc = "start_intercept" /\ UNCHANGED <<mode, active, next>>
    BY <1>19, Zenon DEF StartIntercept, StartStep
  <2>2. CASE pc' = "failed"
    BY <1>10, <1>19, <2>2, Zenon DEF StartIntercept, StartStep, Fail
  <2>3. CASE pc' = "commit"
    <3>1. /\ "intercept" \in Plan => handles' = [handles EXCEPT !["intercept"] = InterceptBackendHandle(next, handles["dns"].born)]
          /\ "intercept" \notin Plan => handles' = handles
      BY <1>19, <2>3, Zenon DEF StartIntercept, StartStep, Started, Fail
    <3>2. Owned' = Owned /\ Plan' = Plan /\ (mode = "explicit" => Plan \subseteq {"http"})
      BY <1>11, <2>1, Zenon DEF ReloadPcs
    <3>3. mode = "transparent" => handles["dns"] # None
      <4>1. mode = "transparent" => Staged("dns")
        BY <2>1, Zenon DEF ComponentsInv, Owned, Components, ReloadPcs
      <4> QED
        BY <2>1, <4>1, Zenon DEF Staged, DownPcs, DonePcs, RunsWith
    <3>5. ASSUME NEW c \in Owned PROVE Staged(c)'
      <4>1. Staged(c) /\ c \in Components
        BY <2>1, Zenon DEF ComponentsInv, ReloadPcs, Owned, Components, Listeners
      <4> QED
        BY <1>0, <2>1, <2>3, <3>1, <3>2, <4>1, <3>3, ZenonT(40) DEF Staged, RunsWith, DownPcs, DonePcs,
           Components, Listeners
    <3> QED
      BY <1>0, <2>1, <2>3, <3>1, <3>2, <3>5, Zenon DEF ComponentsInv, Components
  <2> QED
    BY <1>19, <2>2, <2>3, Zenon DEF StartIntercept, StartStep, Fail
<1> QED
  <2>1. CASE Reload
    BY <2>1, <1>6, <1>7, <1>12, <1>13, <1>14, <1>15, <1>16, <1>17, <1>18, <1>19, Zenon DEF Reload
  <2>2. CASE Quit
    BY <2>2, <1>6, <1>8, <1>9, Zenon DEF Quit, Components, Listeners
  <2> QED
    BY <1>2, <1>3, <1>4, <1>6, <2>1, <2>2, Zenon DEF Next

\* Back at its select, the runtime runs every component with the settings of
\* the active configuration.
THEOREM ComponentsCorrect == Spec => []ComponentsMatchConfig
<1>1. ComponentsInv => ComponentsMatchConfig
  BY Zenon DEF ComponentsInv, Staged, ComponentsMatchConfig, DownPcs, DonePcs, Owned, Components,
         Listeners
<1> QED
  BY TypeInit, TypeNext, ComponentsInit, ComponentsNext, <1>1, PTL DEF Spec

LEMMA CaptureFromComponents == TypeOK /\ ComponentsInv => CaptureHasTargets
<1> SUFFICES ASSUME TypeOK, ComponentsInv, ~Halted, handles["intercept"] # None
             PROVE  /\ handles["http"] = handles["intercept"].listen
                    /\ handles["tls"] = handles["intercept"].tls
                    /\ handles["dns"] # None
                    /\ handles["intercept"].server = handles["dns"].born
  BY Zenon DEF CaptureHasTargets
<1>1. /\ mode = "transparent"
      /\ pc \in {"idle", "quit_watch", "quit_intercept"} \cup ReloadPcs
  BY Zenon DEF TypeOK, ComponentsInv, Halted, QuitPcs
<1>2. \A c \in Components : Staged(c)
  BY <1>1, Zenon DEF ComponentsInv, Owned
<1>3. ASSUME NEW cfg, \A c \in Components : RunsWith(c, cfg)
      PROVE  /\ handles["http"] = handles["intercept"].listen
             /\ handles["tls"] = handles["intercept"].tls
             /\ handles["dns"] # None
             /\ handles["intercept"].server = handles["dns"].born
  <2>1. /\ RunsWith("http", cfg) /\ RunsWith("tls", cfg) /\ RunsWith("intercept", cfg)
    BY <1>3, Zenon DEF Components, Listeners
  <2> QED
    BY <2>1 DEF RunsWith, HttpHandle, TlsHandle, InterceptBackendHandle
<1>4. CASE "intercept" \notin Plan
  <2>1. ASSUME NEW c \in Components PROVE RunsWith(c, active)
    BY <1>1, <1>2, <1>4, InterceptFollows, Zenon DEF Staged
  <2> QED
    BY <1>3, <2>1, Zenon
<1>5. CASE "intercept" \in Plan /\ pc = "commit"
  <2>1. ASSUME NEW c \in Components PROVE RunsWith(c, next)
    <3>1. c \in Plan => RunsWith(c, next)
      BY <1>2, <1>5, Zenon DEF Staged, DonePcs, Components, Listeners
    <3>2. c \notin Plan => RunsWith(c, active)
      BY <1>2, Zenon DEF Staged
    <3> QED
      BY <1>1, <3>1, <3>2, PlanIsComplete, Zenon DEF Owned
  <2> QED
    BY <1>3, <2>1, Zenon
<1>6. CASE "intercept" \in Plan /\ pc # "commit"
  <2>1. pc \notin DownPcs("intercept")
    BY <1>2, <1>6, Zenon DEF Staged, Components
  <2>2. ASSUME NEW c \in Components PROVE RunsWith(c, active)
    <3>1. pc \notin DownPcs(c) \cup DonePcs(c)
      BY <1>1, <1>6, <2>1, Zenon DEF DownPcs, DonePcs, Components, Listeners, ReloadPcs
    <3> QED
      BY <1>2, <3>1, Zenon DEF Staged
  <2> QED
    BY <1>3, <2>2, Zenon
<1> QED
  BY <1>4, <1>5, <1>6, Zenon

\* While traffic is captured, the listeners and the fake DNS server it is
\* redirected to are the running ones, at every step of a reload or a shutdown.
THEOREM CaptureCorrect == Spec => []CaptureHasTargets
BY TypeInit, TypeNext, ComponentsInit, ComponentsNext, CaptureFromComponents, PTL DEF Spec

-----------------------------------------------------------------------------
(* Connections.                                                            *)

LEMMA DrainedInit == Init => StoppedIsDrained
BY Zenon DEF Init, StoppedIsDrained

LEMMA DrainedNext == TypeOK /\ StoppedIsDrained /\ [Next]_vars => StoppedIsDrained'
<1> SUFFICES ASSUME TypeOK, StoppedIsDrained, [Next]_vars PROVE StoppedIsDrained'
  BY Zenon
<1> USE DEF envVars, watchVars, pluginVars, reloadVars, runtimeVars
<1>0. /\ DOMAIN handles = Components /\ conns \in [Listeners -> Nat]
      /\ next \in Configs /\ nextGen \in Nat
  BY Zenon DEF TypeOK
<1>1. ASSUME UNCHANGED <<handles, conns>> PROVE StoppedIsDrained'
  BY <1>1, Zenon DEF StoppedIsDrained
<1>2. CASE Edit \/ Settle \/ ShutdownSignal \/ QuitWatch \/ Exited \/ UNCHANGED vars
  BY <1>1, <1>2, Zenon DEF Edit, Settle, ShutdownSignal, QuitWatch, Exited, vars
<1>3. ASSUME NEW l \in Listeners, Connect(l) \/ Disconnect(l) PROVE StoppedIsDrained'
  BY <1>0, <1>3 DEF Connect, Disconnect, StoppedIsDrained
<1>4. CASE Watch
  BY <1>1, <1>4, Zenon DEF Watch, WatchStart, WatchPoll, WatchLoad, WatchSend, WatchExit
<1>5. CASE RecvReload \/ SnapshotRules \/ ReplaceRegistry \/ Commit
  BY <1>1, <1>5, Zenon DEF RecvReload, SnapshotRules, ReplaceRegistry, Commit
<1>6. ASSUME NEW c \in Components, NEW at, NEW after,
             StopStep(c, at, after) \/ QuitStep(c, at, after)
      PROVE  StoppedIsDrained'
  BY <1>0, <1>6, Zenon DEF StopStep, QuitStep, StoppedIsDrained, Components
<1>7. ASSUME NEW c \in Components, NEW at, NEW after, StartStep(c, at, after)
      PROVE  StoppedIsDrained'
  <2>1. CASE UNCHANGED handles
    BY <1>1, <1>7, <2>1, Zenon DEF StartStep
  <2>2. CASE handles' = [handles EXCEPT ![c] = Started(c, next, nextGen)]
    <3>1. c \in Listeners => Started(c, next, nextGen) # None
      BY <1>0, StartedIsSome, Zenon DEF Started, Listeners
    <3> QED
      BY <1>0, <1>7, <2>2, <3>1, Zenon DEF StartStep, StoppedIsDrained, Components
  <2> QED
    BY <1>7, <2>1, <2>2, Zenon DEF StartStep
<1>8. CASE Reload
  BY <1>5, <1>6, <1>7, <1>8, Zenon
     DEF Reload, StopIntercept, StopDns, StopHttp, StopTls, StartIntercept, StartDns,
         StartHttp, StartTls, Components, Listeners
<1>9. CASE Quit
  BY <1>2, <1>6, <1>9, Zenon DEF Quit, Components, Listeners
<1> QED
  BY <1>2, <1>3, <1>4, <1>8, <1>9, Zenon DEF Next

\* A listener that is down has no connection left.
THEOREM DrainedCorrect == Spec => []StoppedIsDrained
BY TypeInit, TypeNext, DrainedInit, DrainedNext, PTL DEF Spec

-----------------------------------------------------------------------------
(* Rules and plugins.  QuietIsConsistent speaks of the quiet states; the   *)
(* inductive invariant says whose rules are live while a load, a queued    *)
(* request or a reload is on its way.                                      *)

\* The registry of rules and plugins: what the load in progress, the newest
\* queued request or the configuration being applied asks for.
RulesInv ==
  pc # "failed" =>
    /\ pc = "idle" => next = active
    /\ watchPc = "send" => liveRules = loaded.rules
    /\ (watchPc # "send" /\ queue # <<>>) => liveRules = queue[Len(queue)].config.rules
    /\ (watchPc # "send" /\ queue = <<>>) =>
         /\ liveRules = next.rules
         /\ pc \in ReloadPcs \ {"plugins"} => snap = liveRules
         /\ pc = "idle" => livePlugins = [options |-> next.plugins, rules |-> liveRules]
    /\ pc \in ReloadPcs \ {"plugins", "rebuild"} =>
         livePlugins = [options |-> next.plugins, rules |-> snap]

WatchInv ==
  pc \in {"quit_intercept", "quit_dns", "quit_http", "quit_tls", "stopped"} =>
    watchPc \in {"off", "stopped"}

LEMMA RulesInit == Init => RulesInv /\ WatchInv
BY Zenon DEF Init, RulesInv, WatchInv, ReloadPcs

LEMMA WatchNext == WatchInv /\ [Next]_vars => WatchInv'
<1> SUFFICES ASSUME WatchInv, [Next]_vars PROVE WatchInv'
  BY Zenon
<1> USE DEF envVars, watchVars, pluginVars, reloadVars, runtimeVars, WatchInv
<1>1. CASE Edit \/ Settle \/ ShutdownSignal \/ Exited \/ UNCHANGED vars
  BY <1>1, Zenon DEF Edit, Settle, ShutdownSignal, Exited, vars
<1>2. ASSUME NEW l \in Listeners, Connect(l) \/ Disconnect(l) PROVE WatchInv'
  BY <1>2, Zenon DEF Connect, Disconnect
<1>3. CASE Watch
  BY <1>3, Zenon DEF Watch, WatchStart, WatchPoll, WatchLoad, WatchSend, WatchExit, Processed
<1>4. CASE Reload
  BY <1>4, Zenon DEF Reload, RecvReload, SnapshotRules, ReplaceRegistry, Commit, StopIntercept,
              StopDns, StopHttp, StopTls, StartIntercept, StartDns, StartHttp, StartTls,
              StopStep, StartStep, Fail
<1>5. CASE Quit
  BY <1>5, Zenon DEF Quit, QuitWatch, QuitStep
<1> QED
  BY <1>1, <1>2, <1>3, <1>4, <1>5, Zenon DEF Next

LEMMA FailedStays == [Next]_vars /\ pc = "failed" => pc' = "failed"
<1> SUFFICES ASSUME [Next]_vars, pc = "failed" PROVE pc' = "failed"
  BY Zenon
<1>1. CASE Edit \/ Settle \/ ShutdownSignal \/ Exited \/ UNCHANGED vars
  BY <1>1, Zenon DEF Edit, Settle, ShutdownSignal, Exited, vars
<1>2. CASE \E l \in Listeners : Connect(l) \/ Disconnect(l)
  BY <1>2, Zenon DEF Connect, Disconnect
<1>3. CASE Watch
  BY <1>3, Zenon DEF Watch, WatchStart, WatchPoll, WatchLoad, WatchSend, WatchExit, runtimeVars
<1>4. CASE Reload
  BY <1>4, Zenon DEF Reload, RecvReload, SnapshotRules, ReplaceRegistry, Commit, StopIntercept,
              StopDns, StopHttp, StopTls, StartIntercept, StartDns, StartHttp, StartTls,
              StopStep, StartStep
<1>5. CASE Quit
  BY <1>5, Zenon DEF Quit, QuitWatch, QuitStep
<1> QED
  BY <1>1, <1>2, <1>3, <1>4, <1>5, Zenon DEF Next

LEMMA RulesNext ==
  TypeOK /\ GenerationsAscend /\ RulesInv /\ WatchInv /\ [Next]_vars => RulesInv'
<1> SUFFICES ASSUME TypeOK, GenerationsAscend, RulesInv, WatchInv, [Next]_vars
             PROVE  RulesInv'
  BY Zenon
<1> SUFFICES ASSUME pc # "failed", pc' # "failed" PROVE RulesInv'
  BY FailedStays, Zenon DEF RulesInv
<1> USE DEF envVars, watchVars, pluginVars, reloadVars, runtimeVars
<1>1. ASSUME UNCHANGED <<pc, next, active, watchPc, liveRules, loaded, queue, snap, livePlugins>>
      PROVE  RulesInv'
  BY <1>1, Zenon DEF RulesInv
<1>2. CASE Edit \/ Settle \/ Exited \/ UNCHANGED vars
  BY <1>1, <1>2, Zenon DEF Edit, Settle, Exited, vars
<1>3. ASSUME NEW l \in Listeners, Connect(l) \/ Disconnect(l) PROVE RulesInv'
  BY <1>1, <1>3, Zenon DEF Connect, Disconnect
<1>4. CASE WatchStart \/ WatchPoll \/ WatchExit
  BY <1>4, Zenon DEF WatchStart, WatchPoll, WatchExit, RulesInv
<1>5. CASE WatchLoad
  BY <1>5, Zenon DEF WatchLoad, Processed, RulesInv
<1>6. CASE WatchSend
  <2> DEFINE request == [generation |-> nextGeneration, config |-> loaded]
  <2>1. request \in ConfigReloadRequests /\ request.config = loaded
    BY <1>6, Zenon DEF WatchSend, ConfigReloadRequests, TypeOK
  <2>2. queue' = Append(queue, request)
    BY <1>6, Zenon DEF WatchSend
  <2>3. queue' # <<>> /\ queue'[Len(queue')] = request
    <3> HIDE DEF request
    <3>1. queue \in Seq(ConfigReloadRequests)
      BY Zenon DEF TypeOK
    <3> QED
      BY <2>1, <2>2, <3>1, AppendProperties
  <2>4. liveRules = loaded.rules
    BY <1>6, Zenon DEF WatchSend, RulesInv
  <2> HIDE DEF request
  <2> QED
    BY <1>6, <2>1, <2>3, <2>4, Zenon DEF WatchSend, Processed, RulesInv
<1>7. CASE RecvReload
  <2>1. /\ Len(queue) \in DOMAIN queue /\ queue[Len(queue)] \in ConfigReloadRequests
    BY <1>7 DEF RecvReload, TypeOK
  <2>2. queue[Len(queue)].generation \in Nat
    BY <2>1, Zenon DEF ConfigReloadRequests
  <2>3. activeGen < queue[Len(queue)].generation
    BY <2>1, <2>2, SMTT(30) DEF GenerationsAscend, TypeOK
  <2>4. /\ next' = queue[Len(queue)].config /\ pc' = "plugins" /\ queue' = <<>>
        /\ queue # <<>> /\ UNCHANGED <<watchPc, loaded, liveRules>>
    BY <1>7, <2>2, <2>3 DEF RecvReload, TypeOK
  <2> QED
    BY <2>4, ZenonT(40) DEF RulesInv
<1>8. CASE SnapshotRules
  BY <1>8, Zenon DEF SnapshotRules, RulesInv
<1>9. CASE ReplaceRegistry
  BY <1>9, Zenon DEF ReplaceRegistry, RulesInv, Fail, ReloadPcs
<1>10. CASE StopIntercept \/ StopDns \/ StopHttp \/ StopTls
  BY <1>10, Zenon DEF StopIntercept, StopDns, StopHttp, StopTls, StopStep, RulesInv, ReloadPcs
<1>11. CASE StartIntercept \/ StartDns \/ StartHttp \/ StartTls
  BY <1>11, Zenon DEF StartIntercept, StartDns, StartHttp, StartTls, StartStep, Fail, RulesInv,
               ReloadPcs
<1>12. CASE Commit
  BY <1>12, Zenon DEF Commit, RulesInv, ReloadPcs
<1>13. CASE ShutdownSignal \/ Quit
  BY <1>13, Zenon DEF ShutdownSignal, Quit, QuitWatch, QuitStep, RulesInv, ReloadPcs
<1> QED
  BY <1>2, <1>3, <1>4, <1>5, <1>6, <1>7, <1>8, <1>9, <1>10, <1>11, <1>12, <1>13, ZenonT(40)
     DEF Next, Watch, Reload

\* When nothing is queued or being applied, live rules, plugin registry and
\* active configuration come from one load of the file.
THEOREM QuietCorrect == Spec => []QuietIsConsistent
<1>1. RulesInv => QuietIsConsistent
  BY Zenon DEF RulesInv, QuietIsConsistent
<1> QED
  BY TypeInit, TypeNext, GenerationsInit, GenerationsNext, RulesInit, WatchNext, RulesNext,
     <1>1, PTL DEF Spec

-----------------------------------------------------------------------------
(* The file.  ConfigFollowsFile speaks of the states where all is done; the *)
(* inductive invariant follows the newest configuration on its way: loaded, *)
(* queued or being applied.                                                *)

\* The configuration that will be active once everything under way is done.
Newest ==
  IF watchPc = "send" THEN loaded
  ELSE IF queue # <<>> THEN queue[Len(queue)].config ELSE next

\* A modification time that is remembered is not ahead of the file, and the newest
\* configuration is the file's whenever the time remembered is the file's too.
FollowInv ==
  /\ last <= file.mtime /\ pending <= file.mtime
  /\ pc # "failed" =>
       /\ (watchPc = "starting" /\ ~file.early) => Newest = file.body
       /\ (watchPc = "polling" /\ last = file.mtime /\ ~file.early /\ file.body # Bad) =>
            Newest = file.body
       /\ (watchPc = "send" /\ pending = file.mtime) => loaded = file.body

\* Before the watch starts, the file is what the process was started with.
LEMMA FollowInit == Init => FollowInv
<1> SUFFICES ASSUME Init PROVE FollowInv
  BY Zenon
<1>1. file.mtime = 0 /\ file.body = next /\ last = -1 /\ pending = -1
  BY DEF Init, NoTime
<1>2. queue = <<>> /\ watchPc \in {"off", "starting"}
  BY Zenon DEF Init
<1>3. Newest = file.body
  BY <1>1, <1>2, Zenon DEF Newest
<1> QED
  BY <1>1, <1>2, <1>3 DEF FollowInv

\* A request taken from the channel is the newest configuration, and its generation
\* is newer than the active one, so it is applied.
LEMMA RecvKeepsNewest ==
  ASSUME TypeOK, GenerationsAscend, RecvReload
  PROVE  Newest' = Newest
<1>1. Len(queue) \in DOMAIN queue /\ queue[Len(queue)] \in ConfigReloadRequests
  BY DEF RecvReload, TypeOK
<1>2. queue[Len(queue)].generation \in Nat
  BY <1>1, Zenon DEF ConfigReloadRequests
<1>3. activeGen < queue[Len(queue)].generation
  BY <1>1, <1>2, SMTT(30) DEF GenerationsAscend, TypeOK
<1>4. /\ next' = queue[Len(queue)].config /\ queue' = <<>>
      /\ queue # <<>> /\ UNCHANGED <<watchPc, loaded>>
  BY <1>2, <1>3 DEF RecvReload, TypeOK, watchVars
<1> QED
  BY <1>4, Zenon DEF Newest

LEMMA FollowNext ==
  TypeOK /\ GenerationsAscend /\ FollowInv /\ [Next]_vars => FollowInv'
<1> SUFFICES ASSUME TypeOK, GenerationsAscend, FollowInv, [Next]_vars
             PROVE  FollowInv'
  BY Zenon
<1> USE DEF envVars, watchVars, pluginVars, reloadVars, runtimeVars
<1>t. /\ file.mtime \in Nat /\ file.settled \in BOOLEAN /\ file.early \in BOOLEAN
      /\ last \in Nat \cup {-1} /\ pending \in Nat \cup {-1}
  BY Zenon DEF TypeOK, FileStates, NoTime
<1>1. ASSUME UNCHANGED <<file, watchPc, last, pending, loaded>>, Newest' = Newest
      PROVE  FollowInv'
  BY <1>1, FailedStays, Zenon DEF FollowInv
<1>2. ASSUME UNCHANGED <<file, watchPc, last, pending, loaded, queue, next>>
      PROVE  FollowInv'
  BY <1>1, <1>2, Zenon DEF Newest
<1>3. CASE Edit
  <2>1. PICK b \in Configs \cup {Bad} :
          file' = [mtime |-> file.mtime + 1, body |-> b, settled |-> FALSE,
                   early |-> watchPc = "starting"]
    BY <1>3, Zenon DEF Edit
  <2>2. file'.mtime = file.mtime + 1
    BY <2>1
  <2>3. watchPc = "starting" => file'.early
    BY <2>1, Zenon
  <2>4. UNCHANGED <<watchPc, last, pending>>
    BY <1>3, Zenon DEF Edit
  <2>5. /\ last' <= file'.mtime /\ last' # file'.mtime
        /\ pending' <= file'.mtime /\ pending' # file'.mtime
    BY <1>t, <2>2, <2>4 DEF FollowInv
  <2> QED
    BY <2>3, <2>4, <2>5, Zenon DEF FollowInv
<1>4. CASE Settle
  <2>1. /\ file'.mtime = file.mtime /\ file'.body = file.body /\ file'.early = file.early
        /\ UNCHANGED <<watchPc, last, pending, loaded, queue, next, pc>>
    BY <1>4 DEF Settle, TypeOK, FileStates
  <2>2. Newest' = Newest
    BY <2>1, Zenon DEF Newest
  <2> QED
    BY <2>1, <2>2, Zenon DEF FollowInv
<1>5. CASE WatchStart
  <2>1. Newest' = Newest
    BY <1>5, Zenon DEF WatchStart, Newest
  <2>2. last' = file.mtime \/ last' = -1
    BY <1>5, Zenon DEF WatchStart, NoTime
  <2>3. last' <= file.mtime
    BY <2>2, <1>t
  <2> QED
    BY <1>5, <2>1, <2>3, Zenon DEF WatchStart, FollowInv
<1>6. CASE WatchPoll
  <2>1. last # file.mtime
    BY <1>6, <1>t DEF WatchPoll
  <2>2. pending' = file.mtime \/ pending' = pending
    BY <1>6, Zenon DEF WatchPoll
  <2>3. pending' <= file.mtime
    BY <2>2, <1>t DEF FollowInv
  <2>4. UNCHANGED <<file, last, pc>> /\ watchPc' \in {"polling", "load"}
    BY <1>6, Zenon DEF WatchPoll
  <2> QED
    BY <2>1, <2>3, <2>4, Zenon DEF FollowInv
<1>7. CASE WatchLoad
  <2>1. -1 <= file.mtime
    BY <1>t
  <2>2. UNCHANGED <<file, pc>>
    BY <1>7, Zenon DEF WatchLoad
  <2>3. CASE file.body = Bad
    <3>1. last' = pending /\ pending' = -1 /\ watchPc' = "polling"
      BY <1>7, <2>3, Zenon DEF WatchLoad, Processed, NoTime
    <3> QED
      BY <2>1, <2>2, <2>3, <3>1, Zenon DEF FollowInv
  <2>4. CASE file.body # Bad
    <3>1. loaded' = file.body /\ watchPc' = "send" /\ UNCHANGED <<last, pending>>
      BY <1>7, <2>4, Zenon DEF WatchLoad
    <3> QED
      BY <2>2, <3>1, Zenon DEF FollowInv
  <2> QED
    BY <2>3, <2>4, Zenon
<1>8. CASE WatchSend
  <2>1. -1 <= file.mtime
    BY <1>t
  <2>2. /\ UNCHANGED <<file, pc>> /\ watchPc = "send" /\ watchPc' = "polling"
        /\ last' = pending /\ pending' = -1
    BY <1>8, Zenon DEF WatchSend, Processed, NoTime
  <2>3. ASSUME pc # "failed" PROVE Newest' = loaded
    <3>1. PICK request : request = [generation |-> nextGeneration, config |-> loaded]
      BY Zenon
    <3>2. request \in ConfigReloadRequests /\ request.config = loaded
      BY <2>2, <3>1 DEF ConfigReloadRequests, TypeOK
    <3>3. queue' = Append(queue, request)
      BY <1>8, <2>3, <3>1, Zenon DEF WatchSend
    <3>4. queue \in Seq(ConfigReloadRequests)
      BY Zenon DEF TypeOK
    <3>5. queue' # <<>> /\ queue'[Len(queue')] = request
      BY <3>2, <3>3, <3>4, AppendProperties
    <3> QED
      BY <2>2, <3>2, <3>5, Zenon DEF Newest
  <2> QED
    BY <2>1, <2>2, <2>3, Zenon DEF FollowInv
<1>9. CASE WatchExit
  BY <1>9, Zenon DEF WatchExit, FollowInv
<1>10. CASE RecvReload
  BY <1>1, <1>10, RecvKeepsNewest, Zenon DEF RecvReload
<1>11. CASE Reload /\ ~RecvReload
  BY <1>2, <1>11, Zenon DEF Reload, SnapshotRules, ReplaceRegistry, Commit, StopIntercept,
              StopDns, StopHttp, StopTls, StartIntercept, StartDns, StartHttp, StartTls,
              StopStep, StartStep
<1>12. CASE ShutdownSignal \/ Quit \/ Exited \/ UNCHANGED vars
  BY <1>2, <1>12, Zenon DEF ShutdownSignal, Quit, QuitWatch, QuitStep, Exited, vars
<1>13. CASE \E l \in Listeners : Connect(l) \/ Disconnect(l)
  BY <1>2, <1>13, Zenon DEF Connect, Disconnect
<1> QED
  BY <1>3, <1>4, <1>5, <1>6, <1>7, <1>8, <1>9, <1>10, <1>11, <1>12, <1>13, ZenonT(40)
     DEF Next, Watch

\* A watch that has nothing left to do has left the file's content running, for
\* every sequence of edits.
THEOREM FollowsCorrect == Spec => []ConfigFollowsFile
<1>1. RulesInv /\ FollowInv => ConfigFollowsFile
  <2> SUFFICES ASSUME RulesInv, FollowInv,
                      pc = "idle", queue = <<>>, watchPc = "polling",
                      last = file.mtime, ~file.early, file.body # Bad
               PROVE  active = file.body /\ liveRules = file.body.rules
    BY Zenon DEF ConfigFollowsFile
  <2>1. next = active /\ liveRules = next.rules
    BY Zenon DEF RulesInv
  <2>2. next = file.body
    BY Zenon DEF FollowInv, Newest
  <2> QED
    BY <2>1, <2>2, Zenon
<1> QED
  BY TypeInit, TypeNext, GenerationsInit, GenerationsNext, RulesInit, WatchNext, RulesNext,
     FollowInit, FollowNext, <1>1, PTL DEF Spec

-----------------------------------------------------------------------------
(* What a step never does.                                                 *)

LEMMA StepOnlyForward ==
  ASSUME TypeOK, GenerationsAscend, WatchInv, [Next]_vars
  PROVE  /\ active' # active => activeGen' > activeGen
         /\ Halted => UNCHANGED <<active, livePlugins, handles>>
         /\ pc = "stopped" => UNCHANGED liveRules
<1> USE DEF envVars, watchVars, pluginVars, reloadVars, runtimeVars, Halted
<1>1. CASE Edit \/ Settle \/ ShutdownSignal \/ Exited \/ UNCHANGED vars
  BY <1>1, Zenon DEF Edit, Settle, ShutdownSignal, Exited, vars
<1>2. CASE \E l \in Listeners : Connect(l) \/ Disconnect(l)
  BY <1>2, Zenon DEF Connect, Disconnect
<1>3. CASE Watch
  BY <1>3, Zenon DEF Watch, WatchStart, WatchPoll, WatchLoad, WatchSend, WatchExit, WatchInv
<1>4. CASE Commit
  BY <1>4, Zenon DEF Commit, GenerationsAscend, ReloadPcs, TypeOK
<1>5. CASE Reload /\ ~Commit
  BY <1>5, Zenon DEF Reload, RecvReload, SnapshotRules, ReplaceRegistry, StopIntercept,
              StopDns, StopHttp, StopTls, StartIntercept, StartDns, StartHttp, StartTls,
              StopStep, StartStep
<1>6. CASE Quit
  BY <1>6, Zenon DEF Quit, QuitWatch, QuitStep
<1> QED
  BY <1>1, <1>2, <1>3, <1>4, <1>5, <1>6, Zenon DEF Next

\* The active configuration only moves to a newer generation, and nothing but the
\* rules, and after a shutdown not even these, changes behind a loop that has ended.
THEOREM ForwardCorrect == Spec => OnlyForward
BY TypeInit, TypeNext, GenerationsInit, GenerationsNext, RulesInit, WatchNext,
   StepOnlyForward, PTL DEF Spec, OnlyForward
=============================================================================
