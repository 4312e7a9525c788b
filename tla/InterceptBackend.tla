-------------------------- MODULE InterceptBackend --------------------------
(***************************************************************************)
(* Starting and stopping the intercept backend: the WinDivert captures     *)
(* (traffic/windivert/runtime/startup.rs, capture.rs) and the smoltcp TUN  *)
(* stack (traffic/tun/smoltcp.rs) with the DNS settings of its interface   *)
(* (traffic/tun/dns_hijack/platforms).  What the backends do to packets is *)
(* in Intercept.  The module is open: TransparentRuntime starts and stops  *)
(* the backend.                                                            *)
(***************************************************************************)
EXTENDS WorkerRegistry, Functions

CONSTANTS
  Captures,    \* the capture runtimes' workers, in the order they are started
  CoreTasks,   \* the core tasks of the TUN stack, in the order they are started
  Streams      \* the TCP connections through the tunnel, each bridged once

Runner == "tun-smoltcp-runner"
TcpLoop == "tun-smoltcp-tcp"
NatCleanup == "transparent-nat-cleanup"

VARIABLES
  phase,       \* where the start or the shutdown of the backend is
  kind,        \* "windivert" or "tun"
  start,       \* the number of the start this is about
  step,        \* how many of the started or stopped workers it has got to
  open,        \* the captures whose WinDivert handle is open
  link,        \* the TUN interface: None, "plain", or "dns" with its DNS set
  bridge,      \* [stream]: its bridge task: "none", "relaying", "over"
  handles,     \* bridge_tasks: the bridges in the shared vector
  draining_handles,  \* the ones the shutdown has taken out of it
  deadline     \* whether BRIDGE_TASK_DRAIN_TIMEOUT has passed

backend_vars == <<phase, kind, start, step, open, link, bridge, handles, draining_handles, deadline>>
tun_vars == <<link, bridge, handles, draining_handles, deadline>>

Capture(i) == <<Captures[i], start>>
CaptureWorkers == {Capture(i) : i \in DOMAIN Captures}
Core(i) == <<CoreTasks[i], start>>
Cleanup == <<NatCleanup, start>>

StartOf(k, n) ==
  /\ kind' = k
  /\ start' = n
  /\ step' = 0
  /\ phase' = IF k = "windivert" THEN "captures" ELSE "device"

Advance(p, i) == phase' = p /\ step' = i

-----------------------------------------------------------------------------
(* run_transparent_windivert_runtimes: the cleanup worker, then capture    *)
(* after capture; the first that cannot be opened ends the start, and what *)
(* has been started is left as it is.                                      *)

StartNatCleanup ==
  /\ phase = "captures" /\ step = 0
  /\ spawn(Cleanup)
  /\ Advance("captures", 1)
  /\ UNCHANGED <<kind, start, open, tun_vars>>

StartCapture ==
  /\ phase = "captures" /\ step \in DOMAIN Captures
  /\ spawn(Capture(step))
  /\ open' = open \cup {Capture(step)}
  /\ Advance(IF step = Len(Captures) THEN "up" ELSE "captures", step + 1)
  /\ UNCHANGED <<kind, start, tun_vars>>

OpenFails ==
  /\ phase = "captures" /\ step \in DOMAIN Captures
  /\ phase' = "failed"
  /\ UNCHANGED <<worker_vars, kind, start, step, open, tun_vars>>

\* run_raw_capture_loop: WinDivertRecv fails once the handle is closed, ...
CaptureStops(w) ==
  /\ w[1] \in Range(Captures)
  /\ w \notin open
  /\ Return(w)
  /\ UNCHANGED backend_vars

\* ... or for a reason of its own, which nobody but the registry is told.
CaptureFails(w) ==
  /\ w[1] \in Range(Captures)
  /\ w \in open
  /\ Return(w)
  /\ UNCHANGED backend_vars

\* shutdown_raw_handle for every runtime.
CloseHandles == open' = open \ CaptureWorkers

StopCaptures ==
  /\ phase = "up" /\ kind = "windivert"
  /\ CloseHandles
  /\ Advance("join_captures", 1)
  /\ UNCHANGED <<worker_vars, kind, start, tun_vars>>

JoinCapture ==
  /\ phase = "join_captures" /\ step \in DOMAIN Captures
  /\ Joined(Capture(step))
  /\ step' = step + 1
  /\ UNCHANGED <<worker_vars, phase, kind, start, open, tun_vars>>

AbortNatCleanup ==
  /\ phase = "join_captures" /\ step > Len(Captures)
  /\ abort(Cleanup)
  /\ phase' = "down"
  /\ UNCHANGED <<kind, start, step, open, tun_vars>>

-----------------------------------------------------------------------------
(* run_transparent_tun_smoltcp_runtime.  Until the first core task is      *)
(* spawned everything belongs to the function, so an error drops it.       *)

OpenDevice ==
  /\ phase = "device"
  /\ \/ link' = "plain" /\ phase' = "dns"
     \/ link' = None /\ phase' = "failed"
  /\ UNCHANGED <<worker_vars, kind, start, step, open, bridge, handles, draining_handles, deadline>>

\* configure_platform_dns: nothing in manual mode; else the platform's commands,
\* each of which may fail and leave the earlier ones in force on the interface.
\* A start that fails drops the device, and the interface goes with its settings.
ConfigureDns ==
  /\ phase = "dns"
  /\ \/ link' \in {"plain", "dns"} /\ phase' = "stack"
     \/ link' = None /\ phase' = "failed"
  /\ UNCHANGED <<worker_vars, kind, start, step, open, bridge, handles, draining_handles, deadline>>

BuildStack ==
  /\ phase = "stack"
  /\ \/ UNCHANGED link /\ Advance("core", 1)
     \/ link' = None /\ Advance("failed", 0)
  /\ UNCHANGED <<worker_vars, kind, start, open, bridge, handles, draining_handles, deadline>>

StartCore ==
  /\ phase = "core"
  /\ spawn(Core(step))
  /\ Advance(IF step = Len(CoreTasks) THEN "up" ELSE "core", step + 1)
  /\ UNCHANGED <<kind, start, open, tun_vars>>

\* The loop of a core task takes the shutdown branch of its select!, ...
CoreStops(w) ==
  /\ w[1] \in Range(CoreTasks)
  /\ w \in told
  /\ Return(w)
  /\ UNCHANGED backend_vars

\* ... or ends on an error or at the end of its stream.
CoreFails(w) ==
  /\ w[1] \in Range(CoreTasks)
  /\ Return(w)
  /\ UNCHANGED backend_vars

\* Bytes get through the tunnel while the runner drives the stack.
TunnelMoves == task[<<Runner, start>>] = "running"

\* prune_bridge_tasks
Unfinished(bs) == {c \in bs : bridge[c] # "over"}

\* run_tcp_accept_loop: prune, spawn the bridge, push its handle.
AcceptBridge(c) ==
  /\ kind = "tun" /\ TunnelMoves
  /\ task[<<TcpLoop, start>>] = "running"
  /\ bridge[c] = "none"
  /\ bridge' = [bridge EXCEPT ![c] = "relaying"]
  /\ handles' = Unfinished(handles) \cup {c}
  /\ UNCHANGED <<worker_vars, phase, kind, start, step, open, link, draining_handles, deadline>>

\* copy_bidirectional ends: both sides closed, or one failed.
BridgeEnds(c) ==
  /\ bridge[c] = "relaying"
  /\ bridge' = [bridge EXCEPT ![c] = "over"]
  /\ UNCHANGED <<worker_vars, phase, kind, start, step, open, link, handles, draining_handles, deadline>>

-----------------------------------------------------------------------------
(* TransparentInterceptHandle::shutdown of the TUN stack                   *)

StopCore ==
  /\ phase = "up" /\ kind = "tun"
  /\ Tell(Core(1))
  /\ Advance("join_core", 1)
  /\ UNCHANGED <<kind, start, open, tun_vars>>

\* The next core task is told only once this one has been joined.
JoinCore ==
  /\ phase = "join_core" /\ step < Len(CoreTasks)
  /\ Joined(Core(step))
  /\ Tell(Core(step + 1))
  /\ step' = step + 1
  /\ UNCHANGED <<phase, kind, start, open, tun_vars>>

TakeBridges ==
  /\ phase = "join_core" /\ step = Len(CoreTasks)
  /\ Joined(Core(step))
  /\ draining_handles' = handles
  /\ handles' = {}
  /\ deadline' = FALSE
  /\ phase' = "drain_bridges"
  /\ UNCHANGED <<worker_vars, kind, start, step, open, link, bridge>>

DeadlinePasses ==
  /\ phase = "drain_bridges" /\ ~deadline
  /\ deadline' = TRUE
  /\ UNCHANGED <<worker_vars, phase, kind, start, step, open, link, bridge, handles, draining_handles>>

\* The handles are awaited one after the other; in which order does not matter here.
AwaitBridge ==
  /\ phase = "drain_bridges"
  /\ \E c \in draining_handles :
       /\ bridge[c] = "over"
       /\ draining_handles' = draining_handles \ {c}
  /\ UNCHANGED <<worker_vars, phase, kind, start, step, open, link, bridge, handles, deadline>>

\* Mutant: a bridge that outlives the deadline is given up, not aborted.
AbortBridge_Detaches ==
  /\ phase = "drain_bridges" /\ deadline
  /\ \E c \in draining_handles : draining_handles' = draining_handles \ {c}
  /\ UNCHANGED <<worker_vars, phase, kind, start, step, open, link, bridge, handles, deadline>>

\* Mutant: a bridge that outlives the deadline is still waited for.
AbortBridge_Awaits ==
  /\ phase = "drain_bridges" /\ deadline
  /\ \E c \in draining_handles :
       /\ bridge[c] = "over"
       /\ draining_handles' = draining_handles \ {c}
  /\ UNCHANGED <<worker_vars, phase, kind, start, step, open, link, bridge, handles, deadline>>

AbortBridge ==
  /\ phase = "drain_bridges" /\ deadline
  /\ \E c \in draining_handles :
       /\ bridge' = [bridge EXCEPT ![c] = "over"]
       /\ draining_handles' = draining_handles \ {c}
  /\ UNCHANGED <<worker_vars, phase, kind, start, step, open, link, handles, deadline>>

\* platform_dns_guard.restore(): reverted or not, an error is only logged, and the
\* guard holds the last reference to the device.
RestoreDns ==
  /\ phase = "drain_bridges" /\ draining_handles = {}
  /\ link' = None
  /\ phase' = "down"
  /\ deadline' = FALSE
  /\ UNCHANGED <<worker_vars, kind, start, step, open, bridge, handles, draining_handles>>
=============================================================================
