# AnyMirror in TLA+

AnyMirror is an explicit or transparent HTTP(S) proxy: a fake DNS server gives
rule-owned names addresses of a private range, an intercept backend captures the
traffic to these addresses and redirects it to local listeners, and a rule
engine decides what happens to each request. The configuration can be reloaded
while the process runs. This directory models these parts, checks them with TLC
and proves the central ones with TLAPS. `PROJECT.json` maps every definition to
the lines it models.

## The system and its parts

| Part | State | Operations | What makes it hard |
|---|---|---|---|
| config watch (`watch.rs`) | last and pending mtime, next generation | poll, load, swap rules, send | edits while an earlier one is processed |
| runtime loop (`gateway/runtime.rs`, `supervisors/`) | component handles, active config | receive newest request, rebuild plugins, restart components, commit, shut down | a start that fails, draining listeners, order of restarts |
| fake-IP store and DNS (`traffic/shared/dns`) | two maps per family, next candidate | allocate, refresh, look up, prune | clocks read before the lock, pool exhaustion and wrap-around |
| NAT table and packet handlers (`traffic/shared/nat.rs`, `intercept/`) | NAT entries with expiry | redirect, restore, drop, prune | one thread per packet kind, two locks per request packet, port reuse |
| rule index and engine (`rules/`) | compiled rule set behind an atomic pointer | replace, resolve, explain, DNS match | several indexes that must agree with the matchers, priorities and spread |
| worker registry (`workers/`) | name to state map | mark running, mark finished, abort | names reused across restarts |
| plugin registry and QuickJS pool (`plugins/`) | registry pointer, worker threads, pending count | build, execute, drop | workers that die, a queue nobody serves |
| TLS interception (`gateway/transport/tls.rs`) | certificate cache, CA files | handshake, generate, drain | concurrent misses, two files written in turn |
| upstream executor (`gateway/upstream`) | DNS result, resolver and client caches | look up, create, expire | check-then-insert across an await |
| TUN backend (`traffic/tun`) | device, bridge tasks, platform DNS | start, bridge, shut down | partial startup, deadline for bridges |
| request path (`gateway/handlers`, `gateway/forwarding`) | one request: tunnel, plan, patches | sniff, resolve, plugin stages, forward, respond | registry and rules replaced between its awaits |

The watch sends reload requests to the runtime loop and swaps the rules that the
rule engine and the fake DNS read. The fake DNS fills the store; the packet
handlers read it and fill the NAT table. The runtime loop starts and stops the
TLS listener and the intercept backend through the worker registry. A request
that has come in through a listener reads the live rules and the live plugin
registry, runs the plugin's scripts in the QuickJS pool and goes out through the
upstream executor.

## Modules

| Module | Models |
|---|---|
| `HotReload` | the watch task and the runtime loop, both modes, with edits, connections, faults and signals as environment |
| `FakeIpStore` | the store and the DNS tasks that use it |
| `Intercept` | the packet handlers and the NAT table, composed with `FakeIpStore` (it extends it, and takes the store's steps) |
| `RuleIndex` | matchers and the compiled index, as operators |
| `RuleEngine` | the live rule set, resolution and explanation |
| `QuickJsPool` | the calls, the worker threads, the channel and the drop of a pool |
| `ScriptRuntimePool` | what the plugin stages rely on; `QuickJsPool` implements it |
| `UpstreamExecutor` | clients, idle connections, resolver and address caches, and the dials that fill them |
| `RequestFlow` | one request from a listener to its answer, with CONNECT tunnels and the plugin stages |
| `ForwardingContract` | what a client and an operator may rely on when a request is forwarded; `RequestFlow` implements it |
| `PluginProgram` | what the registry accepts from `on_compile`, and which requests a compiled rule matches (operators that `RequestFlow` uses) |
| `WorkerRegistry` | tracked workers: the two tasks of `spawn`, the registry, abort and join |
| `TlsIntercept` | the CA files, the certificate cache and the connections of the TLS listener |
| `InterceptBackend` | start and shutdown of the WinDivert captures and of the TUN stack |
| `TransparentRuntime` | the process in transparent mode; composes the three modules above it |
| `*Proofs` | theorems, and the lemmas they rest on |
| `MC*` | the instances for TLC |

**HotReload.** Each await of the two tasks, and each write that another thread
can see, is a step; `watchPc` and `pc` are the control states. `handles[c]` is
what component `c` was started with, or `None`. Configurations are records with
the fields that the reload plan compares. `StopStep` needs the connections of a
listener to be gone, as `ShutdownJoinHandle::shutdown` awaits the graceful
shutdown. With `Faults`, any start may fail; the error ends the process (`Fail`).
`Blocked` says when a start must fail: the backend is not supported on the
platform, or the process itself holds the port (on unix the wildcard address of
the TLS listener and the address of the HTTP listener exclude each other). The
port arithmetic of the default TLS port keeps its 16 bits. A failed process has lost its
runtime loop, not its watch task: a load that was under way may still swap the rules, and
`OnlyForward` says that nothing else changes.

**FakeIpStore.** Addresses are integers of a small range with its network address,
last address and the end of the address space. A DNS task reads the clock and
then takes the lock, so operations apply with stamps up to `MaxSkew` old.
Allocation takes the first free address from `next_candidate` on, round the
range once. `Names` and `Normal` model that names differ in case and trailing dot.

**Intercept.** One queue for each capture kind. A request packet takes three steps
(take, look up in the store, enter into the NAT table) because the handler uses
two locks. A packet to the proxy's own ports (`ListenerPorts`) is passed on before either,
as the capture filters leave it alone. `conn`, `seen` and `out` are history: what the
client connected to, when the last packet was rewritten, and what the step did.

**RuleIndex, RuleEngine.** Host names are sequences of labels from the right,
addresses sequences of bits, paths sequences of bytes. A trie is the set of its
insertions; a walk stops at a node without a stamp. `resolve_candidates` and
`explain_candidates` are the two loops over the sorted candidates, as functions
from the number of turns taken to the locals after them; `Reference` is the
documented order written as a definition.

**QuickJsPool.** A call moves from `held` (its request keeps the registry alive)
through `counted` and `ready` to `waiting`; the count is read before the lock on
the workers is taken, so two calls may decide on old counts. Workers take turns
at one receiver behind a mutex. `Release` is the registry's share, and `Drop`
runs when the last share goes. `executed` is history.

**UpstreamExecutor.** The functions that turn a plan into a transport identity, a
resolver identity and a cache key are translated as they are. Every lock taken
in a dial ends a step. The resolver, with its DNS server and its own cache, is external:
what it answers (`zone`) changes at any time, and an answer is taken from it while the
lookup is under way. How long the resolver's cache lags behind its server comes on top
of what `StaleAddressesEnd` bounds.

**RequestFlow.** A step runs between two awaits. A set of headers is the set of its
names; scripts, upstream responses and the bytes of a CONNECT stream are chosen
from small sets. `sent` and `view` are history: what the executor was given, and
what `on_response` was told. A status that `reject_response` cannot build ends
the request as `panicked`. The target of a request is appended to its authority and
parsed as the code does (`ParseUrl`): of the asterisk form, whose target does not start
with a slash, the host takes the `*`, or the parser refuses the whole. `ForwardingContract` is the same path without its steps: one
set of rules decides a request, the request goes where the deciding action says and to
one upstream at most, and it is answered at most once, with that upstream's answer or
with an error. `Contract` maps the control states to its stages (`ContractStage`); its
other variables are variables of `RequestFlow`.

**TransparentRuntime.** `pc` is the main task, `task[<<name, k>>]` the worker that
the `k`th start spawned under a name. `TlsIntercept`, `InterceptBackend` and
`WorkerRegistry` are open modules over shared variables: the main task takes
their start and stop steps, the workers take their own. A client arrives directly, by a
WinDivert redirection (`nat`) or over a TUN bridge, and its bytes stop when that
path goes. A connection that is served is idle or in a request, and a drain closes the idle
ones and waits for the others. A crash keeps the two CA files, one of them perhaps torn, and
drops everything else; `processes` bounds the restarts.

## Runs

| Run | Checks | Result |
|---|---|---|
| `hot_reload` | components fit the configuration, capture has its targets, rules and plugins agree when quiet, generations ascend, stopped listeners are drained, a watch with nothing to do has left the file's content running, only forward, convergence, shutdown completes | holds |
| `reload_alive` | "The process stays alive" (`docs/runtime-reload.md`) | violated: HTTP moves onto the port that TLS has not released yet |
| `reload_report` | the snapshot reports the fake DNS listener that runs | violated: a change of the backend kind keeps the DNS instance |
| `fake_ip` | maps are inverse, reserved addresses stay free, answers are honoured, a request fails only when no address is free | holds |
| `intercept` | responses get the right source, used NAT entries stay, answered traffic is captured unless it is for the listeners' own ports | holds |
| `intercept_flow` | a redirected flow stays redirected | violated: the fake record expires before the connection ends |
| `rules` | index complete, rules reach DNS, documented order, explanation groups agree | holds |
| `rules_explain` | the explanation's final match is the decision | violated: explanation goes on below a non-spreading winner |
| `quickjs_pool` | the pending count, what a drop leaves, nobody is stuck, calls are answered, the pool is dropped, `ScriptRuntimePool` is implemented | holds |
| `upstream` | requests only over connections their own plan allows, one resolver per server, stale addresses end | holds |
| `request_flow` | tunnel target and bytes, `on_response` sees what was sent, body permissions, no stale length, rejection is final, `ForwardingContract` is implemented | holds |
| `transparent_runtime` | served chains verify, the registry tells what runs, a stopped backend leaves nothing, the process ends | holds |

### Bounds

- `hot_reload`: three configurations (`MCHotReload`) between which every
  component changes, the DNS instance or the TLS listener stays while others
  restart, and an edit may also write the same or an unloadable content; two edits, so that a second one
  falls at every point of a reload; one connection per listener, which is enough
  to make a drain wait.
- `fake_ip`: two families of different shape, two domains, two tasks and a TTL
  that ends within the time bound, so pools run out, wrap and are reused.
- `intercept`: one client that connects repeatedly from one port, one DNS task,
  queues of one packet (the threads still interleave), TTLs below the time
  bound. The handlers treat both families alike; the run has one. Clients connect to
  the ports 80 and 443, to the two listeners' ports and to port 53 of a resolver.
- `rules`: every rule set of up to three out of twelve rules that overlap, and
  fourteen URLs on both sides of each boundary.

- `quickjs_pool`: three calls and two workers, the least with a call that finds
  the pool full and a worker that waits for the receiver while another holds it;
  threads and runtimes may fail.
- `upstream`: two requests at a time and three in all, so that one can use what
  another left; three plans for one authority that differ in how to get there
  (system resolver, a DNS server of its own, a fixed address); one change of a
  record, a TTL and a lookup of one tick, two ticks.
- `request_flow`: one request. Requests share only the live rules and the live
  registry, each of which a request loads once, and both are replaced at any
  time. Three rule sets, seven plugin configurations (permissions, missing stages,
  compiled rules of each kind), streams on both sides of the two bytes that tell
  TLS from plain traffic, targets with and without the default port, and requests of
  every form: origin, absolute, asterisk.
- `transparent_runtime`: two clients, two captures or two core tasks, two starts
  of the backend and two processes, so that there is a reload, a restart after a
  crash and a worker name used twice; `MaxEvents` bounds what clients and faults do.

`FakeIpStore`, `RuleEngine`, `UpstreamExecutor` and `RequestFlow` have no
fairness. Tasks are symmetric in `fake_ip` and requests in `upstream`; no
liveness is checked there.

### Fairness

`HotReload` assumes weak fairness of the watch, of the reload and shutdown steps
(tokio runs a task that is ready), of `Settle` (time passes) and of a disconnect
on a listener that drains. The last one is an assumption on clients and
upstreams: the code has no deadline there. Edits, connects and signals are free
not to happen.

`QuickJsPool` assumes that threads and tasks that can run do, and that scripts
return: the code sets no limit on a script. Callers are free not to come and not
to leave. `CallsAreAnswered` and `PoolIsDropped` name the case in which no
worker could start.

`TransparentRuntime` assumes weak fairness of `System` as a whole: the main task,
workers whose turn it is, and the listener's task; the deadline of the bridges fires, a
drain closes idle connections, and a closed socket is noticed. Nothing is assumed of
clients and upstreams: a handshake or a request may never end, because the client stalls,
because its redirection has been stopped or because the upstream does not answer.
`ProcessEnds` names that case (`Stalled`), next to the captures that a failed WinDivert
start leaves behind (`LeftCapture`); tunnelled clients are no exception, since their
bridges have a deadline.

## Proofs

Every safety invariant, every action property and both refinements of the passing runs
are proved, for all values of the constants that satisfy the named assumptions; only
liveness is not. The type invariants (`TypeOK`) and the properties in the last column are
proved and not repeated in a run.

| Module | Proves | For all | And |
|---|---|---|---|
| `HotReloadProofs` | the invariants of `hot_reload`, `OnlyForward` | configurations, bounds, both platforms | |
| `FakeIpStoreProofs` | the invariants of `fake_ip`, `ServfailMeansFull` | ranges, TTLs, numbers of tasks | `AnswersAgree`: two running answers name one address exactly when they name one domain |
| `InterceptProofs` | the invariants of `intercept` | clients, queues, TTLs, ranges | `OnlySilentFlowsLeak`: a response stays unrestored only after a silence as long as the TTL |
| `RuleEngineProofs` | the invariants of `rules` | rule sets and URLs | `ExplainErrsBelowStop`: the final match of an explanation is wrong exactly when a group below one that stops has a winner |
| `QuickJsPoolProofs` | the invariants of `quickjs_pool`, the implementation of `ScriptRuntimePool` | calls, numbers of workers | |
| `UpstreamExecutorProofs` | the invariants of `upstream` | plans, DNS answers, requests, durations | |
| `RequestFlowProofs` | the invariants of `request_flow`, the implementation of `ForwardingContract` | requests, rules, plugins, scripts, streams, upstream answers | |
| `TransparentRuntimeProofs` | the invariants of `transparent_runtime` | captures, core tasks, starts, crashes | `CaIsStable`: a complete CA is never replaced; `ConnectionsHaveListener`: no connection is abandoned by its listener |

`ExplainErrsBelowStop` and `OnlySilentFlowsLeak` say how far a divergence goes: what
`rules_explain` shows is the only way an explanation errs, and the NAT table loses a
response only to silence.

The invariants are seldom inductive as they stand; what each proof adds follows.

**HotReload, FakeIpStore.** What runs in the
middle of a reload depends on how far it is: the strengthening says, for each
control state, which components already fit the new configuration, which still
fit the old one and which are down; and for the rules, that the live rules are
those of the newest request, queued, being applied or about to be sent.
`ConfigFollowsFile` follows that newest configuration (`Newest`): it is the file's whenever
the modification time remembered is the file's, which needs the remembered time to be
that of the poll, so that an edit between poll and load is seen again. For the
store, `AnswersHonoured` needs that an entry's expiry is at least the answer's
end less the skew, that stamps of tasks are at most `MaxSkew` old, and that the
maps are inverse, so that an address with a live entry is not free; the same inverse
gives `AnswersAgree`, and `ServfailMeansFull` in the other direction.

**Intercept.** `PathInv` stands beside the store's invariant, which the composed steps
keep. `Flight`: a packet in a queue goes where its client's connection goes, and
there are responses only of connections that were redirected. `RedirectInv`: the
packet between the two locks is still of the client's connection, and the handler's
stamp is at most `MaxSkew` old. `NatInv`: an entry leads to its client's connection and
expires a TTL after the last packet that was rewritten, and an entry is missing
only once that time has passed; so pruning takes none that is in use, and a
response is given the origin of the connection it answers.

**Rules.** For the index nothing has to be strengthened: the live rules are always
one of the rule sets, and the rest holds of every rule set. The argument is one
case per kind of matcher; the tries share the lemma `WalkReaches` (an insertion
stamps every node on its way, so no walk along a key that it is a prefix of stops
before it), and `PrefixAgrees` says that the boundary tests of
`path_has_prefix` and of the path trie are the same test.

For the order of resolution, `SortedFacts` shows that the sort lists every candidate
once, priorities descending and indices ascending within a priority, and with
the completeness of the index no match is missing from that list. `Win` says that
a position holds the first match of its level, which is what the reference calls a
winner (`WinnersWin`). `ResolveInv` is the invariant of the first loop: either it has
returned the first winner that does not spread, or all winners of the closed
levels spread, `propagated` is the last of them, and `matched` is the winner of the
open level or there is none. `ExplainInv` is the invariant of the second: the
groups descend, they name exactly the winners so far, and the last group is the
open level. Both lead to `ReferenceAt`, where the reference's choice has a single
candidate.

**QuickJsPool.** The invariant has four parts that need each other: where a task is
(in the channel, with one worker or done, never twice), the order in which a pool
ends, the count as the cardinality of a finite set, and the types, which need the
count not to be negative. That at most `MaxWorkers` scripts run follows from a
surjection of the busy workers onto the running calls. `NobodyIsStuck` is the safety part
of the two liveness properties: the state in which everyone waits for everyone is not
reachable, with the guards of the workers' steps written out in `CanAct`.

**UpstreamExecutor.** `Belongs` says that every address and every
connection is kept under an identity that may have it; `Fresh` bounds ages: a
wrong answer was asked for before the record changed, and a wrong entry expires
within a lookup and a TTL of the change.

**RequestFlow.** `FlowInv` says at which stage which variables of a request are still
empty (`Stage`), that no rejected request gets to the executor (`Allowed`), and that
from the execution on what was prepared is what was sent: plan, method, headers,
body, and the rule and the permission of the registry that the request loaded
(`Carried`). The registry and the rules may be replaced at every await; the
invariant speaks of the ones the request has loaded. `TunnelInv` says that what a
CONNECT stream has passed on, what is buffered and what the client has yet to send
are together the client's bytes, in order, and that its target names a port (`Named`).
With these two, `TunnelStaysOnTarget` is inductive as it stands; `ParsedUrl` says what
becomes of an authority and a target that are appended and parsed. For the contract, `Addressed` adds that
between the decision and the answer what was sent is what the deciding action says,
whatever the live rules have become; each step of the code is then one step of the
contract or none (`ForwardingNext`), by a lemma for each.

**TransparentRuntime.** `ChainsVerify` holds for any number of crashes, failed
writes and restarts: while the certificate file is being replaced there is no
complete key file, and the key is written only beside its own certificate. For
`RegistryTellsWhatRuns` and `StoppedLeavesNothing` the invariant says for each phase
of the backend which workers it has started, which it still holds, and that no
other start has a worker left. A connection's listener runs because its task returns only
after the drain, which the same invariant says of each phase.

The proofs rest on the named assumptions of the modules, which TLC evaluates on
every run: the shape of configurations; ranges that are intervals within the
address space, normal names being domains; rule sets of well-formed rules; a pool has
at least one worker; durations are natural numbers, the TTL is positive and a DNS
setting has a server unless it is the system's; worker names are distinct; the
resolvers that clients ask are outside the fake ranges, and the NAT's TTL of a
closing connection is at most the one of an established connection; the host of a
CONNECT target is held without brackets, streams are bytes and a request has an entry and
a target; and
`None` is none of the values it stands beside (a handle, a call, a destination,
a plan, an index).

The library's induction theorems take an operator as a parameter, which the
provers cannot instantiate. Where a loop needs induction, the proof goes through
sets instead: a set of natural numbers has a least element (`Least`, from the
well-foundedness of the order), hence a set of turns that has 0 and with every turn
the next one has all of them (`Climb`). `LoopRuns` and `LoopsAgree` show in the same
way that a loop written as a recursive function has one run, and that the function
is that run.

Only model-checked: liveness (`Converges`, `ShutdownCompletes`,
`CallsAreAnswered`, `PoolIsDropped`, `ProcessEnds`), which needs fairness and ENABLED and
is beyond the prover.

## What the models show about the code

Behaviour that no property forbids and no document contradicts, but that a
reader of the code may want to know:

- The status of a reject action of a rule is checked when the rule is compiled;
  the status of one that a plugin returns is not, and `reject_response` panics
  outside 100..999 (`gateway/http/responses.rs`).
- When every QuickJS worker of a pool has failed to start, callers wait for ever:
  failed threads count as workers, and the pool keeps the receiver alive.
- Threads of an old and of a new pool have the same names.
- Neither a handshake nor a request has a deadline, and draining the TLS listener waits
  for them. The backend is stopped first, so a redirected client can no longer complete
  either.
- TCP to a fake address on one of the proxy's own listener ports is not redirected: the
  capture filter and the packet handler both let it pass.
- `OPTIONS *` in a CONNECT tunnel to port 443 is taken for a request to a host that ends in
  `*`; on any other port it is refused.
- When the process fails, a load of the configuration that was under way still swaps the
  rules.
- A WinDivert start that fails half-way leaves its captures open; nothing closes
  them, and the process does not end.
- A key file that was written half is loaded by every later process, whose
  handshakes then fail. No connection is served with a broken chain.
- A CONNECT stream is sniffed before it is dialled, so a server that speaks first
  is reached only after the client has sent two bytes.
- Inside a CONNECT tunnel an absolute-form URI with an IPv6 host is always
  refused: one side of the comparison has brackets, the other has not.
- A request patch is dropped when `on_request` returns no action and no compiled
  rule matched.
- The answer on the plugin path keeps the upstream's hop-by-hop headers, and header
  patches are applied in the order of a hash map.
- Without `--watch-config` the runtime loop's receiver is closed at once, and the loop spins.

## Not modelled

- JSON schema and rule compilation: data without control state. `PluginProgram`
  models the part of it that decides which requests a plugin's rules match.
- HTTP parsing, header values, body encodings, checksums, tracing and the event
  buffer: data. Headers are modelled as names where a property is about them.
- The packets of the TUN stack: smoltcp moves bytes, the model has its tasks,
  bridges, interface and DNS settings.
- Resolution of names that no rule owns, and the operating system's part of TUN
  and WinDivert: I/O.
- Panics: the release profile aborts, so no lock is poisoned. `reject_response` is
  the one panic that is modelled.
- `ensure_worker_capacity` and `execute` are modelled for QuickJS, the only
  runtime there is.
