---------------------------- MODULE RequestFlow ----------------------------
(***************************************************************************)
(* A request through the gateway (src/gateway/handlers, src/gateway/       *)
(* forwarding) while a reload replaces the live rules and the live plugin  *)
(* registry (src/plugins/mod.rs).  A request resolves its target, asks the *)
(* rules once, and is answered locally, sent upstream, or handed to a      *)
(* plugin, whose on_request and on_response scripts run on either side of  *)
(* the upstream.  Requests share only the live rules and registry, each of *)
(* which a request loads at one point and keeps.                           *)
(*                                                                         *)
(* A set of headers is the set of their names, and the scripts' outputs,   *)
(* the upstream responses and the client's bytes are chosen from small     *)
(* sets.  A step of a request runs between two awaits.                     *)
(***************************************************************************)
EXTENDS PluginProgram

CONSTANTS
    Requests,
    Inbounds,           \* what clients send
    RuleSets,           \* rule sets of the configurations: functions from URLs to actions
    PluginOptions,      \* plugin options of the configurations
    RequestOutputs,     \* what on_request may return, None (null) included
    ResponseOutputs,    \* what on_response may return, None (null) included
    Responses,          \* what upstreams may answer
    Targets,            \* CONNECT authorities
    Streams,            \* the first bytes of a CONNECT stream
    Brackets,           \* hosts that hold a ':' and are bracketed in a URL
    OpaqueHeaders       \* headers whose value is not text

\* ConnectAuthority keeps a host without brackets, streams are bytes, every request has
\* an entry and a target, and every response has a status, headers and a body.
ASSUME RequestFlowAssumption ==
    /\ \A t \in Targets : t.host \in [labels : Seq(STRING), bracketed : {FALSE}]
    /\ Streams \subseteq Seq(0..255)
    /\ \A i \in Inbounds : {"entry", "absolute", "path"} \subseteq DOMAIN i
    /\ \A x \in Responses : {"status", "headers", "body"} \subseteq DOMAIN x

VARIABLES
    live_rules,     \* LiveRuleSet
    live_plugins,   \* LivePluginRegistry
    building,       \* the registry a reload is building, or None
    pc,
    inbound,        \* the request as it arrived
    original,       \* its target URL
    action,         \* the resolved rule action
    plugins,        \* the registry snapshot of forward_plugin_request
    prepared,       \* PreparedPluginRequest
    sent,           \* what the executor was given
    executed,       \* what the executor returned
    view,           \* PluginResponseStageContext, as on_response got it
    answer,         \* the response
    tunnel          \* the CONNECT stream the request comes in

reload == <<live_rules, live_plugins, building>>
plugin_path == <<plugins, prepared, view>>
vars == <<reload, pc, inbound, original, action, plugin_path, sent, executed,
          answer, tunnel>>

-----------------------------------------------------------------------------
(* The plugin registry. *)

ActiveIn(options) == {d \in options.definitions : options.enabled /\ d.enabled}

\* build() fails unless every enabled plugin has a stage file, its load and
\* compile scripts succeed and its program compiles.
Builds(options) ==
    \A d \in ActiveIn(options) : d.stages # {} /\ d.loads /\ ProgramIsValid(d.rules)

ReferencedBy(rules) ==
    {rules[u].name : u \in {v \in DOMAIN rules : rules[v].type = "plugin"}}

build(options, rules) ==
    LET active == {d.name : d \in ActiveIn(options)}
        disabled == {d.name : d \in {e \in options.definitions : ~e.enabled}}
    IN IF ~options.enabled THEN [plugins |-> <<>>, disabled |-> {}, missing |-> {}]
       ELSE [plugins |-> [n \in active |-> CHOOSE d \in ActiveIn(options) : d.name = n],
             disabled |-> disabled,
             missing |-> ReferencedBy(rules) \ (active \cup disabled)]

\* The plugin resolve_request and resolve_response find, or None.
Loaded(registry, name) ==
    IF name \in registry.disabled \cup registry.missing \/ name \notin DOMAIN registry.plugins
    THEN None ELSE registry.plugins[name]

HasStage(registry, name, stage) ==
    Loaded(registry, name) # None /\ stage \in registry.plugins[name].stages

request_body_access(registry, name) ==
    /\ name \in DOMAIN registry.plugins
    /\ "on_request" \in registry.plugins[name].stages
    /\ registry.plugins[name].permissions.on_request

response_body_access(registry, name) ==
    /\ name \in DOMAIN registry.plugins
    /\ "on_response" \in registry.plugins[name].stages
    /\ registry.plugins[name].permissions.on_response

\* Mutant: the permission is not asked for.
ensure_body_patch_permission_Dropped(allowed, patch) == TRUE

ensure_body_patch_permission(allowed, patch) == Has(patch, "body") => allowed

-----------------------------------------------------------------------------
(* Reloads. *)

ReplaceRules(rules) ==
    /\ live_rules' = rules
    /\ UNCHANGED <<live_plugins, building, pc, inbound, original, action, plugin_path,
                   sent, executed, answer, tunnel>>

\* build_registry takes a snapshot of the rules before the scripts run.  A
\* build that fails replaces nothing (the error ends the process: HotReload).
StartBuild(options) ==
    /\ building = None
    /\ Builds(options)
    /\ building' = build(options, live_rules)
    /\ UNCHANGED <<live_rules, live_plugins, pc, inbound, original, action, plugin_path,
                   sent, executed, answer, tunnel>>

ReplacePlugins ==
    /\ building # None
    /\ live_plugins' = building
    /\ building' = None
    /\ UNCHANGED <<live_rules, pc, inbound, original, action, plugin_path, sent, executed,
                   answer, tunnel>>

-----------------------------------------------------------------------------
(* The target of a request. *)

default_port(scheme) == IF scheme = "https" THEN 443 ELSE 80

\* Url::parse of scheme://authority with a path behind it.  Only the path of an
\* asterisk-form request does not begin with '/'.  It runs on into the authority: it
\* ends the host's last label, and behind a port or a bracket it is no URL.
ParseUrl(scheme, authority, path) ==
    LET at(host, p) ==
            [scheme |-> scheme, host |-> host, path |-> p,
             port |-> IF authority.port = None THEN default_port(scheme) ELSE authority.port]
    IN IF path[1] = Slash THEN at(authority.host, path)
       ELSE IF authority.port # None \/ authority.host.bracketed THEN None
       ELSE at([authority.host EXCEPT !.labels[Len(authority.host.labels)] = @ \o "*"],
               <<Slash>>)

\* ConnectAuthority keeps the host without brackets, url.host_str() with them.
format_authority_host(host) == [host EXCEPT !.bracketed = host \in Brackets]

format_url_authority(host, port) ==
    [host |-> format_authority_host(host), port |-> IF port = 443 THEN None ELSE port]

\* Mutant: the port of the CONNECT target is not compared.
validate_connect_target_url_AnyPort(target, url) ==
    url.scheme = "https" /\ url.host = target.host

validate_connect_target_url(target, url) ==
    url.scheme = "https" /\ url.host = target.host /\ url.port = target.port

resolve_explicit_https_target(target, i) ==
    IF i.absolute = None
    THEN ParseUrl("https", format_url_authority(target.host, target.port), i.path)
    ELSE IF validate_connect_target_url(target, i.absolute) THEN i.absolute ELSE None

\* transparent_entry writes the scheme header unless the client did.
OriginalScheme(i) ==
    IF Has(i, "original_scheme") THEN i.original_scheme
    ELSE IF i.tls THEN "https" ELSE "http"

resolve_transparent_target(i) ==
    CASE Has(i, "original_url") -> i.original_url
      [] ~Has(i, "original_url") /\ i.absolute # None -> i.absolute
      [] OTHER ->
         IF i.host = None \/ OriginalScheme(i) \notin {"http", "https"} THEN None
         ELSE ParseUrl(OriginalScheme(i), i.host, i.path)

\* None is a request the entry answers with an error.
TargetOf(i, target) ==
    CASE i.entry = "transparent" ->
            IF i.method = "CONNECT" THEN None ELSE resolve_transparent_target(i)
      [] i.entry = "explicit-https" -> resolve_explicit_https_target(target, i)
      [] OTHER -> i.absolute

-----------------------------------------------------------------------------
(* CONNECT. *)

NoTunnel == [pc |-> "none", target |-> None, stream |-> <<>>, input |-> <<>>,
             prefix |-> <<>>, out |-> <<>>]

Flow == <<reload, pc, inbound, original, action, plugin_path, sent, executed, answer>>

\* An authority without a port is answered with an error.
handle_connect(r, target, stream) ==
    /\ pc[r] = "idle" /\ tunnel[r].pc = "none"
    /\ target.port # None
    /\ tunnel' = [tunnel EXCEPT ![r] = [pc |-> "sniff", target |-> target, stream |-> stream,
                                        input |-> stream, prefix |-> <<>>, out |-> <<>>]]
    /\ UNCHANGED Flow

looks_like_tls_client_hello(prefix) ==
    prefix # <<>> /\ prefix[1] = 22 /\ (Len(prefix) > 1 => prefix[2] = 3)

Take(s, n) == SubSeq(s, 1, n)
Drop(s, n) == SubSeq(s, n + 1, Len(s))

Route(t) == [t EXCEPT !.pc = IF looks_like_tls_client_hello(t.prefix) THEN "tls" ELSE "dial"]

\* Mutant: the stream is routed by what the first read returned.
IsSniffed_OneRead(prefix, n) == TRUE

\* The loop ends with CONNECT_PEEK_BYTES bytes or at the end of the stream.
IsSniffed(prefix, n) == n = 0 \/ Len(prefix) = 2

\* One read of up to the bytes still missing of CONNECT_PEEK_BYTES; nothing is
\* the end of the stream.
sniff_connect_stream(r) ==
    /\ tunnel[r].pc = "sniff"
    /\ \E n \in 0..(2 - Len(tunnel[r].prefix)) :
         /\ n = 0 <=> tunnel[r].input = <<>>
         /\ n <= Len(tunnel[r].input)
         /\ LET t == [tunnel[r] EXCEPT !.prefix = @ \o Take(tunnel[r].input, n),
                                       !.input = Drop(@, n)]
            IN tunnel' = [tunnel EXCEPT ![r] = IF IsSniffed(t.prefix, n) THEN Route(t) ELSE t]
    /\ UNCHANGED Flow

\* The TLS acceptor reads through PrefixedIo: first the prefix, then the stream.
PrefixedRead(r) ==
    /\ tunnel[r].pc = "tls"
    /\ \/ \E n \in 1..Len(tunnel[r].prefix) :
            tunnel' = [tunnel EXCEPT ![r].out = @ \o Take(tunnel[r].prefix, n),
                                     ![r].prefix = Drop(@, n)]
       \/ /\ tunnel[r].prefix = <<>>
          /\ \E n \in 1..Len(tunnel[r].input) :
               tunnel' = [tunnel EXCEPT ![r].out = @ \o Take(tunnel[r].input, n),
                                        ![r].input = Drop(@, n)]
    /\ UNCHANGED Flow

\* The plain tunnel writes the prefix to its upstream, then copies.
proxy_tunnel(r) ==
    /\ \/ /\ tunnel[r].pc = "dial"
          /\ \E next \in {"copy", "closed"} :
               tunnel' = [tunnel EXCEPT ![r].pc = next]
       \/ /\ tunnel[r].pc = "copy" /\ tunnel[r].prefix # <<>>
          /\ tunnel' = [tunnel EXCEPT ![r].out = tunnel[r].prefix, ![r].prefix = <<>>]
       \/ /\ tunnel[r].pc = "copy" /\ tunnel[r].prefix = <<>> /\ tunnel[r].input # <<>>
          /\ \E n \in 1..Len(tunnel[r].input) :
               tunnel' = [tunnel EXCEPT ![r].out = @ \o Take(tunnel[r].input, n),
                                        ![r].input = Drop(@, n)]
    /\ UNCHANGED Flow

-----------------------------------------------------------------------------
(* Forwarding. *)

Goto(r, next) == pc' = [pc EXCEPT ![r] = next]

\* Every answer ends the request.
Respond(r, a) ==
    /\ answer' = [answer EXCEPT ![r] = a]
    /\ Goto(r, "answered")

ErrorAnswer == [kind |-> "error"]

\* What StatusCode::from_u16 takes.
StatusCodes == 100..999

\* An error of from_u16 is not handled: the panic ends the request (and the
\* process, in builds where a panic aborts).  Rules are checked for it when they are
\* compiled, the actions of plugins are not.
reject_response(r, status) ==
    IF status \in StatusCodes THEN Respond(r, [kind |-> "reject"])
    ELSE Goto(r, "panicked") /\ UNCHANGED answer

\* PluginResolvedOutcome::try_from.
RejectStatus(outcome) == IF Has(outcome, "status") THEN outcome.status ELSE 403

direct(url) == [url |-> url]

NoRule == [type |-> "none"]

\* RuleSet::resolve, which RuleEngine models.
resolve(rules, url) == IF url \in DOMAIN rules THEN rules[url] ELSE NoRule

\* The headers that an entry puts in, or puts right, before it forwards a request.
EntryHeaders(i) ==
    CASE i.entry = "transparent"    -> {"x-anymirror-original-scheme"}
      [] i.entry = "explicit-https" -> {"host"}
      [] OTHER -> {}

Receive(r, i) ==
    /\ pc[r] = "idle"
    /\ IF i.entry = "explicit-https"
       THEN tunnel[r].pc = "tls" /\ tunnel[r].out = tunnel[r].stream
       ELSE tunnel[r].pc = "none"
    /\ LET url == TargetOf(i, tunnel[r].target)
       IN /\ inbound' = [inbound EXCEPT ![r] = [i EXCEPT !.headers = @ \cup EntryHeaders(i)]]
          /\ original' = [original EXCEPT ![r] = url]
          /\ IF url = None THEN Respond(r, ErrorAnswer)
             ELSE Goto(r, "forward") /\ UNCHANGED answer
    /\ UNCHANGED <<reload, action, plugin_path, sent, executed, tunnel>>

\* Hands a request to the executor.
Send(r, plan, q) ==
    /\ sent' = [sent EXCEPT ![r] = [plan |-> plan, method |-> q.method,
                                    headers |-> q.headers, body |-> q.body]]
    /\ Goto(r, "execute")

\* forward_request and forward_intercepted_request.
forward_request(r) ==
    /\ pc[r] = "forward"
    /\ LET a == resolve(live_rules, original[r])
       IN /\ action' = [action EXCEPT ![r] = a]
          /\ CASE a.type = "reject"  -> reject_response(r, a.status) /\ UNCHANGED sent
               [] a.type = "respond" -> Goto(r, "respond") /\ UNCHANGED <<answer, sent>>
               [] a.type = "plugin"  -> Goto(r, "plugin") /\ UNCHANGED <<answer, sent>>
               [] a.type = "mirror"  -> Send(r, a.upstream, inbound[r]) /\ UNCHANGED answer
               [] OTHER -> Send(r, direct(original[r]), inbound[r]) /\ UNCHANGED answer
    /\ UNCHANGED <<reload, inbound, original, plugin_path, executed, tunnel>>

\* A body file is read for every request, and the read may fail.
respond_response(r) ==
    /\ pc[r] = "respond"
    /\ \/ Respond(r, [kind |-> "respond"])
       \/ action[r].file /\ Respond(r, ErrorAnswer)
    /\ UNCHANGED <<reload, inbound, original, action, plugin_path, sent, executed, tunnel>>

\* End-to-end headers, the target and the upstream's body.
UpstreamAnswer(target, response) ==
    [kind |-> "upstream", target |-> target, status |-> response.status,
     headers |-> response.headers, body |-> response.body]

HopByHop == {"transfer-encoding"}

build_upstream_response(target, response) ==
    [UpstreamAnswer(target, response) EXCEPT !.headers = @ \ HopByHop]

\* Mutant: every answer names the URL that the client asked for.
AnsweredTarget_Original(r) == original[r]

\* build_proxy_response names the matched upstream, build_passthrough_response
\* the original URL.
AnsweredTarget(r) ==
    IF action[r].type = "mirror" THEN action[r].upstream.url ELSE original[r]

\* The executor answers, or fails.
Execute(r) ==
    /\ pc[r] = "execute"
    /\ \/ Respond(r, ErrorAnswer) /\ UNCHANGED executed
       \/ \E response \in Responses :
            /\ executed' = [executed EXCEPT ![r] = response]
            /\ IF action[r].type = "plugin"
               THEN Goto(r, "collect_response") /\ UNCHANGED answer
               ELSE Respond(r, build_upstream_response(AnsweredTarget(r), response))
    /\ UNCHANGED <<reload, inbound, original, action, plugin_path, sent, tunnel>>

\* The client goes away: the handler is dropped at an await.
Cancel(r) ==
    /\ pc[r] \notin {"idle", "answered", "gone", "panicked"}
    /\ Goto(r, "gone")
    /\ UNCHANGED <<reload, inbound, original, action, plugin_path, sent, executed, answer,
                   tunnel>>

-----------------------------------------------------------------------------
(* forward_plugin_request. *)

Name(r) == action[r].name

\* forward_plugin_request loads the registry once, for both of its stages.
SnapshotPlugins(r) ==
    /\ pc[r] = "plugin"
    /\ plugins' = [plugins EXCEPT ![r] = live_plugins]
    /\ Goto(r, "collect")
    /\ UNCHANGED <<reload, inbound, original, action, prepared, view, sent, executed,
                   answer, tunnel>>

\* The body is read only if on_request may see it.
collect_plugin_request_body(r) ==
    /\ pc[r] = "collect"
    /\ \/ Goto(r, "on_request") /\ UNCHANGED answer
       \/ request_body_access(plugins[r], Name(r)) /\ Respond(r, ErrorAnswer)
    /\ UNCHANGED <<reload, inbound, original, action, plugin_path, sent, executed, tunnel>>

build_plugin_headers(headers) == headers \ OpaqueHeaders

\* An empty body and a body that was not buffered both show as no body.
build_plugin_body(body, buffered) == IF buffered /\ body # "" THEN body ELSE None

NoPatch == [headers |-> <<>>]

\* prepare_plugin_request without a plan: direct, no match and no patch.
NoPlan == [outcome |-> [type |-> "direct"], matched |-> None, request_patch |-> NoPatch]

\* PluginRequestPlan::from_match.
from_match(matched) ==
    IF matched = None THEN NoPlan
    ELSE [outcome |-> matched.action, matched |-> matched, request_patch |-> NoPatch]

Failed == [failed |-> TRUE]

Ok(plan) == [failed |-> FALSE, plan |-> plan]

\* resolve_request, from what the script returned.  Without an action and without
\* a match the plan is none, whatever the request patch says.
resolve_request(plugin, url, output) ==
    LET matched == FindRule(plugin.rules, url)
        patch == IF Has(output, "request") THEN output.request ELSE NoPatch
    IN CASE output = None -> Ok(from_match(matched))
         [] output # None /\ ~Has(output, "action") /\ matched = None -> Ok(NoPlan)
         [] OTHER ->
            IF \/ Has(output, "action") /\ ~OutcomeIsValid(output.action)
               \/ ~ensure_body_patch_permission(plugin.permissions.on_request, patch)
            THEN Failed
            ELSE Ok([outcome |-> IF Has(output, "action") THEN output.action
                                 ELSE matched.action,
                     matched |-> matched, request_patch |-> patch])

\* The script's patches in the order of a HashMap; a set replaces a value.
apply_header_patches(headers, patches) ==
    FoldFunction(LAMBDA p, h : IF p.value = None THEN h \ {p.name} ELSE h \cup {p.name},
                 headers, patches)

LengthHeaders == {"content-length", "content-encoding"}

\* Mutant: the stale headers are removed before the patches are applied.
PatchedHeaders_RemoveFirst(headers, patch, stale) ==
    apply_header_patches(headers \ stale, patch.headers)

\* The headers that describe a replaced body go, even if the patches set them.
PatchedHeaders(headers, patch, stale) ==
    apply_header_patches(headers, patch.headers) \ stale

\* A patched URL also replaces the upstream URL of a mirror; a patched body loses
\* the headers that describe the old one.
prepare_plugin_request(i, url, buffered, plan) ==
    LET patch == plan.request_patch
        patched == Has(patch, "url")
        seen == IF patched THEN patch.url ELSE url
        headers == PatchedHeaders(i.headers, patch,
                                  IF Has(patch, "body") THEN LengthHeaders ELSE {})
        method == IF Has(patch, "method") THEN patch.method ELSE i.method
        body == IF Has(patch, "body") THEN patch.body ELSE i.body
    IN [method |-> method, headers |-> headers, body |-> body,
        context |-> [method |-> method, url |-> seen,
                     headers |-> build_plugin_headers(headers),
                     body |-> build_plugin_body(body, buffered \/ Has(patch, "body"))],
        outcome |-> IF patched /\ plan.outcome.type = "mirror"
                    THEN [plan.outcome EXCEPT !.upstream.url = patch.url] ELSE plan.outcome,
        matched |-> plan.matched]

resolve_plugin_upstream(p) ==
    IF p.outcome.type = "direct" THEN direct(p.context.url) ELSE p.outcome.upstream

\* What the request stage comes to: without the stage no script runs.
RequestPlans(r) ==
    LET plugin == Loaded(plugins[r], Name(r))
    IN IF plugin = None THEN {Ok(NoPlan)}
       ELSE IF "on_request" \in plugin.stages
       THEN {resolve_request(plugin, original[r], output) : output \in RequestOutputs}
              \cup {Failed}
       ELSE {Ok(from_match(FindRule(plugin.rules, original[r])))}

\* A method, URL or header of the patch that does not parse.
IsMalformed(plan) == Has(plan.request_patch, "malformed")

\* Mutant: the reject is looked at when the upstream has answered.
RequestStage_RejectIsSent(r) ==
    /\ pc[r] = "on_request"
    /\ \E result \in RequestPlans(r) :
         IF result.failed \/ IsMalformed(result.plan)
         THEN Respond(r, ErrorAnswer) /\ UNCHANGED <<prepared, sent>>
         ELSE LET p == prepare_plugin_request(inbound[r], original[r],
                           request_body_access(plugins[r], Name(r)), result.plan)
              IN /\ prepared' = [prepared EXCEPT ![r] = p]
                 /\ Send(r, IF p.outcome.type = "reject" THEN direct(p.context.url)
                            ELSE resolve_plugin_upstream(p), p)
                 /\ UNCHANGED answer
    /\ UNCHANGED <<reload, inbound, original, action, plugins, view, executed, tunnel>>

RequestStage(r) ==
    /\ pc[r] = "on_request"
    /\ \E result \in RequestPlans(r) :
         IF result.failed \/ IsMalformed(result.plan)
         THEN Respond(r, ErrorAnswer) /\ UNCHANGED <<prepared, sent>>
         ELSE LET p == prepare_plugin_request(inbound[r], original[r],
                           request_body_access(plugins[r], Name(r)), result.plan)
              IN /\ prepared' = [prepared EXCEPT ![r] = p]
                 /\ IF p.outcome.type = "reject"
                    THEN reject_response(r, RejectStatus(p.outcome)) /\ UNCHANGED sent
                    ELSE Send(r, resolve_plugin_upstream(p), p) /\ UNCHANGED answer
    /\ UNCHANGED <<reload, inbound, original, action, plugins, view, executed, tunnel>>

collect_upstream_response(r) ==
    /\ pc[r] = "collect_response"
    /\ \/ Goto(r, "on_response") /\ UNCHANGED answer
       \/ response_body_access(plugins[r], Name(r)) /\ Respond(r, ErrorAnswer)
    /\ UNCHANGED <<reload, inbound, original, action, plugin_path, sent, executed, tunnel>>

\* What on_response is given.
ResponseView(r) ==
    [request |-> prepared[r].context, matched |-> prepared[r].matched,
     resolved_action |-> prepared[r].outcome,
     response |-> [executed[r] EXCEPT
                     !.headers = build_plugin_headers(@),
                     !.body = build_plugin_body(@, response_body_access(plugins[r], Name(r)))]]

\* finalize_buffered_plugin_response and finalize_streaming_plugin_response: only
\* the first removes the headers that describe the replaced body.
Finalize(r, patch) ==
    LET status == IF Has(patch, "status") THEN patch.status ELSE executed[r].status
        stale == IF Has(patch, "body") /\ response_body_access(plugins[r], Name(r))
                 THEN LengthHeaders ELSE {}
    IN [kind |-> "upstream", target |-> sent[r].plan.url, status |-> status,
        headers |-> PatchedHeaders(executed[r].headers, patch, stale),
        body |-> IF Has(patch, "body") THEN patch.body ELSE executed[r].body]

ResponsePatch(output) == IF output = None THEN NoPatch ELSE output

\* The response stage of a registry.
RunResponseStage(r, registry) ==
    /\ pc[r] = "on_response"
    /\ IF HasStage(registry, Name(r), "on_response")
       THEN /\ view' = [view EXCEPT ![r] = ResponseView(r)]
            /\ \/ Respond(r, ErrorAnswer)
               \/ \E output \in ResponseOutputs :
                    LET patch == ResponsePatch(output)
                    IN Respond(r, IF \/ Has(patch, "malformed")
                                     \/ ~ensure_body_patch_permission(
                                            registry.plugins[Name(r)].permissions.on_response,
                                            patch)
                                  THEN ErrorAnswer ELSE Finalize(r, patch))
       ELSE Respond(r, Finalize(r, NoPatch)) /\ UNCHANGED view
    /\ UNCHANGED <<reload, inbound, original, action, plugins, prepared, sent, executed,
                   tunnel>>

\* Mutant: the response stage runs in the registry that is live by now.
ResponseStage_LiveRegistry(r) == RunResponseStage(r, live_plugins)

ResponseStage(r) == RunResponseStage(r, plugins[r])

-----------------------------------------------------------------------------
Init ==
    /\ live_rules \in RuleSets
    /\ \E options \in PluginOptions :
         Builds(options) /\ live_plugins = build(options, live_rules)
    /\ building = None
    /\ pc = [r \in Requests |-> "idle"]
    /\ inbound = [r \in Requests |-> None]
    /\ original = [r \in Requests |-> None]
    /\ action = [r \in Requests |-> NoRule]
    /\ plugins = [r \in Requests |-> None]
    /\ prepared = [r \in Requests |-> None]
    /\ sent = [r \in Requests |-> None]
    /\ executed = [r \in Requests |-> None]
    /\ view = [r \in Requests |-> None]
    /\ answer = [r \in Requests |-> None]
    /\ tunnel = [r \in Requests |-> NoTunnel]

Next ==
    \/ \E rules \in RuleSets : ReplaceRules(rules)
    \/ \E options \in PluginOptions : StartBuild(options)
    \/ ReplacePlugins
    \/ \E r \in Requests :
         \/ \E target \in Targets, stream \in Streams : handle_connect(r, target, stream)
         \/ sniff_connect_stream(r)
         \/ PrefixedRead(r)
         \/ proxy_tunnel(r)
         \/ \E i \in Inbounds : Receive(r, i)
         \/ forward_request(r)
         \/ respond_response(r)
         \/ SnapshotPlugins(r)
         \/ collect_plugin_request_body(r)
         \/ RequestStage(r)
         \/ Execute(r)
         \/ collect_upstream_response(r)
         \/ ResponseStage(r)
         \/ Cancel(r)

Spec == Init /\ [][Next]_vars

-----------------------------------------------------------------------------
(* Properties. *)

IsAsteriskForm(i) == i.absolute = None /\ i.path[1] # Slash

\* A request that comes in a CONNECT tunnel is about the tunnel's scheme and port, and,
\* unless it is an asterisk-form request (OPTIONS *), about its host and no other
\* (resolve_explicit_https_target, which checks an absolute URI against the target and
\* puts the others together from it).
TunnelStaysOnTarget ==
    \A r \in Requests :
        inbound[r] # None /\ original[r] # None =>
            (inbound[r].entry = "explicit-https" =>
                /\ original[r].scheme = "https"
                /\ original[r].port = tunnel[r].target.port
                /\ IsAsteriskForm(inbound[r]) \/
                       [original[r].host EXCEPT !.bracketed = FALSE] = tunnel[r].target.host)

\* However the bytes of a CONNECT stream arrive, the sniffed ones are passed on
\* once, in order and first, and they alone decide between interception and a
\* plain tunnel (sniff_connect_stream, PrefixedIo, proxy_tunnel).
TunnelKeepsBytes ==
    \A r \in Requests :
        LET t == tunnel[r]
            peeked == Take(t.stream, IF Len(t.stream) < 2 THEN Len(t.stream) ELSE 2)
        IN /\ t.out \o t.prefix \o t.input = t.stream
           /\ t.pc = "tls" => looks_like_tls_client_hello(peeked)
           /\ t.pc \in {"dial", "copy"} => ~looks_like_tls_client_hello(peeked)

\* on_response runs in the registry on_request ran in, although that may have been
\* replaced since, and what it is told was executed is what the executor was given:
\* the request after the patches, the compiled match and the final action
\* (run_plugin_response_stage).
ResponseSeesWhatWasSent ==
    \A r \in Requests : view[r] # None =>
        LET v == view[r]
        IN /\ HasStage(plugins[r], Name(r), "on_response")
           /\ v.request.method = sent[r].method
           /\ v.request.headers = build_plugin_headers(sent[r].headers)
           /\ v.request.body # None => v.request.body = sent[r].body
           /\ sent[r].plan = IF v.resolved_action.type = "direct" THEN direct(v.request.url)
                             ELSE v.resolved_action.upstream
           /\ v.matched = FindRule(plugins[r].plugins[Name(r)].rules, original[r])

ResponseBodyReplaced(r) ==
    /\ answer[r] # None /\ answer[r].kind = "upstream"
    /\ answer[r].body # executed[r].body

\* A plugin sees and replaces the body of a request or of a response only with the
\* permission its definition had in the registry the request started with.
BodiesNeedPermission ==
    \A r \in Requests : plugins[r] # None /\ sent[r] # None =>
        LET may(stage) == /\ Loaded(plugins[r], Name(r)) # None
                          /\ plugins[r].plugins[Name(r)].permissions[stage]
        IN /\ sent[r].body # inbound[r].body => may("on_request")
           /\ view[r] # None =>
                /\ view[r].request.body # None => may("on_request")
                /\ view[r].response.body # None => may("on_response")
           /\ ResponseBodyReplaced(r) => may("on_response")

\* No body a plugin replaced travels with the length or the encoding of the one
\* it replaced: the branch of finalize_streaming_plugin_response that would keep
\* them is never taken.
NoStaleLength ==
    \A r \in Requests : sent[r] # None =>
        /\ sent[r].body # inbound[r].body => sent[r].headers \cap LengthHeaders = {}
        /\ ResponseBodyReplaced(r) => answer[r].headers \cap LengthHeaders = {}

\* A rejected request is never sent and on_response does not run for it, whether a
\* rule, the compiled program or on_request rejects it.
RejectIsFinal ==
    \A r \in Requests :
        (\/ action[r].type = "reject"
         \/ prepared[r] # None /\ prepared[r].outcome.type = "reject")
            => sent[r] = None /\ view[r] = None

\* The stage of ForwardingContract that a request is at.
ContractStage(at) ==
    CASE at = "forward" -> "open"
      [] at = "respond" -> "local"
      [] at \in {"plugin", "collect", "on_request"} -> "plugin"
      [] at = "execute" -> "upstream"
      [] at \in {"collect_response", "on_response"} -> "returned"
      [] at = "panicked" -> "gone"
      [] OTHER -> at

Contract ==
    INSTANCE ForwardingContract WITH
        rules <- live_rules,
        stage <- [r \in Requests |-> ContractStage(pc[r])],
        target <- original,
        returned <- executed,
        reply <- answer

\* Forwarding keeps its promise: whatever is reloaded meanwhile and whatever fails,
\* a request is decided by one set of rules, goes to at most one upstream, the one
\* its action or its plugin names, and is answered at most once, by that upstream,
\* by the rule, by the plugin or with an error (gateway/forwarding).
ImplementsForwarding == Contract!Spec
=============================================================================
