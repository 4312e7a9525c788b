------------------------- MODULE RequestFlowProofs -------------------------
(***************************************************************************)
(* Proofs about RequestFlow, for any number of requests and any rules,     *)
(* plugin configurations, script outputs, responses and streams: what a    *)
(* plugin is told of a request is what was sent, bodies are replaced with  *)
(* permission and without stale headers, a reject is final, and a CONNECT  *)
(* stream keeps its bytes and its target.  And the steps of a request are  *)
(* steps of ForwardingContract.                                            *)
(*                                                                         *)
(* A step of a request changes no other request, and the variables of one  *)
(* request are written in the order of its stages.  The invariant says at  *)
(* which stage which of them is still empty, and that from the execution   *)
(* on what was prepared is what was sent.                                  *)
(***************************************************************************)
EXTENDS RequestFlow, SequenceTheorems, TLAPS

Shape ==
    /\ DOMAIN pc = Requests
    /\ DOMAIN inbound = Requests
    /\ DOMAIN original = Requests
    /\ DOMAIN action = Requests
    /\ DOMAIN plugins = Requests
    /\ DOMAIN prepared = Requests
    /\ DOMAIN sent = Requests
    /\ DOMAIN executed = Requests
    /\ DOMAIN view = Requests
    /\ DOMAIN answer = Requests

\* The state of a request is as it was.
Kept(r) ==
    /\ pc'[r] = pc[r]
    /\ inbound'[r] = inbound[r]
    /\ original'[r] = original[r]
    /\ action'[r] = action[r]
    /\ plugins'[r] = plugins[r]
    /\ prepared'[r] = prepared[r]
    /\ sent'[r] = sent[r]
    /\ executed'[r] = executed[r]
    /\ view'[r] = view[r]
    /\ answer'[r] = answer[r]

Moves(r) ==
    \/ \E i \in Inbounds : Receive(r, i)
    \/ forward_request(r)
    \/ respond_response(r)
    \/ SnapshotPlugins(r)
    \/ collect_plugin_request_body(r)
    \/ RequestStage(r)
    \/ Execute(r)
    \/ collect_upstream_response(r)
    \/ ResponseStage(r)
    \/ Cancel(r)

\* The stages before anything is sent, those after it and the ends.
Early == {"idle", "forward", "respond", "plugin", "collect", "on_request"}
Late == {"execute", "collect_response", "on_response"}
Over == {"answered", "gone", "panicked"}
InPlugin == {"plugin", "collect", "on_request", "collect_response", "on_response"}

\* Which variables a stage finds empty, and which actions lead to it.
Stage(r) ==
    /\ pc[r] \in Early \cup Late \cup Over
    /\ pc[r] = "idle" => inbound[r] = None
    /\ pc[r] \in {"idle", "forward"} => action[r] = NoRule
    /\ pc[r] = "respond" => action[r].type = "respond"
    /\ pc[r] \in InPlugin => action[r].type = "plugin"
    /\ pc[r] \in Early => prepared[r] = None /\ sent[r] = None
    /\ pc[r] # "answered" => view[r] = None /\ answer[r] = None
    /\ action[r].type # "plugin" => plugins[r] = None /\ prepared[r] = None /\ view[r] = None

\* What is executed was not rejected.
Allowed(r) ==
    pc[r] \in Late =>
        /\ action[r].type # "reject"
        /\ prepared[r] # None => prepared[r].outcome.type # "reject"

\* What a plugin prepared is what was sent.
Carried(r) ==
    pc[r] \in Late /\ action[r].type = "plugin" =>
        /\ sent[r].plan = resolve_plugin_upstream(prepared[r])
        /\ sent[r].method = prepared[r].context.method
        /\ build_plugin_headers(sent[r].headers) = prepared[r].context.headers
        /\ prepared[r].context.body # None => prepared[r].context.body = sent[r].body
        /\ Loaded(plugins[r], Name(r)) # None =>
             /\ prepared[r].matched = FindRule(plugins[r].plugins[Name(r)].rules, original[r])
             /\ prepared[r].context.body # None =>
                    plugins[r].plugins[Name(r)].permissions.on_request

\* What an upstream answered.
Responded(r) ==
    pc[r] \in {"collect_response", "on_response"} => executed[r] \in Responses

FlowInv ==
    /\ Shape
    /\ \A r \in Requests : Stage(r) /\ Allowed(r) /\ Carried(r) /\ Responded(r)

-----------------------------------------------------------------------------
(* Steps. *)

ReloadStep ==
    \/ \E rules \in RuleSets : ReplaceRules(rules)
    \/ \E options \in PluginOptions : StartBuild(options)
    \/ ReplacePlugins

TunnelStep(r) ==
    \/ \E target \in Targets, stream \in Streams : handle_connect(r, target, stream)
    \/ sniff_connect_stream(r)
    \/ PrefixedRead(r)
    \/ proxy_tunnel(r)

\* A step is a reload, a step of a CONNECT stream or a step of a request.
LEMMA StepKinds ==
    Next => ReloadStep \/ \E r \in Requests : TunnelStep(r) \/ Moves(r)
BY Zenon DEF Next, ReloadStep, TunnelStep, Moves

\* How a request goes on with the action a of its rule.
Forwarded(r, a) ==
    \/ a.type = "reject" /\ reject_response(r, a.status) /\ UNCHANGED sent
    \/ a.type = "respond" /\ Goto(r, "respond") /\ UNCHANGED <<answer, sent>>
    \/ a.type = "plugin" /\ Goto(r, "plugin") /\ UNCHANGED <<answer, sent>>
    \/ /\ a.type \notin {"reject", "respond", "plugin"}
       /\ \E plan : Send(r, plan, inbound[r])
       /\ UNCHANGED answer

\* forward_request follows the action the rules resolve to.
LEMMA ForwardCases ==
    ASSUME NEW r, forward_request(r)
    PROVE  \E a : action' = [action EXCEPT ![r] = a] /\ Forwarded(r, a)
<1> DEFINE a == resolve(live_rules, original[r])
<1>1. action' = [action EXCEPT ![r] = a]
  BY Zenon DEF forward_request
<1>2. (CASE a.type = "reject" -> reject_response(r, a.status) /\ UNCHANGED sent
        [] a.type = "respond" -> Goto(r, "respond") /\ UNCHANGED <<answer, sent>>
        [] a.type = "plugin"  -> Goto(r, "plugin") /\ UNCHANGED <<answer, sent>>
        [] a.type = "mirror"  -> Send(r, a.upstream, inbound[r]) /\ UNCHANGED answer
        [] OTHER -> Send(r, direct(original[r]), inbound[r]) /\ UNCHANGED answer)
  BY Zenon DEF forward_request
<1>3. PICK b : b = a
  BY Zenon
<1>4. Forwarded(r, b)
  <2> HIDE DEF a
  <2>1. CASE b.type = "reject"
    BY <1>2, <1>3, <2>1, Zenon DEF Forwarded
  <2>2. CASE b.type = "respond"
    BY <1>2, <1>3, <2>2, Zenon DEF Forwarded
  <2>3. CASE b.type = "plugin"
    BY <1>2, <1>3, <2>3, Zenon DEF Forwarded
  <2>4. CASE b.type = "mirror"
    BY <1>2, <1>3, <2>4, Zenon DEF Forwarded
  <2>5. CASE b.type \notin {"reject", "respond", "plugin", "mirror"}
    BY <1>2, <1>3, <2>5, Zenon DEF Forwarded
  <2> QED BY <2>1, <2>2, <2>3, <2>4, <2>5, Zenon
<1> QED BY <1>1, <1>3, <1>4, Zenon

\* How a plugin's request goes on once it is prepared.
Planned(r, p) ==
    /\ prepared' = [prepared EXCEPT ![r] = p]
    /\ \/ /\ p.outcome.type = "reject"
          /\ reject_response(r, RejectStatus(p.outcome))
          /\ UNCHANGED sent
       \/ /\ p.outcome.type # "reject"
          /\ Send(r, resolve_plugin_upstream(p), p)
          /\ UNCHANGED answer

\* The request stage fails, or prepares the request by one of its plans.
LEMMA RequestStageCases ==
    ASSUME NEW r, RequestStage(r)
    PROVE  \/ Respond(r, ErrorAnswer) /\ UNCHANGED <<prepared, sent>>
           \/ \E p : /\ Planned(r, p)
                     /\ \E result \in RequestPlans(r) :
                          /\ ~result.failed
                          /\ p = prepare_plugin_request(inbound[r], original[r],
                                     request_body_access(plugins[r], Name(r)), result.plan)
<1>1. PICK result \in RequestPlans(r) :
         IF result.failed \/ IsMalformed(result.plan)
         THEN Respond(r, ErrorAnswer) /\ UNCHANGED <<prepared, sent>>
         ELSE LET p == prepare_plugin_request(inbound[r], original[r],
                           request_body_access(plugins[r], Name(r)), result.plan)
              IN /\ prepared' = [prepared EXCEPT ![r] = p]
                 /\ IF p.outcome.type = "reject"
                    THEN reject_response(r, RejectStatus(p.outcome)) /\ UNCHANGED sent
                    ELSE Send(r, resolve_plugin_upstream(p), p) /\ UNCHANGED answer
  BY Zenon DEF RequestStage
<1>2. CASE result.failed \/ IsMalformed(result.plan)
  BY <1>1, <1>2, Zenon
<1>3. CASE ~(result.failed \/ IsMalformed(result.plan))
  <2>1. PICK p : p = prepare_plugin_request(inbound[r], original[r],
                         request_body_access(plugins[r], Name(r)), result.plan)
    BY Zenon
  <2>2. Planned(r, p)
    BY <1>1, <1>3, <2>1, Zenon DEF Planned
  <2> QED BY <1>3, <2>1, <2>2, Zenon
<1> QED BY <1>2, <1>3, Zenon

\* A step of a request writes the state of that request only, and leaves the
\* CONNECT streams alone.
LEMMA MovesOne ==
    ASSUME Shape, NEW r \in Requests, Moves(r)
    PROVE  /\ Shape'
           /\ \A s \in Requests \ {r} : Kept(s)
           /\ UNCHANGED tunnel
<1>1. CASE \E i \in Inbounds : Receive(r, i)
  BY <1>1 DEF Receive, Respond, Goto, Shape, Kept, reload, plugin_path
<1>2. CASE forward_request(r)
  <2>1. UNCHANGED <<inbound, original, plugins, prepared, view, executed, tunnel>>
    BY <1>2, Zenon DEF forward_request, plugin_path
  <2>2. PICK a : action' = [action EXCEPT ![r] = a] /\ Forwarded(r, a)
    BY <1>2, ForwardCases, ZenonT(40)
  <2>3. /\ DOMAIN pc' = Requests /\ DOMAIN sent' = Requests /\ DOMAIN answer' = Requests
        /\ \A s \in Requests \ {r} : /\ pc'[s] = pc[s] /\ sent'[s] = sent[s]
                                     /\ answer'[s] = answer[s]
    BY <2>2, SMTT(30) DEF Forwarded, reject_response, Respond, Goto, Send, Shape
  <2> QED BY <2>1, <2>2, <2>3, Zenon DEF Shape, Kept
<1>3. CASE respond_response(r)
  BY <1>3, Zenon DEF respond_response, Respond, Goto, Shape, Kept, reload, plugin_path
<1>4. CASE SnapshotPlugins(r)
  BY <1>4, Zenon DEF SnapshotPlugins, Goto, Shape, Kept, reload
<1>5. CASE collect_plugin_request_body(r)
  BY <1>5, ZenonT(40) DEF collect_plugin_request_body, Respond, Goto, Shape, Kept, reload, plugin_path
<1>6. CASE RequestStage(r)
  <2>1. UNCHANGED <<inbound, original, action, plugins, view, executed, tunnel>>
    BY <1>6, Zenon DEF RequestStage
  <2>2. \/ Respond(r, ErrorAnswer) /\ UNCHANGED <<prepared, sent>>
        \/ \E p : Planned(r, p)
    BY <1>6, RequestStageCases, ZenonT(40)
  <2>4. CASE Respond(r, ErrorAnswer) /\ UNCHANGED <<prepared, sent>>
    BY <2>1, <2>4, ZenonT(40) DEF Respond, Goto, Shape, Kept
  <2>5. ASSUME NEW p, Planned(r, p)
        PROVE  Shape' /\ \A s \in Requests \ {r} : Kept(s)
    <3>1. prepared' = [prepared EXCEPT ![r] = p]
      BY <2>5, ZenonT(40) DEF Planned
    <3>2. /\ DOMAIN pc' = Requests /\ DOMAIN sent' = Requests /\ DOMAIN answer' = Requests
          /\ \A s \in Requests \ {r} : /\ pc'[s] = pc[s] /\ sent'[s] = sent[s]
                                       /\ answer'[s] = answer[s]
      <4>1. CASE p.outcome.type = "reject"
        <5>1. PICK status : reject_response(r, status) /\ UNCHANGED sent
          BY <2>5, <4>1, Zenon DEF Planned
        <5> QED BY <5>1 DEF reject_response, Respond, Goto, Shape
      <4>2. CASE p.outcome.type # "reject"
        <5>1. PICK plan : Send(r, plan, p) /\ UNCHANGED answer
          BY <2>5, <4>2, Zenon DEF Planned
        <5> QED BY <5>1, Zenon DEF Send, Goto, Shape
      <4> QED BY <4>1, <4>2, ZenonT(40)
    <3> QED BY <2>1, <3>1, <3>2, Zenon DEF Shape, Kept
  <2> QED BY <2>1, <2>2, <2>4, <2>5, ZenonT(40)
<1>7. CASE Execute(r)
  BY <1>7, ZenonT(40) DEF Execute, Respond, Goto, Shape, Kept, reload, plugin_path
<1>8. CASE collect_upstream_response(r)
  BY <1>8, Zenon DEF collect_upstream_response, Respond, Goto, Shape, Kept, reload, plugin_path
<1>9. CASE ResponseStage(r)
  BY <1>9, ZenonT(40) DEF ResponseStage, RunResponseStage, Respond, Goto, Shape, Kept, reload
<1>10. CASE Cancel(r)
  BY <1>10, Zenon DEF Cancel, Goto, Shape, Kept, reload, plugin_path
<1> QED BY <1>1, <1>2, <1>3, <1>4, <1>5, <1>6, <1>7, <1>8, <1>9, <1>10, ZenonT(40) DEF Moves

\* Reloads and CONNECT streams touch no request.
LEMMA OthersKeep ==
    ASSUME Shape, ReloadStep \/ (\E r \in Requests : TunnelStep(r)) \/ UNCHANGED vars
    PROVE  Shape' /\ \A s \in Requests : Kept(s)
<1>1. UNCHANGED <<pc, inbound, original, action, plugins, prepared, sent, executed, view,
                  answer>>
  <2>1. CASE ReloadStep
    BY <2>1, Zenon DEF ReloadStep, ReplaceRules, StartBuild, ReplacePlugins, plugin_path
  <2>2. CASE \E r \in Requests : TunnelStep(r)
    <3>1. UNCHANGED Flow
      BY <2>2, ZenonT(40) DEF TunnelStep, handle_connect, sniff_connect_stream, PrefixedRead,
         proxy_tunnel
    <3> QED BY <3>1, Zenon DEF Flow, plugin_path
  <2>3. CASE UNCHANGED vars
    BY <2>3, Zenon DEF vars, plugin_path
  <2> QED BY <2>1, <2>2, <2>3, Zenon
<1> QED BY <1>1, Zenon DEF Shape, Kept

\* For any one request, a step keeps its state or is a step of its own.
LEMMA StepAt ==
    ASSUME Shape, [Next]_vars
    PROVE  Shape' /\ \A s \in Requests : Kept(s) \/ Moves(s)
<1>1. CASE Next
  <2>1. CASE ReloadStep \/ \E r \in Requests : TunnelStep(r)
    BY <2>1, OthersKeep, Zenon
  <2>2. CASE \E r \in Requests : Moves(r)
    BY <2>2, MovesOne, Zenon
  <2> QED BY <1>1, <2>1, <2>2, StepKinds, Zenon
<1>2. CASE UNCHANGED vars
  BY <1>2, OthersKeep, Zenon
<1> QED BY <1>1, <1>2, Zenon

-----------------------------------------------------------------------------
(* What the request stage prepares. *)

\* A plan that comes from a match keeps it and patches nothing.
LEMMA FromMatch ==
    ASSUME NEW m
    PROVE  /\ from_match(m).matched = m
           /\ ~Has(from_match(m).request_patch, "body")
<1>1. CASE m = None
  BY <1>1, Zenon DEF from_match, NoPlan, NoPatch, Has
<1>2. CASE m # None
  BY <1>2, Zenon DEF from_match, NoPatch, Has
<1> QED BY <1>1, <1>2, Zenon

\* A plan that resolve_request accepts carries the compiled match, and replaces the
\* body only with the permission of on_request.
LEMMA ResolveRequest ==
    ASSUME NEW plugin, NEW url, NEW output, ~resolve_request(plugin, url, output).failed
    PROVE  LET plan == resolve_request(plugin, url, output).plan
           IN /\ plan.matched = FindRule(plugin.rules, url)
              /\ Has(plan.request_patch, "body") => plugin.permissions.on_request
<1> DEFINE result == resolve_request(plugin, url, output)
<1>1. PICK matched : matched = FindRule(plugin.rules, url)
  BY Zenon
<1>2. PICK patch : patch = IF Has(output, "request") THEN output.request ELSE NoPatch
  BY Zenon
<1>3. CASE output = None
  <2>1. result = Ok(from_match(matched))
    BY <1>1, <1>3, Zenon DEF resolve_request
  <2> QED BY <1>1, <2>1, FromMatch DEF Ok
<1>4. CASE output # None /\ ~Has(output, "action") /\ matched = None
  <2>1. result = Ok(NoPlan)
    BY <1>1, <1>4, Zenon DEF resolve_request
  <2> QED BY <1>1, <1>4, <2>1 DEF Ok, NoPlan, NoPatch, Has
<1>5. CASE ~(output = None \/ (output # None /\ ~Has(output, "action") /\ matched = None))
  <2>1. result = IF \/ Has(output, "action") /\ ~OutcomeIsValid(output.action)
                    \/ ~ensure_body_patch_permission(plugin.permissions.on_request, patch)
                 THEN Failed
                 ELSE Ok([outcome |-> IF Has(output, "action") THEN output.action
                                      ELSE matched.action,
                          matched |-> matched, request_patch |-> patch])
    BY <1>1, <1>2, <1>5, Zenon DEF resolve_request
  <2>2. ensure_body_patch_permission(plugin.permissions.on_request, patch)
    BY <2>1 DEF Failed
  <2>3. result.plan.matched = matched /\ result.plan.request_patch = patch
    BY <2>1 DEF Failed, Ok
  <2> QED BY <1>1, <2>2, <2>3, Zenon DEF ensure_body_patch_permission
<1> QED BY <1>3, <1>4, <1>5, Zenon

\* The same of every plan of the request stage.
LEMMA PlanFacts ==
    ASSUME NEW r, NEW result \in RequestPlans(r), ~result.failed
    PROVE  /\ Loaded(plugins[r], Name(r)) # None =>
                result.plan.matched = FindRule(plugins[r].plugins[Name(r)].rules, original[r])
           /\ Has(result.plan.request_patch, "body") =>
                /\ Loaded(plugins[r], Name(r)) # None
                /\ plugins[r].plugins[Name(r)].permissions.on_request
<1>1. PICK plugin : plugin = Loaded(plugins[r], Name(r))
  BY Zenon
<1>2. CASE plugin = None
  <2>1. result = Ok(NoPlan)
    BY <1>1, <1>2, Zenon DEF RequestPlans
  <2> QED BY <1>1, <1>2, <2>1, Zenon DEF Ok, NoPlan, NoPatch, Has
<1>3. CASE plugin # None
  <2>1. plugin = plugins[r].plugins[Name(r)]
    BY <1>1, <1>3, ZenonT(40) DEF Loaded
  <2>2. CASE "on_request" \in plugin.stages
    <3>1. PICK output : result = resolve_request(plugin, original[r], output)
      BY <1>1, <1>3, <2>2 DEF RequestPlans, Failed
    <3>2. /\ result.plan.matched = FindRule(plugin.rules, original[r])
          /\ Has(result.plan.request_patch, "body") => plugin.permissions.on_request
      BY <3>1, ResolveRequest, Zenon
    <3> QED BY <1>1, <1>3, <2>1, <3>2, Zenon
  <2>3. CASE "on_request" \notin plugin.stages
    <3>1. result = Ok(from_match(FindRule(plugin.rules, original[r])))
      BY <1>1, <1>3, <2>3, Zenon DEF RequestPlans
    <3> QED BY <1>1, <1>3, <2>1, <3>1, FromMatch, ZenonT(40) DEF Ok
  <2> QED BY <2>2, <2>3, Zenon
<1> QED BY <1>2, <1>3, Zenon

\* The context of a prepared request is that request; its body is the client's or
\* a patch, and then the headers that described the client's are gone.
LEMMA PreparedFacts ==
    ASSUME NEW i, NEW url, NEW buffered, NEW plan, NEW p,
           p = prepare_plugin_request(i, url, buffered, plan)
    PROVE  /\ p.context.method = p.method
           /\ p.context.headers = build_plugin_headers(p.headers)
           /\ p.context.body # None =>
                /\ p.context.body = p.body
                /\ ~Has(plan.request_patch, "body") => buffered
           /\ p.matched = plan.matched
           /\ p.body # i.body => Has(plan.request_patch, "body")
           /\ Has(plan.request_patch, "body") => p.headers \cap LengthHeaders = {}
<1> DEFINE patched == Has(plan.request_patch, "body")
<1>1. PICK headers : headers = PatchedHeaders(i.headers, plan.request_patch,
                                   IF patched THEN LengthHeaders ELSE {})
  BY Zenon
<1>2. /\ p.headers = headers
      /\ p.body = IF patched THEN plan.request_patch.body ELSE i.body
      /\ p.context.headers = build_plugin_headers(headers)
      /\ p.context.body = build_plugin_body(p.body, buffered \/ patched)
      /\ p.context.method = p.method
      /\ p.matched = plan.matched
  BY <1>1, Zenon DEF prepare_plugin_request
<1>3. patched => headers \cap LengthHeaders = {}
  BY <1>1, Zenon DEF PatchedHeaders
<1>4. p.context.body # None => p.context.body = p.body /\ (~patched => buffered)
  BY <1>2, Zenon DEF build_plugin_body
<1> HIDE DEF patched
<1>5. p.body # i.body => patched
  BY <1>2, Zenon
<1> QED BY <1>2, <1>3, <1>4, <1>5, Zenon DEF patched

-----------------------------------------------------------------------------
(* The invariant. *)

Good(r) == Stage(r) /\ Allowed(r) /\ Carried(r) /\ Responded(r)

\* Nothing has happened yet.
LEMMA FlowInvInit == Init => FlowInv
<1> SUFFICES ASSUME Init PROVE FlowInv
  BY Zenon
<1>1. Shape
  BY Zenon DEF Init, Shape
<1>2. ASSUME NEW r \in Requests PROVE Good(r)
  BY Zenon DEF Init, Good, Stage, Allowed, Carried, Responded, Early, Late, Over, InPlugin, NoRule
<1> QED BY <1>1, <1>2, Zenon DEF FlowInv, Good

\* What a step leaves alone stays good.
LEMMA KeptGood ==
    ASSUME NEW r \in Requests, Good(r), Kept(r)
    PROVE  Good(r)'
<1>1. Stage(r)' /\ Allowed(r)' /\ Responded(r)'
  BY ZenonT(40) DEF Good, Kept, Stage, Allowed, Responded
<1>2. Carried(r)'
  BY Zenon DEF Good, Kept, Carried, Name
<1> QED BY <1>1, <1>2, Zenon DEF Good

\* A request that is received, and one that its rule forwards.
LEMMA ReceiveGood ==
    ASSUME Shape, NEW r \in Requests, Good(r), NEW i \in Inbounds, Receive(r, i)
    PROVE  Good(r)'
<1>1. /\ pc[r] = "idle" /\ pc'[r] \in {"forward", "answered"}
      /\ action'[r] = action[r] /\ plugins'[r] = plugins[r] /\ prepared'[r] = prepared[r]
      /\ sent'[r] = sent[r] /\ view'[r] = view[r] /\ executed'[r] = executed[r]
      /\ pc'[r] = "forward" => answer'[r] = answer[r]
  BY Zenon DEF Receive, Respond, Goto, Shape, plugin_path
<1> QED BY <1>1, ZenonT(40) DEF Good, Stage, Allowed, Carried, Responded, Early, Late, Over, InPlugin, NoRule

\* forward_request moves to the stage its rule's outcome asks for, or answers.
LEMMA ForwardGood ==
    ASSUME Shape, NEW r \in Requests, Good(r), forward_request(r)
    PROVE  Good(r)'
<1>1. /\ pc[r] = "forward"
      /\ plugins'[r] = plugins[r] /\ prepared'[r] = prepared[r] /\ view'[r] = view[r]
  BY Zenon DEF forward_request, plugin_path
<1>2. PICK a : action' = [action EXCEPT ![r] = a] /\ Forwarded(r, a)
  BY ForwardCases, Zenon
<1>3. action'[r] = a
  BY <1>2, ZenonT(40) DEF Shape
<1>4. \/ /\ a.type = "reject"
         /\ pc'[r] \in {"answered", "panicked"}
         /\ pc'[r] = "panicked" => answer'[r] = answer[r]
         /\ UNCHANGED sent
      \/ a.type = "respond" /\ pc'[r] = "respond" /\ UNCHANGED <<answer, sent>>
      \/ a.type = "plugin" /\ pc'[r] = "plugin" /\ UNCHANGED <<answer, sent>>
      \/ /\ a.type \notin {"reject", "respond", "plugin"}
         /\ pc'[r] = "execute" /\ UNCHANGED answer
  BY <1>2, SMTT(30) DEF Forwarded, reject_response, Respond, Send, Goto, Shape
<1>5. view[r] = None /\ answer[r] = None /\ prepared[r] = None /\ sent[r] = None
      /\ plugins[r] = None
  BY <1>1 DEF Good, Stage, Early, NoRule
<1>6. Stage(r)'
  BY <1>1, <1>3, <1>4, <1>5, ZenonT(40) DEF Stage, Early, Late, Over, InPlugin
<1>7. Allowed(r)' /\ Carried(r)' /\ Responded(r)'
  BY <1>1, <1>3, <1>4, <1>5, ZenonT(40) DEF Allowed, Carried, Responded, Late
<1> QED BY <1>6, <1>7, Zenon DEF Good

\* Steps that only move on, answer or give up.
LEMMA PlainGood ==
    ASSUME Shape, NEW r \in Requests, Good(r),
           \/ respond_response(r)
           \/ collect_plugin_request_body(r)
           \/ collect_upstream_response(r)
           \/ Cancel(r)
    PROVE  Good(r)'
<1>1. /\ original'[r] = original[r] /\ action'[r] = action[r] /\ plugins'[r] = plugins[r]
      /\ prepared'[r] = prepared[r] /\ sent'[r] = sent[r] /\ executed'[r] = executed[r]
      /\ view'[r] = view[r]
  BY Zenon DEF respond_response, collect_plugin_request_body, collect_upstream_response, Cancel,
     plugin_path
<1>2. \/ pc'[r] = "answered"
      \/ pc'[r] = "gone" /\ pc[r] # "answered" /\ answer'[r] = answer[r]
      \/ pc[r] = "collect" /\ pc'[r] = "on_request" /\ answer'[r] = answer[r]
      \/ pc[r] = "collect_response" /\ pc'[r] = "on_response" /\ answer'[r] = answer[r]
  BY Zenon DEF respond_response, collect_plugin_request_body, collect_upstream_response, Cancel,
     Respond, Goto, Shape
<1>3. Stage(r)'
  BY <1>1, <1>2, Zenon DEF Good, Stage, Early, Late, Over, InPlugin
<1>4. Allowed(r)' /\ Responded(r)'
  BY <1>1, <1>2, Zenon DEF Good, Allowed, Responded, Late
<1>5. pc'[r] \in Late => pc[r] \in Late
  BY <1>2, Zenon DEF Late
<1>6. Carried(r)'
  BY <1>1, <1>5, Zenon DEF Good, Carried, Name
<1> QED BY <1>3, <1>4, <1>6, ZenonT(40) DEF Good

\* The snapshot of the registry is taken once, before anything is prepared.
LEMMA SnapshotGood ==
    ASSUME Shape, NEW r \in Requests, Good(r), SnapshotPlugins(r)
    PROVE  Good(r)'
<1>1. /\ pc[r] = "plugin" /\ pc'[r] = "collect"
      /\ action'[r] = action[r] /\ prepared'[r] = prepared[r] /\ sent'[r] = sent[r]
      /\ view'[r] = view[r] /\ answer'[r] = answer[r]
  BY Zenon DEF SnapshotPlugins, Goto, Shape
<1> QED BY <1>1, Zenon DEF Good, Stage, Allowed, Carried, Responded, Early, Late, Over, InPlugin

\* What the request stage prepares is what it sends.
LEMMA RequestStageGood ==
    ASSUME Shape, NEW r \in Requests, Good(r), RequestStage(r)
    PROVE  Good(r)'
<1>1. /\ pc[r] = "on_request"
      /\ original'[r] = original[r] /\ action'[r] = action[r] /\ plugins'[r] = plugins[r]
      /\ view'[r] = view[r]
  BY Zenon DEF RequestStage
<1>2. action[r].type = "plugin" /\ view[r] = None /\ answer[r] = None
  BY <1>1, Zenon DEF Good, Stage, InPlugin
<1>3. CASE Respond(r, ErrorAnswer) /\ UNCHANGED <<prepared, sent>>
  <2>1. pc'[r] = "answered"
    BY <1>3, Zenon DEF Respond, Goto, Shape
  <2> QED BY <1>1, <1>2, <2>1, Zenon
          DEF Good, Stage, Allowed, Carried, Responded, Early, Late, Over, InPlugin
<1>4. ASSUME NEW p, Planned(r, p), NEW result \in RequestPlans(r), ~result.failed,
             p = prepare_plugin_request(inbound[r], original[r],
                     request_body_access(plugins[r], Name(r)), result.plan)
      PROVE  Good(r)'
  <2>1. prepared'[r] = p
    BY <1>4, Zenon DEF Planned, Shape
  <2>2. CASE p.outcome.type = "reject"
    <3>1. PICK status : reject_response(r, status)
      BY <1>4, <2>2, ZenonT(40) DEF Planned
    <3>2. pc'[r] = "answered" \/ (pc'[r] = "panicked" /\ answer'[r] = answer[r])
      BY <3>1 DEF reject_response, Respond, Goto, Shape
    <3> QED BY <1>1, <1>2, <3>2, Zenon
            DEF Good, Stage, Allowed, Carried, Responded, Early, Late, Over, InPlugin
  <2>3. CASE p.outcome.type # "reject"
    <3>1. PICK plan : plan = resolve_plugin_upstream(p)
      BY Zenon
    <3>2. Send(r, plan, p) /\ UNCHANGED answer
      BY <1>4, <2>3, <3>1, ZenonT(40) DEF Planned
    <3>3. /\ pc'[r] = "execute" /\ answer'[r] = answer[r]
          /\ sent'[r].plan = plan /\ sent'[r].method = p.method
          /\ sent'[r].headers = p.headers /\ sent'[r].body = p.body
      BY <3>2, Zenon DEF Send, Goto, Shape
    <3>4. Stage(r)' /\ Allowed(r)' /\ Responded(r)'
      BY <1>1, <1>2, <2>1, <2>3, <3>3, ZenonT(40) DEF Stage, Allowed, Responded, Early, Late, Over, InPlugin
    <3>5. PICK access, plan1, i1, url1 :
             /\ access = request_body_access(plugins[r], Name(r))
             /\ plan1 = result.plan /\ i1 = inbound[r] /\ url1 = original[r]
      BY Zenon
    <3>6. access => plugins[r].plugins[Name(r)].permissions.on_request
      BY <3>5, Zenon DEF request_body_access
    <3>7. /\ p.context.method = p.method
          /\ p.context.headers = build_plugin_headers(p.headers)
          /\ p.context.body # None =>
                p.context.body = p.body /\ (~Has(plan1.request_patch, "body") => access)
          /\ p.matched = plan1.matched
      <4>1. p = prepare_plugin_request(i1, url1, access, plan1)
        BY <1>4, <3>5, Zenon
      <4> QED BY <4>1, PreparedFacts
    <3>8. Loaded(plugins[r], Name(r)) # None =>
             /\ p.matched = FindRule(plugins[r].plugins[Name(r)].rules, original[r])
             /\ p.context.body # None => plugins[r].plugins[Name(r)].permissions.on_request
      BY <1>4, <3>5, <3>6, <3>7, PlanFacts, Zenon
    <3>9. Carried(r)'
      BY <1>1, <2>1, <3>1, <3>3, <3>7, <3>8, ZenonT(40) DEF Carried, Name
    <3> QED BY <3>4, <3>9, ZenonT(40) DEF Good
  <2> QED BY <2>2, <2>3, Zenon
<1> QED BY <1>3, <1>4, RequestStageCases, Zenon

\* What the executor returns is an upstream's response.
LEMMA ExecuteGood ==
    ASSUME Shape, NEW r \in Requests, Good(r), Execute(r)
    PROVE  Good(r)'
<1>1. /\ pc[r] = "execute"
      /\ original'[r] = original[r] /\ action'[r] = action[r] /\ plugins'[r] = plugins[r]
      /\ prepared'[r] = prepared[r] /\ sent'[r] = sent[r] /\ view'[r] = view[r]
  BY Zenon DEF Execute, plugin_path
<1>2. \/ pc'[r] = "answered"
      \/ /\ pc'[r] = "collect_response"
         /\ answer'[r] = answer[r]
         /\ action[r].type = "plugin"
         /\ executed'[r] \in Responses
  BY Zenon DEF Execute, Respond, Goto, Shape
<1>3. Stage(r)' /\ Allowed(r)' /\ Responded(r)'
  BY <1>1, <1>2, Zenon DEF Good, Stage, Allowed, Responded, Early, Late, Over, InPlugin
<1>4. pc'[r] \in Late => pc[r] \in Late
  BY <1>1, Zenon DEF Late
<1>5. Carried(r)'
  BY <1>1, <1>4, ZenonT(40) DEF Good, Carried, Name
<1> QED BY <1>3, <1>5, Zenon DEF Good

\* The response stage answers.
LEMMA ResponseStageGood ==
    ASSUME Shape, NEW r \in Requests, Good(r), ResponseStage(r)
    PROVE  Good(r)'
<1>1. /\ pc[r] = "on_response" /\ pc'[r] = "answered"
      /\ action'[r] = action[r] /\ plugins'[r] = plugins[r] /\ prepared'[r] = prepared[r]
  BY Zenon DEF ResponseStage, RunResponseStage, Respond, Goto, Shape
<1>2. Stage(r)'
  BY <1>1, Zenon DEF Good, Stage, Early, Late, Over, InPlugin
<1>3. Allowed(r)' /\ Carried(r)' /\ Responded(r)'
  BY <1>1, Zenon DEF Allowed, Carried, Responded, Late
<1> QED BY <1>2, <1>3, Zenon DEF Good

\* Every step keeps the invariant.
LEMMA FlowInvStep ==
    ASSUME FlowInv, [Next]_vars
    PROVE  FlowInv'
<1>1. Shape' /\ \A s \in Requests : Kept(s) \/ Moves(s)
  BY StepAt, Zenon DEF FlowInv
<1>2. ASSUME NEW r \in Requests PROVE Good(r)'
  <2>1. Shape /\ Good(r)
    BY Zenon DEF FlowInv, Good
  <2>2. CASE Kept(r)
    BY <2>1, <2>2, KeptGood, Zenon
  <2>3. CASE Moves(r)
    BY ZenonT(40), <2>1, <2>3, ReceiveGood, ForwardGood, PlainGood, SnapshotGood, RequestStageGood,
       ExecuteGood, ResponseStageGood DEF Moves
  <2> QED BY <1>1, <2>2, <2>3, Zenon
<1> QED BY <1>1, <1>2, Zenon DEF FlowInv, Good

\* The invariant holds in every reachable state.
THEOREM FlowInvAlways == Spec => []FlowInv
BY FlowInvInit, FlowInvStep, PTL DEF Spec

-----------------------------------------------------------------------------
(* What the steps of a request write. *)

\* A request that is over takes no step.
LEMMA OverIsOver ==
    ASSUME NEW r, Moves(r)
    PROVE  pc[r] \notin Over
BY Zenon DEF Moves, Receive, forward_request, respond_response, SnapshotPlugins,
   collect_plugin_request_body, RequestStage, Execute, collect_upstream_response,
   ResponseStage, RunResponseStage, Cancel, Over

MayReplace(r) ==
    /\ Loaded(plugins[r], Name(r)) # None
    /\ plugins[r].plugins[Name(r)].permissions.on_request

\* Until a request is sent no script of the response stage has run and nothing of
\* an upstream is answered; what is sent was not rejected, and a body that is not
\* the client's is a permitted patch.
SendFacts(r) ==
    /\ view'[r] = None
    /\ answer'[r] = None \/ answer'[r].kind # "upstream"
    /\ (\/ action'[r].type = "reject"
        \/ prepared'[r] # None /\ prepared'[r].outcome.type = "reject") => sent'[r] = None
    /\ sent'[r] # None /\ sent'[r].body # inbound'[r].body =>
         /\ MayReplace(r)'
         /\ sent'[r].headers \cap LengthHeaders = {}

\* forward_request passes on what the client sent.
LEMMA ForwardSends ==
    ASSUME Shape, NEW r \in Requests, Good(r), forward_request(r)
    PROVE  SendFacts(r)
<1>1. /\ pc[r] = "forward" /\ inbound'[r] = inbound[r]
      /\ prepared'[r] = prepared[r] /\ view'[r] = view[r]
  BY ZenonT(40) DEF forward_request, plugin_path
<1>2. PICK a : action' = [action EXCEPT ![r] = a] /\ Forwarded(r, a)
  BY ForwardCases, Zenon
<1>3. action'[r] = a
  BY <1>2, Zenon DEF Shape
<1>4. view[r] = None /\ answer[r] = None /\ prepared[r] = None /\ sent[r] = None
  BY <1>1, ZenonT(40) DEF Good, Stage, Early
<1>5. answer'[r] = answer[r] \/ answer'[r].kind = "reject"
  BY <1>2, SMTT(30) DEF Forwarded, reject_response, Respond, Shape
<1>6. \/ sent'[r] = sent[r]
      \/ a.type # "reject" /\ sent'[r].body = inbound[r].body
  BY <1>2 DEF Forwarded, Send, Shape
<1> QED BY <1>1, <1>3, <1>4, <1>5, <1>6, ZenonT(40) DEF SendFacts

\* The request stage sends what it prepared, unless that is a reject.
LEMMA RequestStageSends ==
    ASSUME Shape, NEW r \in Requests, Good(r), RequestStage(r)
    PROVE  SendFacts(r)
<1>1. /\ pc[r] = "on_request"
      /\ inbound'[r] = inbound[r] /\ action'[r] = action[r] /\ plugins'[r] = plugins[r]
      /\ view'[r] = view[r]
  BY Zenon DEF RequestStage
<1>2. /\ action[r].type = "plugin" /\ view[r] = None /\ answer[r] = None
      /\ prepared[r] = None /\ sent[r] = None
  BY <1>1, Zenon DEF Good, Stage, InPlugin, Early
<1>3. CASE Respond(r, ErrorAnswer) /\ UNCHANGED <<prepared, sent>>
  <2>1. answer'[r].kind = "error"
    BY <1>3, Zenon DEF Respond, Shape, ErrorAnswer
  <2> QED BY <1>1, <1>2, <1>3, <2>1, Zenon DEF SendFacts
<1>4. ASSUME NEW p, Planned(r, p), NEW result \in RequestPlans(r), ~result.failed,
             p = prepare_plugin_request(inbound[r], original[r],
                     request_body_access(plugins[r], Name(r)), result.plan)
      PROVE  SendFacts(r)
  <2>1. prepared'[r] = p
    BY <1>4, Zenon DEF Planned, Shape
  <2>2. CASE p.outcome.type = "reject"
    <3>1. PICK status : reject_response(r, status) /\ UNCHANGED sent
      BY <1>4, <2>2, ZenonT(40) DEF Planned
    <3>2. answer'[r] = answer[r] \/ answer'[r].kind = "reject"
      BY <3>1 DEF reject_response, Respond, Shape
    <3> QED BY <1>1, <1>2, <3>1, <3>2, Zenon DEF SendFacts
  <2>3. CASE p.outcome.type # "reject"
    <3>1. PICK plan : Send(r, plan, p) /\ UNCHANGED answer
      BY <1>4, <2>3, Zenon DEF Planned
    <3>2. sent'[r].headers = p.headers /\ sent'[r].body = p.body
      BY <3>1, Zenon DEF Send, Shape
    <3>3. PICK access, plan1, i1, url1 :
             /\ access = request_body_access(plugins[r], Name(r))
             /\ plan1 = result.plan /\ i1 = inbound[r] /\ url1 = original[r]
      BY Zenon
    <3>4. /\ p.body # i1.body => Has(plan1.request_patch, "body")
          /\ Has(plan1.request_patch, "body") => p.headers \cap LengthHeaders = {}
      <4>1. p = prepare_plugin_request(i1, url1, access, plan1)
        BY <1>4, <3>3, Zenon
      <4> QED BY <4>1, PreparedFacts
    <3>5. Has(plan1.request_patch, "body") => MayReplace(r)
      BY <1>4, <3>3, PlanFacts, Zenon DEF MayReplace
    <3>6. MayReplace(r) => MayReplace(r)'
      BY <1>1, Zenon DEF MayReplace, Name
    <3> QED BY <1>1, <1>2, <2>1, <2>3, <3>1, <3>2, <3>3, <3>4, <3>5, <3>6, ZenonT(40) DEF SendFacts
  <2> QED BY <2>2, <2>3, Zenon
<1> QED BY <1>3, <1>4, RequestStageCases, Zenon

\* No other early step sends anything.
LEMMA EarlySends ==
    ASSUME Shape, NEW r \in Requests, Good(r), Moves(r), pc[r] \notin Late
    PROVE  SendFacts(r)
<1>1. CASE forward_request(r)
  BY <1>1, ForwardSends, Zenon
<1>2. CASE RequestStage(r)
  BY <1>2, RequestStageSends, Zenon
<1>3. CASE \E i \in Inbounds : Receive(r, i)
  <2>1. /\ pc[r] = "idle" /\ sent'[r] = sent[r] /\ view'[r] = view[r]
        /\ answer'[r] = answer[r] \/ answer'[r].kind = "error"
    BY <1>3 DEF Receive, Respond, ErrorAnswer, Shape, plugin_path
  <2> QED BY <2>1, ZenonT(40) DEF Good, Stage, Early, SendFacts
<1>4. CASE SnapshotPlugins(r)
  <2>1. /\ pc[r] = "plugin" /\ sent'[r] = sent[r] /\ view'[r] = view[r]
        /\ answer'[r] = answer[r]
    BY <1>4, Zenon DEF SnapshotPlugins
  <2> QED BY <2>1, Zenon DEF Good, Stage, Early, SendFacts
<1>5. CASE respond_response(r) \/ collect_plugin_request_body(r) \/ Cancel(r)
  <2>1. /\ pc[r] # "answered"
        /\ sent'[r] = sent[r] /\ view'[r] = view[r]
        /\ answer'[r] = answer[r] \/ answer'[r].kind \in {"respond", "error"}
    BY <1>5 DEF respond_response, collect_plugin_request_body, Cancel, Respond, ErrorAnswer,
       Shape, plugin_path
  <2>2. pc[r] \in Early
    BY OverIsOver, Zenon DEF Good, Stage
  <2> QED BY <2>1, <2>2, ZenonT(40) DEF Good, Stage, SendFacts
<1>6. ~Execute(r) /\ ~collect_upstream_response(r) /\ ~ResponseStage(r)
  BY Zenon DEF Late, Execute, collect_upstream_response, ResponseStage, RunResponseStage
<1> QED BY <1>1, <1>2, <1>3, <1>4, <1>5, <1>6, ZenonT(40) DEF Moves

\* After it was sent, a request keeps its target, its registry and what was sent.
LEMMA LateKeeps ==
    ASSUME NEW r, Moves(r), pc[r] \in Late
    PROVE  /\ inbound'[r] = inbound[r] /\ original'[r] = original[r]
           /\ action'[r] = action[r] /\ plugins'[r] = plugins[r]
           /\ prepared'[r] = prepared[r] /\ sent'[r] = sent[r]
<1>1. CASE Execute(r)
  BY <1>1, Zenon DEF Execute, plugin_path
<1>2. CASE collect_upstream_response(r)
  BY <1>2, Zenon DEF collect_upstream_response, plugin_path
<1>3. CASE ResponseStage(r)
  BY <1>3, Zenon DEF ResponseStage, RunResponseStage
<1>4. CASE Cancel(r)
  BY <1>4, Zenon DEF Cancel, plugin_path
<1>5. /\ ~\E i \in Inbounds : Receive(r, i)
      /\ ~forward_request(r) /\ ~respond_response(r) /\ ~SnapshotPlugins(r)
      /\ ~collect_plugin_request_body(r) /\ ~RequestStage(r)
  BY Zenon DEF Late, Receive, forward_request, respond_response, SnapshotPlugins,
     collect_plugin_request_body, RequestStage
<1> QED BY <1>1, <1>2, <1>3, <1>4, <1>5, Zenon DEF Moves

\* Of the late steps only the response stage runs a script or changes a body.
LEMMA LateAnswers ==
    ASSUME Shape, NEW r \in Requests, Good(r), Moves(r), pc[r] \in Late
    PROVE  \/ ResponseStage(r)
           \/ view'[r] = None /\ ~ResponseBodyReplaced(r)'
<1>1. view[r] = None /\ answer[r] = None
  BY Zenon DEF Good, Stage, Late
<1>2. CASE Execute(r)
  <2>1. view'[r] = None
    BY <1>1, <1>2, Zenon DEF Execute, plugin_path
  <2>2. CASE Respond(r, ErrorAnswer)
    BY <2>1, <2>2, Zenon DEF Respond, ErrorAnswer, Shape, ResponseBodyReplaced
  <2>3. CASE UNCHANGED answer
    BY <1>1, <2>1, <2>3, Zenon DEF ResponseBodyReplaced
  <2>4. ASSUME NEW response \in Responses, executed' = [executed EXCEPT ![r] = response],
               Respond(r, build_upstream_response(AnsweredTarget(r), response))
        PROVE  ~ResponseBodyReplaced(r)'
    <3>1. PICK a : a = build_upstream_response(AnsweredTarget(r), response)
      BY Zenon
    <3>2. a.body = response.body
      BY <3>1, Zenon DEF build_upstream_response, UpstreamAnswer
    <3>3. answer'[r] = a /\ executed'[r] = response
      BY <2>4, <3>1, Zenon DEF Respond, Shape
    <3> QED BY <3>2, <3>3, Zenon DEF ResponseBodyReplaced
  <2> QED BY <1>2, <2>1, <2>2, <2>3, <2>4, Zenon DEF Execute
<1>3. CASE collect_upstream_response(r) \/ Cancel(r)
  <2>1. view'[r] = None /\ (answer'[r] = None \/ answer'[r].kind = "error")
    BY <1>1, <1>3 DEF collect_upstream_response, Cancel, Respond, ErrorAnswer, Shape,
       plugin_path
  <2> QED BY <2>1, Zenon DEF ResponseBodyReplaced
<1>4. /\ ~\E i \in Inbounds : Receive(r, i)
      /\ ~forward_request(r) /\ ~respond_response(r) /\ ~SnapshotPlugins(r)
      /\ ~collect_plugin_request_body(r) /\ ~RequestStage(r)
  BY Zenon DEF Late, Receive, forward_request, respond_response, SnapshotPlugins,
     collect_plugin_request_body, RequestStage
<1> QED BY <1>2, <1>3, <1>4, Zenon DEF Moves

\* The response stage runs its script in the snapshot, on what was prepared and
\* executed; a body it replaces it was allowed to replace, and the headers that
\* described the upstream's are gone.
LEMMA ResponseFacts ==
    ASSUME Shape, NEW r \in Requests, Good(r), ResponseStage(r)
    PROVE  /\ view'[r] # None => /\ HasStage(plugins[r], Name(r), "on_response")
                                 /\ view'[r] = ResponseView(r)
           /\ ResponseBodyReplaced(r)' =>
                /\ Loaded(plugins[r], Name(r)) # None
                /\ plugins[r].plugins[Name(r)].permissions.on_response
                /\ answer'[r].headers \cap LengthHeaders = {}
<1>1. pc[r] = "on_response" /\ view[r] = None /\ executed'[r] = executed[r]
  BY Zenon DEF ResponseStage, RunResponseStage, Good, Stage
<1>2. ASSUME NEW patch, answer'[r] = Finalize(r, patch), ResponseBodyReplaced(r)'
      PROVE  /\ Has(patch, "body")
             /\ response_body_access(plugins[r], Name(r)) =>
                    answer'[r].headers \cap LengthHeaders = {}
  <2>1. answer'[r].body = IF Has(patch, "body") THEN patch.body ELSE executed[r].body
    BY <1>2 DEF Finalize
  <2>2. Has(patch, "body")
    BY <1>1, <1>2, <2>1, Zenon DEF ResponseBodyReplaced
  <2>3. response_body_access(plugins[r], Name(r)) =>
          answer'[r].headers = PatchedHeaders(executed[r].headers, patch, LengthHeaders)
    BY <1>2, <2>2 DEF Finalize
  <2>4. response_body_access(plugins[r], Name(r)) =>
          answer'[r].headers \cap LengthHeaders = {}
    BY <2>3, Zenon DEF PatchedHeaders
  <2> QED BY <2>2, <2>4, Zenon
<1>3. CASE HasStage(plugins[r], Name(r), "on_response")
  <2>1. view'[r] = ResponseView(r)
    BY <1>3, Zenon DEF ResponseStage, RunResponseStage, Shape
  <2>2. CASE answer'[r] = ErrorAnswer
    BY <1>3, <2>1, <2>2 DEF ResponseBodyReplaced, ErrorAnswer
  <2>3. CASE answer'[r] # ErrorAnswer
    <3>1. \E output \in ResponseOutputs :
             LET patch == ResponsePatch(output)
             IN Respond(r, IF \/ Has(patch, "malformed")
                              \/ ~ensure_body_patch_permission(
                                     plugins[r].plugins[Name(r)].permissions.on_response, patch)
                           THEN ErrorAnswer ELSE Finalize(r, patch))
      <4>1. ~Respond(r, ErrorAnswer)
        BY <2>3, Zenon DEF Respond, Shape
      <4> QED BY <1>3, <4>1, Zenon DEF ResponseStage, RunResponseStage
    <3>2. PICK output, patch, result :
             /\ output \in ResponseOutputs
             /\ patch = ResponsePatch(output)
             /\ result = IF \/ Has(patch, "malformed")
                            \/ ~ensure_body_patch_permission(
                                   plugins[r].plugins[Name(r)].permissions.on_response, patch)
                         THEN ErrorAnswer ELSE Finalize(r, patch)
             /\ Respond(r, result)
      BY <3>1, Zenon
    <3>3. answer'[r] = result
      BY <3>2, Zenon DEF Respond, Shape
    <3>4. /\ answer'[r] = Finalize(r, patch)
          /\ ensure_body_patch_permission(
                 plugins[r].plugins[Name(r)].permissions.on_response, patch)
      BY <2>3, <3>2, <3>3, Zenon
    <3>5. /\ Loaded(plugins[r], Name(r)) # None
          /\ Has(patch, "body") =>
               /\ plugins[r].plugins[Name(r)].permissions.on_response
               /\ response_body_access(plugins[r], Name(r))
      BY <1>3, <3>4, Zenon DEF HasStage, Loaded, ensure_body_patch_permission, response_body_access
    <3> QED BY <1>2, <1>3, <2>1, <3>4, <3>5, ZenonT(40)
  <2> QED BY <2>2, <2>3, Zenon
<1>4. CASE ~HasStage(plugins[r], Name(r), "on_response")
  <2>1. view'[r] = None
    BY <1>1, <1>4, Zenon DEF ResponseStage, RunResponseStage
  <2>2. answer'[r] = Finalize(r, NoPatch)
    BY <1>4, Zenon DEF ResponseStage, RunResponseStage, Respond, Shape
  <2>3. ~Has(NoPatch, "body")
    BY Zenon DEF Has, NoPatch
  <2> QED BY <1>2, <2>1, <2>2, <2>3, Zenon
<1> QED BY <1>3, <1>4, Zenon

\* Every step of a request is early or late.
LEMMA EarlyOrLate ==
    ASSUME FlowInv, [Next]_vars, NEW r \in Requests
    PROVE  \/ Kept(r)
           \/ Moves(r) /\ pc[r] \in Early /\ SendFacts(r)
           \/ Moves(r) /\ pc[r] \in Late
<1>1. Kept(r) \/ Moves(r)
  BY StepAt, Zenon DEF FlowInv
<1>2. Shape /\ Good(r)
  BY Zenon DEF FlowInv, Good
<1>3. ASSUME Moves(r), pc[r] \notin Late
      PROVE  pc[r] \in Early /\ SendFacts(r)
  <2>1. SendFacts(r)
    BY <1>2, <1>3, EarlySends, Zenon
  <2>2. pc[r] \in Early
    BY <1>2, <1>3, OverIsOver, Zenon DEF Good, Stage
  <2> QED BY <2>1, <2>2, Zenon
<1> QED BY <1>1, <1>3, Zenon

-----------------------------------------------------------------------------
(* The properties of a request. *)

\* What is rejected stays unsent, and no response script runs for it.
LEMMA RejectIsFinalStep ==
    ASSUME FlowInv, RejectIsFinal, [Next]_vars
    PROVE  RejectIsFinal'
<1> SUFFICES ASSUME NEW r \in Requests,
                    \/ action'[r].type = "reject"
                    \/ prepared'[r] # None /\ prepared'[r].outcome.type = "reject"
             PROVE  sent'[r] = None /\ view'[r] = None
  BY Zenon DEF RejectIsFinal
<1>1. CASE Kept(r)
  BY <1>1, Zenon DEF Kept, RejectIsFinal
<1>2. CASE SendFacts(r)
  BY <1>2, Zenon DEF SendFacts
<1>3. CASE Moves(r) /\ pc[r] \in Late
  <2>1. action'[r] = action[r] /\ prepared'[r] = prepared[r]
    BY <1>3, LateKeeps, Zenon
  <2>2. Allowed(r)
    BY Zenon DEF FlowInv
  <2> QED BY <1>3, <2>1, <2>2, Zenon DEF Allowed
<1> QED BY <1>1, <1>2, <1>3, EarlyOrLate, Zenon

\* A rejected request is never sent and on_response does not run for it, whether a
\* rule, the compiled program or on_request rejects it.
THEOREM RejectIsFinalAlways == Spec => []RejectIsFinal
<1>1. Init => RejectIsFinal
  BY Zenon DEF Init, RejectIsFinal
<1>2. FlowInv /\ RejectIsFinal /\ [Next]_vars => RejectIsFinal'
  BY RejectIsFinalStep, Zenon
<1> QED BY <1>1, <1>2, FlowInvAlways, PTL DEF Spec

\* What a response script was told stays true, and is true when it is told.
LEMMA SeesStep ==
    ASSUME FlowInv, ResponseSeesWhatWasSent, [Next]_vars
    PROVE  ResponseSeesWhatWasSent'
<1> DEFINE Sees(q, v) ==
             /\ HasStage(plugins[q], Name(q), "on_response")
             /\ v.request.method = sent[q].method
             /\ v.request.headers = build_plugin_headers(sent[q].headers)
             /\ v.request.body # None => v.request.body = sent[q].body
             /\ sent[q].plan = IF v.resolved_action.type = "direct" THEN direct(v.request.url)
                               ELSE v.resolved_action.upstream
             /\ v.matched = FindRule(plugins[q].plugins[Name(q)].rules, original[q])
<1>1. ASSUME NEW r \in Requests, view'[r] # None
      PROVE  Sees(r, view[r])'
  <2>1. CASE Kept(r)
    <3>1. Sees(r, view[r])
      BY <1>1, <2>1, Zenon DEF Kept, ResponseSeesWhatWasSent
    <3> QED BY <2>1, <3>1, Zenon DEF Kept, Name
  <2>2. CASE SendFacts(r)
    BY <1>1, <2>2, Zenon DEF SendFacts
  <2>3. CASE Moves(r) /\ pc[r] \in Late
    <3>1. Shape /\ Good(r)
      BY Zenon DEF FlowInv, Good
    <3>2. ResponseStage(r)
      BY <1>1, <2>3, <3>1, LateAnswers, Zenon
    <3>3. HasStage(plugins[r], Name(r), "on_response") /\ view'[r] = ResponseView(r)
      BY <1>1, <3>1, <3>2, ResponseFacts, Zenon
    <3>4. /\ view'[r].request = prepared[r].context /\ view'[r].matched = prepared[r].matched
          /\ view'[r].resolved_action = prepared[r].outcome
      BY <3>3 DEF ResponseView
    <3>5. action[r].type = "plugin"
      BY <3>1, <3>2, Zenon DEF Good, Stage, InPlugin, ResponseStage, RunResponseStage
    <3>6. Loaded(plugins[r], Name(r)) # None
      BY <3>3, Zenon DEF HasStage
    <3>7. /\ sent[r].plan = resolve_plugin_upstream(prepared[r])
          /\ sent[r].method = prepared[r].context.method
          /\ build_plugin_headers(sent[r].headers) = prepared[r].context.headers
          /\ prepared[r].context.body # None => prepared[r].context.body = sent[r].body
          /\ prepared[r].matched = FindRule(plugins[r].plugins[Name(r)].rules, original[r])
      BY <2>3, <3>1, <3>5, <3>6, Zenon DEF Good, Carried
    <3>8. PICK v : v = view'[r]
      BY Zenon
    <3>9. Sees(r, v)
      BY <3>3, <3>4, <3>7, <3>8, ZenonT(40) DEF resolve_plugin_upstream
    <3> QED BY <2>3, <3>8, <3>9, LateKeeps, ZenonT(40) DEF Name
  <2> QED BY <2>1, <2>2, <2>3, EarlyOrLate, Zenon
<1> QED BY <1>1, Zenon DEF ResponseSeesWhatWasSent

\* on_response runs in the registry on_request ran in, whatever was reloaded in
\* between, and is told the request, the match and the action that were executed.
THEOREM ResponseSeesWhatWasSentAlways == Spec => []ResponseSeesWhatWasSent
<1>1. Init => ResponseSeesWhatWasSent
  BY Zenon DEF Init, ResponseSeesWhatWasSent
<1>2. FlowInv /\ ResponseSeesWhatWasSent /\ [Next]_vars => ResponseSeesWhatWasSent'
  BY SeesStep, Zenon
<1> QED BY <1>1, <1>2, FlowInvAlways, PTL DEF Spec

\* A replaced body leaves without the headers that described the old one.
LEMMA NoStaleLengthStep ==
    ASSUME FlowInv, NoStaleLength, [Next]_vars
    PROVE  NoStaleLength'
<1>1. ASSUME NEW r \in Requests, sent'[r] # None
      PROVE  /\ sent'[r].body # inbound'[r].body => sent'[r].headers \cap LengthHeaders = {}
             /\ ResponseBodyReplaced(r)' => answer'[r].headers \cap LengthHeaders = {}
  <2>1. CASE Kept(r)
    BY <1>1, <2>1, Zenon DEF Kept, NoStaleLength, ResponseBodyReplaced
  <2>2. CASE SendFacts(r)
    BY <1>1, <2>2, Zenon DEF SendFacts, ResponseBodyReplaced
  <2>3. CASE Moves(r) /\ pc[r] \in Late
    <3>1. Shape /\ Good(r)
      BY Zenon DEF FlowInv, Good
    <3>2. sent'[r] = sent[r] /\ inbound'[r] = inbound[r]
      BY <2>3, LateKeeps, Zenon
    <3>3. ResponseBodyReplaced(r)' => answer'[r].headers \cap LengthHeaders = {}
      BY <2>3, <3>1, LateAnswers, ResponseFacts, ZenonT(40)
    <3> QED BY <1>1, <3>2, <3>3, Zenon DEF NoStaleLength
  <2> QED BY <2>1, <2>2, <2>3, EarlyOrLate, Zenon
<1> QED BY <1>1, Zenon DEF NoStaleLength

\* No body a plugin replaced travels with the length or the encoding of the one it
\* replaced, on the way to the upstream or back.
THEOREM NoStaleLengthAlways == Spec => []NoStaleLength
<1>1. Init => NoStaleLength
  BY Zenon DEF Init, NoStaleLength
<1>2. FlowInv /\ NoStaleLength /\ [Next]_vars => NoStaleLength'
  BY NoStaleLengthStep, Zenon
<1> QED BY <1>1, <1>2, FlowInvAlways, PTL DEF Spec

\* The body a response script is shown is there with its permission only.
LEMMA ViewedBody ==
    ASSUME NEW r, executed[r] \in Responses, ResponseView(r).response.body # None
    PROVE  plugins[r].plugins[Name(r)].permissions.on_response
<1>1. PICK response : response = executed[r] /\ response \in Responses
  BY Zenon
<1>2. "body" \in DOMAIN response
  BY <1>1, RequestFlowAssumption, Zenon
<1>3. PICK headers, body, access :
         /\ access = response_body_access(plugins[r], Name(r))
         /\ headers = build_plugin_headers(response.headers)
         /\ body = build_plugin_body(response.body, access)
  BY Zenon
<1>4. ResponseView(r).response = [[response EXCEPT !.headers = headers] EXCEPT !.body = body]
  BY <1>1, <1>3, Zenon DEF ResponseView
<1>5. ResponseView(r).response.body = body
  BY <1>2, <1>4, Zenon
<1>6. access
  BY <1>3, <1>5, Zenon DEF build_plugin_body
<1> QED BY <1>3, <1>6, Zenon DEF response_body_access

\* The permissions a plugin has in the snapshot of a request.
MayReplaceResponse(r) ==
    /\ Loaded(plugins[r], Name(r)) # None
    /\ plugins[r].plugins[Name(r)].permissions.on_response

PermittedBodies(r) ==
    /\ sent[r].body # inbound[r].body => MayReplace(r)
    /\ view[r] # None => /\ view[r].request.body # None => MayReplace(r)
                         /\ view[r].response.body # None => MayReplaceResponse(r)
    /\ ResponseBodyReplaced(r) => MayReplaceResponse(r)

\* BodiesNeedPermission, request by request.
LEMMA PermissionsOneByOne ==
    BodiesNeedPermission <=>
        \A r \in Requests : plugins[r] # None /\ sent[r] # None => PermittedBodies(r)
BY Zenon DEF BodiesNeedPermission, PermittedBodies, MayReplace, MayReplaceResponse

\* Bodies are seen and replaced with permission at every step.
LEMMA PermissionsStep ==
    ASSUME FlowInv, BodiesNeedPermission, [Next]_vars
    PROVE  BodiesNeedPermission'
<1>1. ASSUME NEW r \in Requests, plugins'[r] # None, sent'[r] # None
      PROVE  PermittedBodies(r)'
  <2>1. CASE Kept(r)
    <3>1. PermittedBodies(r)
      BY <1>1, <2>1, PermissionsOneByOne, Zenon DEF Kept
    <3> QED BY <2>1, <3>1, Zenon DEF Kept, PermittedBodies, MayReplace, MayReplaceResponse,
               ResponseBodyReplaced, Name
  <2>2. CASE SendFacts(r)
    BY <1>1, <2>2, Zenon DEF SendFacts, PermittedBodies, ResponseBodyReplaced
  <2>3. CASE Moves(r) /\ pc[r] \in Late
    <3>1. Shape /\ Good(r)
      BY Zenon DEF FlowInv, Good
    <3>2. /\ sent'[r] = sent[r] /\ inbound'[r] = inbound[r]
          /\ plugins'[r] = plugins[r] /\ action'[r] = action[r]
      BY <2>3, LateKeeps, Zenon
    <3>3. /\ MayReplace(r) => MayReplace(r)'
          /\ MayReplaceResponse(r) => MayReplaceResponse(r)'
      BY <3>2, Zenon DEF MayReplace, MayReplaceResponse, Name
    <3>4. sent'[r].body # inbound'[r].body => MayReplace(r)'
      BY <1>1, <3>2, <3>3, PermissionsOneByOne, Zenon DEF PermittedBodies
    <3>5. ResponseBodyReplaced(r)' => MayReplaceResponse(r)'
      BY <2>3, <3>1, <3>3, LateAnswers, ResponseFacts, ZenonT(40) DEF MayReplaceResponse
    <3>6. ASSUME view'[r] # None
          PROVE  /\ view'[r].request.body # None => MayReplace(r)'
                 /\ view'[r].response.body # None => MayReplaceResponse(r)'
      <4>1. ResponseStage(r)
        BY <2>3, <3>1, <3>6, LateAnswers, Zenon
      <4>2. pc[r] = "on_response"
        BY <4>1, Zenon DEF ResponseStage, RunResponseStage
      <4>3. HasStage(plugins[r], Name(r), "on_response") /\ view'[r] = ResponseView(r)
        BY <3>1, <3>6, <4>1, ResponseFacts, ZenonT(40)
      <4>4. Loaded(plugins[r], Name(r)) # None
        BY <4>3, Zenon DEF HasStage
      <4>5. view'[r].request = prepared[r].context
        BY <4>3 DEF ResponseView
      <4>6. action[r].type = "plugin" /\ executed[r] \in Responses
        BY <3>1, <4>2, Zenon DEF Good, Stage, Responded, InPlugin
      <4>7. prepared[r].context.body # None => MayReplace(r)
        BY <2>3, <3>1, <4>4, <4>6, Zenon DEF Good, Carried, MayReplace
      <4>8. view'[r].response.body # None => MayReplaceResponse(r)
        BY <4>3, <4>4, <4>6, ViewedBody, Zenon DEF MayReplaceResponse
      <4> QED BY <3>3, <4>5, <4>7, <4>8, Zenon
    <3> QED BY <3>4, <3>5, <3>6, Zenon DEF PermittedBodies
  <2> QED BY <2>1, <2>2, <2>3, EarlyOrLate, Zenon
<1>2. (\A r \in Requests : plugins[r] # None /\ sent[r] # None => PermittedBodies(r))'
  BY <1>1, Zenon
<1> QED BY <1>2, PermissionsOneByOne, PTL

\* A plugin sees and replaces the body of a request or of a response only with the
\* permission its definition had in the registry the request started with.
THEOREM BodiesNeedPermissionAlways == Spec => []BodiesNeedPermission
<1>1. Init => BodiesNeedPermission
  BY Zenon DEF Init, BodiesNeedPermission
<1>2. FlowInv /\ BodiesNeedPermission /\ [Next]_vars => BodiesNeedPermission'
  BY PermissionsStep, Zenon
<1> QED BY <1>1, <1>2, FlowInvAlways, PTL DEF Spec

-----------------------------------------------------------------------------
(* CONNECT streams. *)

Bytes == 0..255

Tunnels ==
    [pc : {"none", "sniff", "tls", "dial", "copy", "closed"}, target : Targets \cup {None},
     stream : Seq(Bytes), input : Seq(Bytes), prefix : Seq(Bytes), out : Seq(Bytes)]

\* The bytes a stream is routed by.
Peeked(stream) == Take(stream, IF Len(stream) < 2 THEN Len(stream) ELSE 2)

\* What CONNECT accepts.
Named == {t \in Targets : t.port # None}

\* The bytes of a stream are passed on in order: until the prefix is, nothing else.
GoodTunnel(t) ==
    /\ t \in Tunnels
    /\ t.pc # "none" => t.target \in Named
    /\ t.out \o t.prefix \o t.input = t.stream
    /\ t.pc \in {"none", "sniff", "dial"} => t.out = <<>>
    /\ t.pc = "sniff" => Len(t.prefix) <= 2
    /\ t.pc = "copy" /\ t.prefix # <<>> => t.out = <<>>
    /\ t.pc = "tls" => looks_like_tls_client_hello(Peeked(t.stream))
    /\ t.pc \in {"dial", "copy"} => ~looks_like_tls_client_hello(Peeked(t.stream))

TunnelInv == DOMAIN tunnel = Requests /\ \A r \in Requests : GoodTunnel(tunnel[r])

\* Take and Drop cut a sequence in two.
LEMMA TakeDrop ==
    ASSUME NEW S, NEW s \in Seq(S), NEW n \in 0..Len(s)
    PROVE  /\ Take(s, n) \in Seq(S) /\ Drop(s, n) \in Seq(S)
           /\ Len(Take(s, n)) = n
           /\ Take(s, n) \o Drop(s, n) = s
<1>1. Take(s, n) \in Seq(S) /\ Len(Take(s, n)) = n /\ \A k \in 1..n : Take(s, n)[k] = s[k]
  BY DEF Take
<1>2. /\ Drop(s, n) \in Seq(S) /\ Len(Drop(s, n)) = Len(s) - n
      /\ \A k \in 1..(Len(s) - n) : Drop(s, n)[k] = s[n + k]
  BY DEF Drop
<1>3. PICK a \in Seq(S), b \in Seq(S) : a = Take(s, n) /\ b = Drop(s, n)
  BY <1>1, <1>2, Zenon
<1>4. a \o b \in Seq(S) /\ Len(a \o b) = Len(s)
  <2>1. Len(a) = n /\ Len(b) = Len(s) - n
    BY <1>1, <1>2, <1>3, Zenon
  <2>2. a \o b \in Seq(S) /\ Len(a \o b) = Len(a) + Len(b)
    OBVIOUS
  <2> QED BY <2>1, <2>2
<1>5. ASSUME NEW k \in 1..Len(s) PROVE (a \o b)[k] = s[k]
  <2>1. CASE k <= n
    BY <1>1, <1>3, <2>1
  <2>2. CASE k > n
    <3>1. k - n \in 1..(Len(s) - n) /\ n + (k - n) = k
      BY <2>2
    <3>2. b[k - n] = s[k]
      BY <1>2, <1>3, <3>1, Zenon
    <3>3. (a \o b)[k] = b[k - n]
      BY <1>1, <1>2, <1>3, <2>2
    <3> QED BY <3>2, <3>3, Zenon
  <2>3. k <= n \/ k > n
    OBVIOUS
  <2> QED BY <2>1, <2>2, <2>3, Zenon
<1>6. a \o b = s
  BY <1>4, <1>5, SeqEqual, Zenon
<1> QED BY <1>1, <1>2, <1>3, <1>6, Zenon

\* What the next lemma says of three sequences, under a name it can be cited by.
Regrouped(S, a, c, d) ==
    /\ a \o c \in Seq(S)
    /\ (a \o c) \o d = a \o (c \o d)

\* Concatenation is associative.
LEMMA Regroup ==
    ASSUME NEW S, NEW a \in Seq(S), NEW c \in Seq(S), NEW d \in Seq(S)
    PROVE  Regrouped(S, a, c, d)
<1>1. PICK ac, cd, l, r : ac = a \o c /\ cd = c \o d /\ l = ac \o d /\ r = a \o cd
  BY Zenon
<1>2. /\ ac \in Seq(S) /\ Len(ac) = Len(a) + Len(c)
      /\ cd \in Seq(S) /\ Len(cd) = Len(c) + Len(d)
  BY <1>1
<1>3. /\ l \in Seq(S) /\ Len(l) = Len(a) + Len(c) + Len(d)
      /\ r \in Seq(S) /\ Len(r) = Len(a) + Len(c) + Len(d)
  BY <1>1, <1>2
<1>4. ASSUME NEW k \in 1 .. (Len(a) + Len(c) + Len(d)) PROVE l[k] = r[k]
  BY <1>1, <1>2
<1>5. Len(l) = Len(r) /\ \A k \in 1 .. Len(l) : l[k] = r[k]
  BY <1>3, <1>4
<1>6. l = r
  BY <1>3, <1>5, SeqEqual, Zenon
<1> QED BY <1>1, <1>2, <1>6, Zenon DEF Regrouped

\* Moving bytes from the front of a sequence to the end of the one before it.
LEMMA Shift ==
    ASSUME NEW S, NEW a \in Seq(S), NEW b \in Seq(S), NEW n \in 0..Len(b)
    PROVE  /\ a \o Take(b, n) \in Seq(S)
           /\ (a \o Take(b, n)) \o Drop(b, n) = a \o b
<1>1. PICK c, d : c \in Seq(S) /\ d \in Seq(S) /\ c = Take(b, n) /\ d = Drop(b, n) /\ c \o d = b
  BY TakeDrop
<1>2. Regrouped(S, a, c, d)
  BY <1>1, Regroup, Zenon
<1> QED BY <1>1, <1>2, Zenon DEF Regrouped

\* Two bytes, or all there are, are what the stream is routed by.
LEMMA PeekedIsPrefix ==
    ASSUME NEW p \in Seq(Bytes), NEW i \in Seq(Bytes), NEW s, s = p \o i,
           Len(p) = 2 \/ (Len(p) <= 2 /\ i = <<>>)
    PROVE  Peeked(s) = p
<1>1. s \in Seq(Bytes) /\ Len(s) = Len(p) + Len(i)
  OBVIOUS
<1>2. (IF Len(s) < 2 THEN Len(s) ELSE 2) = Len(p)
  <2>1. Len(p) \in Nat /\ Len(i) \in Nat /\ (i = <<>> => Len(i) = 0)
    OBVIOUS
  <2>2. CASE Len(p) = 2
    BY <1>1, <2>1, <2>2
  <2>3. CASE Len(p) <= 2 /\ i = <<>>
    BY <1>1, <2>1, <2>3
  <2> QED BY <2>2, <2>3, Zenon
<1>3. Peeked(s) = SubSeq(s, 1, Len(p))
  BY <1>2, Zenon DEF Peeked, Take
<1>4. \A k \in 1..Len(p) : s[k] = p[k]
  OBVIOUS
<1>5. /\ SubSeq(s, 1, Len(p)) \in Seq(Bytes) /\ Len(SubSeq(s, 1, Len(p))) = Len(p)
      /\ \A k \in 1..Len(p) : SubSeq(s, 1, Len(p))[k] = p[k]
  BY <1>1, <1>4
<1>6. SubSeq(s, 1, Len(p)) = p
  BY <1>5, SeqEqual, Zenon
<1> QED BY <1>3, <1>6, Zenon

\* A CONNECT stream begins unread.
LEMMA ConnectGood ==
    ASSUME NEW target \in Named, NEW stream \in Streams, NEW t,
           t = [pc |-> "sniff", target |-> target, stream |-> stream, input |-> stream,
                prefix |-> <<>>, out |-> <<>>]
    PROVE  GoodTunnel(t)
<1>3. stream \in Seq(Bytes)
  BY RequestFlowAssumption, Zenon DEF Bytes
<1>4. <<>> \o <<>> \o stream = stream
  BY <1>3
<1>5. t \in Tunnels
  BY <1>3 DEF Tunnels, Named
<1>6. /\ t.pc = "sniff" /\ t.target = target /\ t.stream = stream /\ t.input = stream
      /\ t.prefix = <<>> /\ t.out = <<>>
  BY Zenon
<1> QED BY <1>4, <1>5, <1>6 DEF GoodTunnel

\* A read of sniff_connect_stream moves bytes to the prefix, and the last one routes
\* the stream by its first bytes.
LEMMA SniffGood ==
    ASSUME NEW t, GoodTunnel(t), t.pc = "sniff",
           NEW n \in 0..(2 - Len(t.prefix)), n = 0 <=> t.input = <<>>, n <= Len(t.input),
           NEW u, u = [t EXCEPT !.prefix = @ \o Take(t.input, n), !.input = Drop(@, n)]
    PROVE  GoodTunnel(IF IsSniffed(u.prefix, n) THEN Route(u) ELSE u)
<1>1. PICK prefix, input, taken, rest :
         /\ prefix = t.prefix /\ input = t.input
         /\ taken = Take(input, n) /\ rest = Drop(input, n)
  BY Zenon
<1>2. /\ t \in Tunnels /\ t.target \in Named /\ t.out = <<>>
      /\ prefix \in Seq(Bytes) /\ input \in Seq(Bytes) /\ t.stream \in Seq(Bytes)
      /\ Len(prefix) <= 2
  BY <1>1, Zenon DEF GoodTunnel, Tunnels
<1>3. n \in 0..Len(input) /\ n + Len(prefix) <= 2 /\ n \in Nat
  BY <1>1, <1>2
<1>4. /\ prefix \o taken \in Seq(Bytes)
      /\ (prefix \o taken) \o rest = prefix \o input
  <2>1. /\ prefix \o Take(input, n) \in Seq(Bytes)
        /\ (prefix \o Take(input, n)) \o Drop(input, n) = prefix \o input
    BY <1>2, <1>3, Shift, ZenonT(40)
  <2> QED BY <1>1, <2>1, Zenon
<1>5. taken \in Seq(Bytes) /\ rest \in Seq(Bytes) /\ Len(taken) = n
  BY <1>1, <1>2, <1>3, TakeDrop, Zenon
<1>6. t.stream = prefix \o input
  <2>1. <<>> \o prefix = prefix
    BY <1>2
  <2>2. t.stream = t.out \o t.prefix \o t.input
    BY Zenon DEF GoodTunnel
  <2> QED BY <1>1, <1>2, <2>1, <2>2, Zenon
<1>7. PICK peek : peek \in Seq(Bytes) /\ peek = prefix \o taken
  BY <1>4, Zenon
<1>8. /\ u.pc = "sniff" /\ u.target = t.target /\ u.stream = t.stream /\ u.out = <<>>
      /\ u.prefix = peek /\ u.input = rest /\ u \in Tunnels
  BY <1>1, <1>2, <1>5, <1>7, Zenon DEF Tunnels
<1>9. Len(peek) = Len(prefix) + n /\ Len(peek) <= 2
  BY <1>2, <1>3, <1>5, <1>7, SMTT(30)
<1>10. peek \o rest = t.stream
  BY <1>4, <1>6, <1>7, Zenon
<1>11. <<>> \o peek = peek
  BY <1>7
<1>12. GoodTunnel(u)
  BY <1>2, <1>8, <1>9, <1>10, <1>11, Zenon DEF GoodTunnel
<1>13. ASSUME IsSniffed(peek, n) PROVE GoodTunnel(Route(u))
  <2>1. n = 0 => rest = <<>>
    <3> SUFFICES ASSUME n = 0 PROVE rest = <<>>
      BY Zenon
    <3>1. input = <<>>
      BY <1>1, Zenon
    <3> QED BY <1>1, <3>1 DEF Drop
  <2>2. Len(peek) = 2 \/ (Len(peek) <= 2 /\ rest = <<>>)
    BY <1>9, <1>13, <2>1, Zenon DEF IsSniffed
  <2>3. Peeked(t.stream) = peek
    BY <1>5, <1>7, <1>10, <2>2, PeekedIsPrefix, Zenon
  <2>4. PICK pc1, v : /\ pc1 = IF looks_like_tls_client_hello(peek) THEN "tls" ELSE "dial"
                      /\ v = [u EXCEPT !.pc = pc1]
    BY Zenon
  <2>5. v = Route(u)
    BY <1>8, <2>4, Zenon DEF Route
  <2>6. /\ v.pc = pc1 /\ v.target = t.target /\ v.stream = t.stream /\ v.out = <<>>
        /\ v.prefix = peek /\ v.input = rest /\ v \in Tunnels
    BY <1>8, <2>4, Zenon DEF Tunnels
  <2>7. GoodTunnel(v)
    <3>1. v.out \o v.prefix \o v.input = v.stream
      BY <1>10, <1>11, <2>6, Zenon
    <3>2. pc1 \in {"tls", "dial"} /\ (pc1 = "tls" <=> looks_like_tls_client_hello(peek))
      BY <2>4, Zenon
    <3>3. Peeked(v.stream) = peek
      BY <2>3, <2>6, Zenon
    <3> QED BY <1>2, <2>6, <3>1, <3>2, <3>3, ZenonT(40) DEF GoodTunnel
  <2> QED BY <2>5, <2>7, Zenon
<1> QED BY <1>8, <1>12, <1>13, Zenon

\* What PrefixedIo and the plain tunnel pass on they take from the front of what is
\* left: of the prefix, and then of the stream.
LEMMA PassPrefix ==
    ASSUME NEW t, GoodTunnel(t), t.pc = "tls",
           NEW n \in 0..Len(t.prefix), NEW u,
           u = [t EXCEPT !.out = @ \o Take(t.prefix, n), !.prefix = Drop(@, n)]
    PROVE  GoodTunnel(u)
<1>1. PICK out, prefix, input, taken, rest :
         /\ out = t.out /\ prefix = t.prefix /\ input = t.input
         /\ taken = Take(prefix, n) /\ rest = Drop(prefix, n)
  BY Zenon
<1>2. /\ t \in Tunnels /\ t.target \in Named
      /\ out \in Seq(Bytes) /\ prefix \in Seq(Bytes) /\ input \in Seq(Bytes)
  BY <1>1, Zenon DEF GoodTunnel, Tunnels
<1>3. n \in 0..Len(prefix)
  BY <1>1, Zenon
<1>4. /\ out \o taken \in Seq(Bytes)
      /\ (out \o taken) \o rest = out \o prefix
  <2>1. /\ out \o Take(prefix, n) \in Seq(Bytes)
        /\ (out \o Take(prefix, n)) \o Drop(prefix, n) = out \o prefix
    BY <1>2, <1>3, Shift, ZenonT(40)
  <2> QED BY <1>1, <2>1, Zenon
<1>5. taken \in Seq(Bytes) /\ rest \in Seq(Bytes)
  BY <1>1, <1>2, <1>3, TakeDrop, Zenon
<1>6. PICK passed : passed \in Seq(Bytes) /\ passed = out \o taken
  BY <1>4, Zenon
<1>7. /\ u.pc = "tls" /\ u.target = t.target /\ u.stream = t.stream /\ u.out = passed
      /\ u.prefix = rest /\ u.input = input /\ u \in Tunnels
  BY <1>1, <1>2, <1>5, <1>6, Zenon DEF Tunnels
<1>8. u.out \o u.prefix \o u.input = u.stream
  <2>1. out \o prefix \o input = t.stream
    BY <1>1, Zenon DEF GoodTunnel
  <2> QED BY <1>4, <1>6, <1>7, <2>1, Zenon
<1>9. looks_like_tls_client_hello(Peeked(u.stream))
  BY <1>7, Zenon DEF GoodTunnel
<1> QED BY <1>2, <1>7, <1>8, <1>9, Zenon DEF GoodTunnel

\* Reading from the input once the prefix is used up does too.
LEMMA PassInput ==
    ASSUME NEW t, GoodTunnel(t), t.pc \in {"tls", "copy"}, t.prefix = <<>>,
           NEW n \in 0..Len(t.input), NEW u,
           u = [t EXCEPT !.out = @ \o Take(t.input, n), !.input = Drop(@, n)]
    PROVE  GoodTunnel(u)
<1>1. PICK out, input, taken, rest :
         /\ out = t.out /\ input = t.input
         /\ taken = Take(input, n) /\ rest = Drop(input, n)
  BY Zenon
<1>2. /\ t \in Tunnels /\ t.target \in Named
      /\ out \in Seq(Bytes) /\ input \in Seq(Bytes)
  BY <1>1, Zenon DEF GoodTunnel, Tunnels
<1>3. n \in 0..Len(input)
  BY <1>1, Zenon
<1>4. /\ out \o taken \in Seq(Bytes)
      /\ (out \o taken) \o rest = out \o input
  <2>1. /\ out \o Take(input, n) \in Seq(Bytes)
        /\ (out \o Take(input, n)) \o Drop(input, n) = out \o input
    BY <1>2, <1>3, Shift, ZenonT(40)
  <2> QED BY <1>1, <2>1, Zenon
<1>5. taken \in Seq(Bytes) /\ rest \in Seq(Bytes)
  BY <1>1, <1>2, <1>3, TakeDrop, Zenon
<1>6. PICK passed : passed \in Seq(Bytes) /\ passed = out \o taken
  BY <1>4, Zenon
<1>7. /\ u.pc = t.pc /\ u.target = t.target /\ u.stream = t.stream /\ u.out = passed
      /\ u.prefix = <<>> /\ u.input = rest /\ u \in Tunnels
  BY <1>1, <1>2, <1>5, <1>6, Zenon DEF Tunnels
<1>8. u.out \o u.prefix \o u.input = u.stream
  <2>1. out \o <<>> \o input = t.stream
    BY <1>1, Zenon DEF GoodTunnel
  <2>2. out \o <<>> = out
    BY <1>2
  <2>3. passed \o <<>> = passed
    BY <1>6
  <2> QED BY <1>4, <1>6, <1>7, <2>1, <2>2, <2>3, Zenon
<1>9. /\ t.pc = "tls" => looks_like_tls_client_hello(Peeked(u.stream))
      /\ t.pc = "copy" => ~looks_like_tls_client_hello(Peeked(u.stream))
  BY <1>7, Zenon DEF GoodTunnel
<1> QED BY <1>2, <1>7, <1>8, <1>9, Zenon DEF GoodTunnel

\* The plain tunnel connects or gives up, and writes the prefix at once.
LEMMA DialGood ==
    ASSUME NEW t, GoodTunnel(t), t.pc = "dial", NEW next \in {"copy", "closed"},
           NEW u, u = [t EXCEPT !.pc = next]
    PROVE  GoodTunnel(u)
<1>1. t \in Tunnels
  BY Zenon DEF GoodTunnel
<1>2. /\ u.pc = next /\ u.target = t.target /\ u.stream = t.stream /\ u.out = t.out
      /\ u.prefix = t.prefix /\ u.input = t.input /\ u \in Tunnels
  BY <1>1, Zenon DEF Tunnels
<1>3. u.out \o u.prefix \o u.input = u.stream
  BY <1>2, Zenon DEF GoodTunnel
<1>4. /\ t.target \in Named /\ t.out = <<>>
      /\ ~looks_like_tls_client_hello(Peeked(t.stream))
  BY Zenon DEF GoodTunnel
<1>5. ~looks_like_tls_client_hello(Peeked(u.stream))
  BY <1>2, <1>4, Zenon
<1> QED BY <1>2, <1>3, <1>4, <1>5, Zenon DEF GoodTunnel

\* The copy begins with the peeked bytes, so writing them first loses nothing.
LEMMA WritePrefixGood ==
    ASSUME NEW t, GoodTunnel(t), t.pc = "copy", t.prefix # <<>>,
           NEW u, u = [t EXCEPT !.out = t.prefix, !.prefix = <<>>]
    PROVE  GoodTunnel(u)
<1>1. /\ t \in Tunnels /\ t.target \in Named /\ t.out = <<>>
      /\ ~looks_like_tls_client_hello(Peeked(t.stream))
  BY Zenon DEF GoodTunnel
<1>2. t.prefix \in Seq(Bytes)
  BY <1>1, Zenon DEF Tunnels
<1>3. /\ u.pc = "copy" /\ u.target = t.target /\ u.stream = t.stream /\ u.out = t.prefix
      /\ u.prefix = <<>> /\ u.input = t.input /\ u \in Tunnels
  BY <1>1, <1>2, Zenon DEF Tunnels
<1>4. u.out \o u.prefix \o u.input = u.stream
  <2>1. t.prefix \o <<>> = t.prefix /\ <<>> \o t.prefix = t.prefix
    BY <1>2
  <2>2. t.out \o t.prefix \o t.input = t.stream
    BY Zenon DEF GoodTunnel
  <2> QED BY <1>1, <1>3, <2>1, <2>2, Zenon
<1>5. ~looks_like_tls_client_hello(Peeked(u.stream))
  BY <1>1, <1>3, Zenon
<1> QED BY <1>1, <1>3, <1>4, <1>5, Zenon DEF GoodTunnel

\* Every step of a stream leaves it in order.
LEMMA TunnelStepGood ==
    ASSUME TunnelInv, NEW r \in Requests, TunnelStep(r)
    PROVE  \E u : GoodTunnel(u) /\ tunnel' = [tunnel EXCEPT ![r] = u]
<1>1. PICK t : t = tunnel[r] /\ GoodTunnel(t)
  BY Zenon DEF TunnelInv
<1>2. ASSUME NEW target \in Targets, NEW stream \in Streams, handle_connect(r, target, stream)
      PROVE  \E u : GoodTunnel(u) /\ tunnel' = [tunnel EXCEPT ![r] = u]
  BY <1>2, ConnectGood, Zenon DEF handle_connect, Named
<1>3. CASE sniff_connect_stream(r)
  <2>1. PICK n, u :
           /\ n \in 0..(2 - Len(t.prefix))
           /\ t.pc = "sniff"
           /\ n = 0 <=> t.input = <<>>
           /\ n <= Len(t.input)
           /\ u = [t EXCEPT !.prefix = @ \o Take(t.input, n), !.input = Drop(@, n)]
           /\ tunnel' = [tunnel EXCEPT ![r] = IF IsSniffed(u.prefix, n) THEN Route(u) ELSE u]
    BY <1>1, <1>3, Zenon DEF sniff_connect_stream
  <2>2. PICK v : v = IF IsSniffed(u.prefix, n) THEN Route(u) ELSE u
    BY Zenon
  <2>3. GoodTunnel(v)
    BY <1>1, <2>1, <2>2, SniffGood, Zenon
  <2> QED BY <2>1, <2>2, <2>3, Zenon
<1>4. CASE PrefixedRead(r)
  <2>1. t.pc = "tls"
    BY <1>1, <1>4, Zenon DEF PrefixedRead
  <2>2. ASSUME NEW n \in 1..Len(t.prefix),
               tunnel' = [tunnel EXCEPT ![r].out = @ \o Take(tunnel[r].prefix, n),
                                        ![r].prefix = Drop(@, n)]
        PROVE  \E u : GoodTunnel(u) /\ tunnel' = [tunnel EXCEPT ![r] = u]
    <3>1. PICK u : u = [t EXCEPT !.out = @ \o Take(t.prefix, n), !.prefix = Drop(@, n)]
      BY Zenon
    <3>2. tunnel' = [tunnel EXCEPT ![r] = u]
      BY <1>1, <2>2, <3>1, Zenon DEF TunnelInv
    <3>3. n \in 0..Len(t.prefix)
      OBVIOUS
    <3> QED BY <1>1, <2>1, <3>1, <3>2, <3>3, PassPrefix, Zenon
  <2>3. ASSUME t.prefix = <<>>, NEW n \in 1..Len(t.input),
               tunnel' = [tunnel EXCEPT ![r].out = @ \o Take(tunnel[r].input, n),
                                        ![r].input = Drop(@, n)]
        PROVE  \E u : GoodTunnel(u) /\ tunnel' = [tunnel EXCEPT ![r] = u]
    <3>1. PICK u : u = [t EXCEPT !.out = @ \o Take(t.input, n), !.input = Drop(@, n)]
      BY Zenon
    <3>2. tunnel' = [tunnel EXCEPT ![r] = u]
      BY <1>1, <2>3, <3>1, Zenon DEF TunnelInv
    <3>3. n \in 0..Len(t.input) /\ t.pc \in {"tls", "copy"}
      BY <2>1
    <3> QED BY <1>1, <2>3, <3>1, <3>2, <3>3, PassInput, Zenon
  <2> QED BY <1>1, <1>4, <2>2, <2>3, Zenon DEF PrefixedRead
<1>5. CASE proxy_tunnel(r)
  <2>1. ASSUME t.pc = "dial", NEW next \in {"copy", "closed"},
               tunnel' = [tunnel EXCEPT ![r].pc = next]
        PROVE  \E u : GoodTunnel(u) /\ tunnel' = [tunnel EXCEPT ![r] = u]
    <3>1. PICK u : u = [t EXCEPT !.pc = next]
      BY Zenon
    <3>2. tunnel' = [tunnel EXCEPT ![r] = u]
      BY <1>1, <2>1, <3>1, Zenon DEF TunnelInv
    <3> QED BY <1>1, <2>1, <3>1, <3>2, DialGood, Zenon
  <2>2. ASSUME t.pc = "copy", t.prefix # <<>>,
               tunnel' = [tunnel EXCEPT ![r].out = tunnel[r].prefix, ![r].prefix = <<>>]
        PROVE  \E u : GoodTunnel(u) /\ tunnel' = [tunnel EXCEPT ![r] = u]
    <3>1. PICK u : u = [t EXCEPT !.out = t.prefix, !.prefix = <<>>]
      BY Zenon
    <3>2. tunnel' = [tunnel EXCEPT ![r] = u]
      BY <1>1, <2>2, <3>1, Zenon DEF TunnelInv
    <3> QED BY <1>1, <2>2, <3>1, <3>2, WritePrefixGood, Zenon
  <2>3. ASSUME t.pc = "copy", t.prefix = <<>>, NEW n \in 1..Len(t.input),
               tunnel' = [tunnel EXCEPT ![r].out = @ \o Take(tunnel[r].input, n),
                                        ![r].input = Drop(@, n)]
        PROVE  \E u : GoodTunnel(u) /\ tunnel' = [tunnel EXCEPT ![r] = u]
    <3>1. PICK u : u = [t EXCEPT !.out = @ \o Take(t.input, n), !.input = Drop(@, n)]
      BY Zenon
    <3>2. tunnel' = [tunnel EXCEPT ![r] = u]
      BY <1>1, <2>3, <3>1, Zenon DEF TunnelInv
    <3>3. n \in 0..Len(t.input) /\ t.pc \in {"tls", "copy"}
      BY <2>3
    <3> QED BY <1>1, <2>3, <3>1, <3>2, <3>3, PassInput, Zenon
  <2> QED BY <1>1, <1>5, <2>1, <2>2, <2>3, Zenon DEF proxy_tunnel
<1> QED BY <1>2, <1>3, <1>4, <1>5, Zenon DEF TunnelStep

\* Requests and reloads leave the streams alone.
LEMMA StreamsKept ==
    ASSUME Shape, ReloadStep \/ (\E r \in Requests : Moves(r)) \/ UNCHANGED vars
    PROVE  UNCHANGED tunnel
<1>1. CASE ReloadStep
  BY <1>1, Zenon DEF ReloadStep, ReplaceRules, StartBuild, ReplacePlugins
<1>2. CASE \E r \in Requests : Moves(r)
  BY <1>2, MovesOne, Zenon
<1>3. CASE UNCHANGED vars
  BY <1>3, Zenon DEF vars
<1> QED BY <1>1, <1>2, <1>3, Zenon

\* No step breaks a tunnel, its own or another request's.
LEMMA TunnelInvStep ==
    ASSUME Shape, TunnelInv, [Next]_vars
    PROVE  TunnelInv'
<1>1. CASE UNCHANGED tunnel
  BY <1>1, Zenon DEF TunnelInv
<1>2. ASSUME NEW r \in Requests, TunnelStep(r)
      PROVE  TunnelInv'
  <2>1. PICK u : GoodTunnel(u) /\ tunnel' = [tunnel EXCEPT ![r] = u]
    BY <1>2, TunnelStepGood, Zenon
  <2>2. DOMAIN tunnel' = Requests
    BY <2>1, Zenon DEF TunnelInv
  <2>3. ASSUME NEW s \in Requests PROVE GoodTunnel(tunnel'[s])
    <3>1. tunnel'[s] = IF s = r THEN u ELSE tunnel[s]
      BY <2>1, Zenon DEF TunnelInv
    <3> QED BY <2>1, <3>1, Zenon DEF TunnelInv
  <2> QED BY <2>2, <2>3, Zenon DEF TunnelInv
<1>3. Next => ReloadStep \/ (\E r \in Requests : Moves(r)) \/ \E r \in Requests : TunnelStep(r)
  BY StepKinds, Zenon
<1> QED BY <1>1, <1>2, <1>3, StreamsKept, Zenon

\* The streams start closed.
LEMMA TunnelInvInit == Init => TunnelInv
<1> SUFFICES ASSUME Init PROVE TunnelInv
  BY Zenon
<1>1. PICK t : t = NoTunnel
  BY Zenon
<1>2. <<>> \in Seq(Bytes) /\ <<>> \o <<>> \o <<>> = <<>>
  OBVIOUS
<1>3. /\ t \in Tunnels /\ t.pc = "none" /\ t.out = <<>> /\ t.prefix = <<>>
      /\ t.input = <<>> /\ t.stream = <<>>
  BY <1>1, <1>2, Zenon DEF NoTunnel, Tunnels
<1>4. GoodTunnel(t)
  BY <1>2, <1>3, Zenon DEF GoodTunnel
<1>5. DOMAIN tunnel = Requests /\ \A r \in Requests : tunnel[r] = t
  BY <1>1, Zenon DEF Init
<1> QED BY <1>4, <1>5, Zenon DEF TunnelInv

\* The CONNECT streams stay in order.
THEOREM TunnelInvAlways == Spec => []TunnelInv
<1>1. FlowInv => Shape
  BY Zenon DEF FlowInv
<1>2. Shape /\ TunnelInv /\ [Next]_vars => TunnelInv'
  BY TunnelInvStep, Zenon
<1> QED BY <1>1, <1>2, TunnelInvInit, FlowInvAlways, PTL DEF Spec

\* However the bytes of a CONNECT stream arrive, the sniffed ones are passed on once,
\* in order and first, and the first two of the stream alone decide between
\* interception and a plain tunnel.
THEOREM TunnelKeepsBytesAlways == Spec => []TunnelKeepsBytes
<1>1. TunnelInv => TunnelKeepsBytes
  <2> SUFFICES ASSUME TunnelInv, NEW r \in Requests
               PROVE  /\ tunnel[r].out \o tunnel[r].prefix \o tunnel[r].input
                            = tunnel[r].stream
                      /\ tunnel[r].pc = "tls" =>
                            looks_like_tls_client_hello(Peeked(tunnel[r].stream))
                      /\ tunnel[r].pc \in {"dial", "copy"} =>
                            ~looks_like_tls_client_hello(Peeked(tunnel[r].stream))
    BY Zenon DEF TunnelKeepsBytes, Peeked
  <2> QED BY Zenon DEF TunnelInv, GoodTunnel
<1> QED BY <1>1, TunnelInvAlways, PTL

\* A host without its brackets.
LEMMA Unbracket ==
    ASSUME NEW l, NEW b, NEW c
    PROVE  [[labels |-> l, bracketed |-> b] EXCEPT !.bracketed = c] =
               [labels |-> l, bracketed |-> c]
OBVIOUS

\* A URL that is put together has the scheme and the port it was given, and the host
\* too unless the path is an asterisk.
LEMMA ParsedUrl ==
    ASSUME NEW scheme, NEW authority, NEW path, NEW url,
           url = ParseUrl(scheme, authority, path), url # None
    PROVE  /\ url.scheme = scheme
           /\ url.port = IF authority.port = None THEN default_port(scheme) ELSE authority.port
           /\ path[1] = Slash => url.host = authority.host
BY Zenon DEF ParseUrl

\* What resolve_explicit_https_target accepts or builds is on the target.
LEMMA ResolvedOnTarget ==
    ASSUME NEW target \in Named, NEW i, NEW url,
           url = resolve_explicit_https_target(target, i), url # None
    PROVE  /\ url.scheme = "https"
           /\ url.port = target.port
           /\ IsAsteriskForm(i) \/ [url.host EXCEPT !.bracketed = FALSE] = target.host
<1>1. PICK host : host = target.host
  BY Zenon
<1>2. host \in [labels : Seq(STRING), bracketed : {FALSE}]
  BY <1>1, RequestFlowAssumption, Zenon DEF Named
<1>3. host = [labels |-> host.labels, bracketed |-> FALSE]
  BY <1>2, Zenon
<1>4. CASE i.absolute = None
  <2>1. PICK authority : authority = format_url_authority(host, target.port)
    BY Zenon
  <2>2. authority.host = format_authority_host(host)
    BY <2>1, Zenon DEF format_url_authority
  <2>3. authority.port = IF target.port = 443 THEN None ELSE target.port
    BY <2>1 DEF format_url_authority
  <2>4. /\ url.scheme = "https"
        /\ url.port = IF authority.port = None THEN default_port("https") ELSE authority.port
        /\ i.path[1] = Slash => url.host = authority.host
    <3>1. PICK path : path = i.path
      BY Zenon
    <3>2. url = ParseUrl("https", authority, path)
      BY <1>1, <1>4, <2>1, <3>1, Zenon DEF resolve_explicit_https_target
    <3> QED BY <3>1, <3>2, ParsedUrl
  <2>5. url.port = target.port
    <3>1. target.port # None
      BY Zenon DEF Named
    <3>2. default_port("https") = 443
      BY DEF default_port
    <3>3. CASE target.port = 443
      BY <2>3, <2>4, <3>2, <3>3
    <3>4. CASE target.port # 443
      BY <2>3, <2>4, <3>1, <3>4
    <3> QED BY <3>3, <3>4
  <2>6. CASE i.path[1] = Slash
    <3>1. PICK b : url.host = [host EXCEPT !.bracketed = b]
      BY <2>2, <2>4, <2>6, Zenon DEF format_authority_host
    <3>2. url.host = [labels |-> host.labels, bracketed |-> b]
      BY <1>3, <3>1, Zenon
    <3>3. [[labels |-> host.labels, bracketed |-> b] EXCEPT !.bracketed = FALSE] =
             [labels |-> host.labels, bracketed |-> FALSE]
      BY Unbracket, Zenon
    <3> QED BY <1>1, <1>3, <2>4, <2>5, <3>2, <3>3, Zenon
  <2>7. CASE i.path[1] # Slash
    BY <1>4, <2>4, <2>5, <2>7, Zenon DEF IsAsteriskForm
  <2> QED BY <2>6, <2>7, Zenon
<1>5. CASE i.absolute # None
  <2>1. /\ url.scheme = "https" /\ url.host = host /\ url.port = target.port
    BY <1>1, <1>5, Zenon DEF resolve_explicit_https_target, validate_connect_target_url
  <2>2. [url.host EXCEPT !.bracketed = FALSE] = [labels |-> host.labels, bracketed |-> FALSE]
    <3>1. [host EXCEPT !.bracketed = FALSE] = [labels |-> host.labels, bracketed |-> FALSE]
      BY <1>3, Unbracket, Zenon
    <3> QED BY <2>1, <3>1, Zenon
  <2> QED BY <1>1, <1>3, <2>1, <2>2, Zenon
<1> QED BY <1>4, <1>5, Zenon

\* Only CONNECT, which comes before the request, names a target.
LEMMA TargetKept ==
    ASSUME TunnelInv, NEW r \in Requests, TunnelStep(r), NEW s \in Requests,
           s # r \/ pc[r] # "idle"
    PROVE  tunnel'[s].target = tunnel[s].target
<1>1. CASE s # r
  <2>1. PICK u : tunnel' = [tunnel EXCEPT ![r] = u]
    BY TunnelStepGood, Zenon
  <2> QED BY <1>1, <2>1, Zenon DEF TunnelInv
<1>2. CASE s = r /\ pc[r] # "idle"
  <2>1. tunnel[r] \in Tunnels
    BY Zenon DEF TunnelInv, GoodTunnel
  <2>2. CASE sniff_connect_stream(r)
    <3>1. PICK n, u :
             /\ n \in 0..(2 - Len(tunnel[r].prefix))
             /\ u = [tunnel[r] EXCEPT !.prefix = @ \o Take(tunnel[r].input, n),
                                      !.input = Drop(@, n)]
             /\ tunnel' = [tunnel EXCEPT ![r] = IF IsSniffed(u.prefix, n) THEN Route(u) ELSE u]
      BY <2>2, Zenon DEF sniff_connect_stream
    <3>2. "target" \in DOMAIN u /\ u.target = tunnel[r].target
      BY <2>1, <3>1, Zenon DEF Tunnels
    <3>3. Route(u).target = u.target
      BY <3>2, Zenon DEF Route
    <3>4. tunnel'[r] = Route(u) \/ tunnel'[r] = u
      BY <3>1, Zenon DEF TunnelInv
    <3> QED BY <1>2, <3>2, <3>3, <3>4, Zenon
  <2>3. CASE PrefixedRead(r)
    BY <1>2, <2>1, <2>3, ZenonT(40) DEF PrefixedRead, TunnelInv, Tunnels
  <2>4. CASE proxy_tunnel(r)
    BY <1>2, <2>1, <2>4, ZenonT(40) DEF proxy_tunnel, TunnelInv, Tunnels
  <2>5. ~\E target \in Targets, stream \in Streams : handle_connect(r, target, stream)
    BY <1>2, Zenon DEF handle_connect
  <2> QED BY <2>2, <2>3, <2>4, <2>5, Zenon DEF TunnelStep
<1> QED BY <1>1, <1>2, Zenon

\* Only Receive sets the target URL of a request.
LEMMA UrlKept ==
    ASSUME NEW r, Moves(r), ~\E i \in Inbounds : Receive(r, i)
    PROVE  inbound'[r] = inbound[r] /\ original'[r] = original[r]
BY Zenon DEF Moves, forward_request, respond_response, SnapshotPlugins,
   collect_plugin_request_body, RequestStage, Execute, collect_upstream_response,
   ResponseStage, RunResponseStage, Cancel

\* The URL of a request is on a CONNECT target.
OnTarget(url, target, i) ==
    /\ url.scheme = "https"
    /\ url.port = target.port
    /\ IsAsteriskForm(i) \/ [url.host EXCEPT !.bracketed = FALSE] = target.host

\* A CONNECT request keeps to the target it named in every step.
LEMMA OnTargetStep ==
    ASSUME FlowInv, TunnelInv, TunnelStaysOnTarget, [Next]_vars
    PROVE  TunnelStaysOnTarget'
<1> SUFFICES ASSUME NEW r \in Requests, inbound'[r] # None, original'[r] # None,
                    inbound'[r].entry = "explicit-https"
             PROVE  OnTarget(original'[r], tunnel'[r].target, inbound'[r])
  BY Zenon DEF TunnelStaysOnTarget, OnTarget
<1>1. Shape /\ Good(r)
  BY Zenon DEF FlowInv, Good
<1>2. ASSUME inbound'[r] = inbound[r], original'[r] = original[r],
             tunnel'[r].target = tunnel[r].target
      PROVE  OnTarget(original'[r], tunnel'[r].target, inbound'[r])
  BY <1>2, Zenon DEF TunnelStaysOnTarget, OnTarget
<1>3. ASSUME NEW i \in Inbounds, Receive(r, i)
      PROVE  OnTarget(original'[r], tunnel'[r].target, inbound'[r])
  <2>1. /\ original'[r] = TargetOf(i, tunnel[r].target) /\ UNCHANGED tunnel
        /\ inbound'[r] = [i EXCEPT !.headers = @ \cup EntryHeaders(i)]
    BY <1>1, <1>3, Zenon DEF Receive, Shape
  <2>2. /\ inbound'[r].entry = i.entry /\ inbound'[r].absolute = i.absolute
        /\ inbound'[r].path = i.path /\ i.entry = "explicit-https"
    <3>1. {"entry", "absolute", "path"} \subseteq DOMAIN i
      BY RequestFlowAssumption, Zenon
    <3> QED BY <2>1, <3>1, Zenon
  <2>3. tunnel[r].pc = "tls"
    BY <1>3, <2>2, Zenon DEF Receive
  <2>4. PICK target \in Named : target = tunnel[r].target
    BY <2>3, Zenon DEF TunnelInv, GoodTunnel
  <2>5. PICK url : url = original'[r] /\ url = resolve_explicit_https_target(target, i)
    BY <2>1, <2>2, <2>4, Zenon DEF TargetOf
  <2>6. OnTarget(url, target, i)
    BY <2>5, ResolvedOnTarget, Zenon DEF OnTarget
  <2>7. OnTarget(url, target, inbound'[r])
    BY <2>2, <2>6, Zenon DEF OnTarget, IsAsteriskForm
  <2> QED BY <2>1, <2>4, <2>5, <2>7, Zenon
<1>4. CASE ReloadStep \/ UNCHANGED vars
  <2>1. Kept(r)
    BY <1>1, <1>4, OthersKeep, Zenon
  <2>2. UNCHANGED tunnel
    BY <1>1, <1>4, StreamsKept, Zenon
  <2> QED BY <1>2, <2>1, <2>2, Zenon DEF Kept
<1>5. ASSUME NEW s \in Requests, TunnelStep(s)
      PROVE  OnTarget(original'[r], tunnel'[r].target, inbound'[r])
  <2>1. Kept(r)
    BY <1>1, <1>5, OthersKeep, Zenon
  <2>2. inbound[r] # None
    BY <2>1, Zenon DEF Kept
  <2>3. pc[r] # "idle"
    BY <1>1, <2>2, Zenon DEF Good, Stage
  <2>4. tunnel'[r].target = tunnel[r].target
    BY <1>5, <2>3, TargetKept, Zenon
  <2> QED BY <1>2, <2>1, <2>4, Zenon DEF Kept
<1>6. ASSUME NEW s \in Requests, Moves(s)
      PROVE  OnTarget(original'[r], tunnel'[r].target, inbound'[r])
  <2>1. UNCHANGED tunnel /\ (s # r => Kept(r))
    BY <1>1, <1>6, MovesOne, Zenon
  <2>2. CASE s # r
    BY <1>2, <2>1, <2>2, Zenon DEF Kept
  <2>3. CASE s = r /\ ~\E i \in Inbounds : Receive(r, i)
    BY <1>2, <1>6, <2>1, <2>3, UrlKept, Zenon
  <2> QED BY <1>3, <2>2, <2>3, Zenon
<1> QED BY <1>4, <1>5, <1>6, StepKinds, Zenon

\* A request that comes in a CONNECT tunnel is about the tunnel's scheme, port and,
\* unless it is an asterisk-form request, host.
THEOREM TunnelStaysOnTargetAlways == Spec => []TunnelStaysOnTarget
<1>1. Init => TunnelStaysOnTarget
  BY ZenonT(40) DEF Init, TunnelStaysOnTarget
<1>2. FlowInv /\ TunnelInv /\ TunnelStaysOnTarget /\ [Next]_vars => TunnelStaysOnTarget'
  BY OnTargetStep, Zenon
<1> QED BY <1>1, <1>2, FlowInvAlways, TunnelInvAlways, PTL DEF Spec

-----------------------------------------------------------------------------
(* Forwarding keeps its contract. *)

\* The stages of the contract, one by one.
LEMMA ContractStages ==
    /\ ContractStage("idle") = "idle" /\ ContractStage("forward") = "open"
    /\ ContractStage("respond") = "local" /\ ContractStage("plugin") = "plugin"
    /\ ContractStage("collect") = "plugin" /\ ContractStage("on_request") = "plugin"
    /\ ContractStage("execute") = "upstream" /\ ContractStage("collect_response") = "returned"
    /\ ContractStage("on_response") = "returned" /\ ContractStage("answered") = "answered"
    /\ ContractStage("gone") = "gone" /\ ContractStage("panicked") = "gone"
BY DEF ContractStage

\* A request that goes to a stage goes to the contract's.
LEMMA ContractTo ==
    ASSUME Shape, NEW r \in Requests, NEW next, Goto(r, next)
    PROVE  Contract!To(r, ContractStage(next))
<1>1. \A q \in Requests : ContractStage(pc'[q]) =
          IF q = r THEN ContractStage(next) ELSE ContractStage(pc[q])
  BY Zenon DEF Goto, Shape
<1> QED BY <1>1, Zenon DEF Contract!To

\* An answer is the contract's answer.
LEMMA ContractAnswer ==
    ASSUME Shape, NEW r \in Requests, NEW a, Respond(r, a), NEW kinds, a.kind \in kinds
    PROVE  Contract!Answer(r, kinds) /\ answer'[r] = a
<1>1. answer' = [answer EXCEPT ![r] = a] /\ answer'[r] = a
  BY Zenon DEF Respond, Shape
<1>2. Contract!To(r, "answered")
  BY ContractTo, ContractStages, Zenon DEF Respond
<1> QED BY <1>1, <1>2, Zenon DEF Contract!Answer

\* Handing a request to the executor is the contract's handing over.
LEMMA ContractHand ==
    ASSUME Shape, NEW r \in Requests, NEW plan, NEW q, Send(r, plan, q), UNCHANGED answer
    PROVE  Contract!Hand(r) /\ sent'[r].plan = plan
<1>1. PICK s : /\ s.plan = plan
               /\ sent' = [sent EXCEPT ![r] = s]
  BY Zenon DEF Send
<1>2. sent'[r] = s
  BY <1>1, Zenon DEF Shape
<1>3. Contract!To(r, "upstream")
  BY ContractTo, ContractStages, Zenon DEF Send
<1> QED BY <1>1, <1>2, <1>3, Zenon DEF Contract!Hand

\* A reject answers or, when its status does not exist, ends the request without one.
LEMMA ContractReject ==
    ASSUME Shape, NEW r \in Requests, NEW status, reject_response(r, status),
           NEW kinds, "reject" \in kinds
    PROVE  Contract!Answer(r, kinds) \/ Contract!Vanish(r)
<1>1. PICK a : a = [kind |-> "reject"]
  BY Zenon
<1>2. \/ Respond(r, [kind |-> "reject"])
      \/ Goto(r, "panicked") /\ UNCHANGED answer
  BY Zenon DEF reject_response
<1>3. CASE Respond(r, [kind |-> "reject"])
  <2>1. Respond(r, a)
    BY <1>1, <1>3, Zenon
  <2>2. a.kind \in kinds
    BY <1>1, Zenon
  <2> QED BY <2>1, <2>2, ContractAnswer, Zenon
<1>4. CASE Goto(r, "panicked") /\ UNCHANGED answer
  BY <1>4, ContractTo, ContractStages, Zenon DEF Contract!Vanish
<1> QED BY <1>2, <1>3, <1>4, Zenon

\* A request whose rule forwards it was sent to the URL its answer will name.
Addressed(r) ==
    pc[r] = "execute" /\ action[r].type # "plugin" => sent[r].plan.url = AnsweredTarget(r)

AllAddressed == \A r \in Requests : Addressed(r)

\* The action that decides a request, and where it goes by it.
Decided(r, a) ==
    /\ a = resolve(live_rules, original[r])
    /\ action' = [action EXCEPT ![r] = a]
    /\ \/ a.type = "reject" /\ reject_response(r, a.status) /\ UNCHANGED sent
       \/ a.type = "respond" /\ Goto(r, "respond") /\ UNCHANGED <<answer, sent>>
       \/ a.type = "plugin" /\ Goto(r, "plugin") /\ UNCHANGED <<answer, sent>>
       \/ a.type = "mirror" /\ Send(r, a.upstream, inbound[r]) /\ UNCHANGED answer
       \/ /\ a.type \notin {"reject", "respond", "plugin", "mirror"}
          /\ Send(r, direct(original[r]), inbound[r]) /\ UNCHANGED answer

\* forward_request, case by case.
LEMMA ForwardDecides ==
    ASSUME NEW r, forward_request(r)
    PROVE  \E a : Decided(r, a)
<1>1. PICK a : a = resolve(live_rules, original[r])
  BY Zenon
<1>2. /\ action' = [action EXCEPT ![r] = a]
      /\ (CASE a.type = "reject" -> reject_response(r, a.status) /\ UNCHANGED sent
            [] a.type = "respond" -> Goto(r, "respond") /\ UNCHANGED <<answer, sent>>
            [] a.type = "plugin"  -> Goto(r, "plugin") /\ UNCHANGED <<answer, sent>>
            [] a.type = "mirror"  -> Send(r, a.upstream, inbound[r]) /\ UNCHANGED answer
            [] OTHER -> Send(r, direct(original[r]), inbound[r]) /\ UNCHANGED answer)
  BY <1>1, Zenon DEF forward_request
<1>3. CASE a.type = "reject"
  BY <1>1, <1>2, <1>3, Zenon DEF Decided
<1>4. CASE a.type = "respond"
  BY <1>1, <1>2, <1>4, Zenon DEF Decided
<1>5. CASE a.type = "plugin"
  BY <1>1, <1>2, <1>5, Zenon DEF Decided
<1>6. CASE a.type = "mirror"
  BY <1>1, <1>2, <1>6, Zenon DEF Decided
<1>7. CASE a.type \notin {"reject", "respond", "plugin", "mirror"}
  BY <1>1, <1>2, <1>7, Zenon DEF Decided
<1> QED BY <1>3, <1>4, <1>5, <1>6, <1>7, Zenon

\* Only the rules and the request stage send a request.
LEMMA OnlyTheseSend ==
    ASSUME Shape, NEW r \in Requests, Moves(r), pc'[r] = "execute"
    PROVE  forward_request(r) \/ RequestStage(r)
<1>1. ASSUME NEW next, Goto(r, next) PROVE next = "execute"
  BY <1>1, Zenon DEF Goto, Shape
<1>2. ASSUME NEW a PROVE ~Respond(r, a)
  BY <1>1, Zenon DEF Respond
<1>3. /\ ~\E i \in Inbounds : Receive(r, i)
      /\ ~respond_response(r) /\ ~SnapshotPlugins(r) /\ ~collect_plugin_request_body(r)
      /\ ~Execute(r) /\ ~collect_upstream_response(r) /\ ~Cancel(r)
  BY <1>1, <1>2, Zenon DEF Receive, respond_response, SnapshotPlugins,
     collect_plugin_request_body, Execute, collect_upstream_response, Cancel
<1>4. ~ResponseStage(r)
  BY <1>2, Zenon DEF ResponseStage, RunResponseStage
<1> QED BY <1>3, <1>4, Zenon DEF Moves

\* What a rule sends goes to the URL that the answer will name.
LEMMA DecidedAddressed ==
    ASSUME Shape, NEW r \in Requests, NEW a, Decided(r, a), UNCHANGED original
    PROVE  Addressed(r)'
<1> SUFFICES ASSUME pc'[r] = "execute" PROVE sent'[r].plan.url = AnsweredTarget(r)'
  BY Zenon DEF Addressed
<1>1. action'[r] = a
  BY Zenon DEF Decided, Shape
<1>2. CASE a.type = "mirror" /\ Send(r, a.upstream, inbound[r]) /\ UNCHANGED answer
  <2>1. sent'[r].plan = a.upstream
    BY <1>2, ContractHand, Zenon
  <2> QED BY <1>1, <1>2, <2>1, Zenon DEF AnsweredTarget
<1>3. CASE /\ a.type \notin {"reject", "respond", "plugin", "mirror"}
           /\ Send(r, direct(original[r]), inbound[r]) /\ UNCHANGED answer
  <2>1. PICK plan : plan = direct(original[r]) /\ sent'[r].plan = plan
    BY <1>3, ContractHand, Zenon
  <2>2. sent'[r].plan.url = original[r]
    BY <2>1 DEF direct
  <2>3. original'[r] = original[r]
    BY Zenon
  <2> QED BY <1>1, <1>3, <2>2, <2>3, Zenon DEF AnsweredTarget
<1>4. ASSUME NEW next, Goto(r, next) PROVE next = "execute"
  BY <1>4, Zenon DEF Goto, Shape
<1>5. ASSUME NEW status PROVE ~reject_response(r, status)
  <2>1. ~Goto(r, "answered") /\ ~Goto(r, "panicked")
    BY <1>4, Zenon
  <2>2. ~Respond(r, [kind |-> "reject"])
    BY <2>1, Zenon DEF Respond
  <2> QED BY <2>1, <2>2, Zenon DEF reject_response
<1> QED BY <1>2, <1>3, <1>4, <1>5, Zenon DEF Decided

\* Every step keeps it.
LEMMA AddressedNext == FlowInv /\ AllAddressed /\ [Next]_vars => AllAddressed'
<1> SUFFICES ASSUME FlowInv, AllAddressed, [Next]_vars, NEW r \in Requests
             PROVE  Addressed(r)'
  BY Zenon DEF AllAddressed
<1>1. Shape /\ Stage(r) /\ Addressed(r)
  BY Zenon DEF FlowInv, AllAddressed
<1>2. CASE Kept(r)
  BY <1>1, <1>2, Zenon DEF Kept, Addressed, AnsweredTarget
<1>3. CASE forward_request(r)
  <2>1. UNCHANGED original
    BY <1>3, Zenon DEF forward_request
  <2>2. PICK a : Decided(r, a)
    BY <1>3, ForwardDecides, Zenon
  <2> QED BY <1>1, <2>1, <2>2, DecidedAddressed, Zenon
<1>4. CASE RequestStage(r)
  <2>1. action' = action /\ pc[r] = "on_request"
    BY <1>4, Zenon DEF RequestStage
  <2>2. action[r].type = "plugin"
    BY <1>1, <2>1, Zenon DEF Stage, InPlugin
  <2> QED BY <2>1, <2>2, Zenon DEF Addressed
<1>5. CASE Moves(r) /\ pc'[r] # "execute"
  BY <1>5, Zenon DEF Addressed
<1> QED BY <1>1, <1>2, <1>3, <1>4, <1>5, OnlyTheseSend, StepAt, Zenon

\* The contract's view of a request at a stage.
LEMMA ContractAt ==
    ASSUME NEW r \in Requests
    PROVE  [q \in Requests |-> ContractStage(pc[q])][r] = ContractStage(pc[r])
BY Zenon

\* A request that goes on within a stage of the contract takes no step of it.
LEMMA ContractStays ==
    ASSUME Shape, NEW r \in Requests, NEW next, Goto(r, next),
           ContractStage(next) = ContractStage(pc[r]),
           UNCHANGED <<live_rules, original, action, sent, executed, answer>>
    PROVE  UNCHANGED Contract!contractVars
<1>1. \A q \in Requests : ContractStage(pc'[q]) = ContractStage(pc[q])
  BY Zenon DEF Goto, Shape
<1>2. [q \in Requests |-> ContractStage(pc'[q])] = [q \in Requests |-> ContractStage(pc[q])]
  BY <1>1, Zenon
<1> QED BY <1>2, Zenon DEF Contract!contractVars

\* An error is the contract's.
LEMMA ContractErrors ==
    ASSUME Shape, NEW r \in Requests, Respond(r, ErrorAnswer)
    PROVE  /\ Contract!Answer(r, {"error"})
           /\ Contract!Answer(r, {"reject", "error"})
           /\ Contract!Answer(r, {"respond", "error"})
<1>1. ErrorAnswer.kind = "error"
  BY DEF ErrorAnswer
<1>2. /\ ErrorAnswer.kind \in {"error"}
      /\ ErrorAnswer.kind \in {"reject", "error"}
      /\ ErrorAnswer.kind \in {"respond", "error"}
  BY <1>1, Zenon
<1> QED BY <1>2, ContractAnswer, Zenon

\* Receiving a request.
LEMMA ReceiveAccepts ==
    ASSUME Shape, NEW r \in Requests, NEW i \in Inbounds, Receive(r, i)
    PROVE  Contract!Accept(r)
<1>1. PICK url : /\ original' = [original EXCEPT ![r] = url]
                 /\ \/ Respond(r, ErrorAnswer)
                    \/ Goto(r, "forward") /\ UNCHANGED answer
  <2>1. PICK url : url = TargetOf(i, tunnel[r].target)
    BY Zenon
  <2>2. /\ original' = [original EXCEPT ![r] = url]
        /\ IF url = None THEN Respond(r, ErrorAnswer)
           ELSE Goto(r, "forward") /\ UNCHANGED answer
    BY <2>1, Zenon DEF Receive
  <2> QED BY <2>2, Zenon
<1>2. pc[r] = "idle" /\ UNCHANGED <<live_rules, action, sent, executed>>
  BY Zenon DEF Receive, reload
<1>3. original' = [original EXCEPT ![r] = original'[r]]
  BY <1>1, Zenon DEF Shape
<1>4. [q \in Requests |-> ContractStage(pc[q])][r] = "idle"
  BY <1>2, ContractAt, ContractStages, Zenon
<1>5. \/ Contract!To(r, "open") /\ UNCHANGED answer
      \/ Contract!Answer(r, {"error"})
  <2>1. CASE Respond(r, ErrorAnswer)
    BY <2>1, ContractErrors, Zenon
  <2>2. CASE Goto(r, "forward") /\ UNCHANGED answer
    BY <2>2, ContractTo, ContractStages, Zenon
  <2> QED BY <1>1, <2>1, <2>2, Zenon
<1> QED BY <1>2, <1>3, <1>4, <1>5, Zenon DEF Contract!Accept

\* Resolving it.
LEMMA ForwardDecidesIt ==
    ASSUME Shape, NEW r \in Requests, forward_request(r)
    PROVE  Contract!Decide(r)
<1>1. PICK a : Decided(r, a)
  BY ForwardDecides, Zenon
<1>2. pc[r] = "forward" /\ UNCHANGED <<live_rules, original, executed>>
  BY Zenon DEF forward_request, reload
<1>3. [q \in Requests |-> ContractStage(pc[q])][r] = "open"
  BY <1>2, ContractAt, ContractStages, Zenon
<1>4. a = Contract!ActionFor(original[r]) /\ action' = [action EXCEPT ![r] = a]
  BY <1>1, Zenon DEF Decided, resolve, NoRule, Contract!ActionFor, Contract!NoAction
<1>5. \/ a.type = "reject" /\ (Contract!Answer(r, {"reject"}) \/ Contract!Vanish(r))
         /\ UNCHANGED sent
      \/ a.type = "respond" /\ Contract!To(r, "local") /\ UNCHANGED <<sent, answer>>
      \/ a.type = "plugin" /\ Contract!To(r, "plugin") /\ UNCHANGED <<sent, answer>>
      \/ a.type = "mirror" /\ Contract!Hand(r) /\ sent'[r].plan = a.upstream
      \/ /\ a.type \notin {"reject", "respond", "plugin", "mirror"}
         /\ Contract!Hand(r)
         /\ sent'[r].plan.url = original[r]
  <2>1. CASE a.type = "reject" /\ reject_response(r, a.status) /\ UNCHANGED sent
    BY <2>1, ContractReject, Zenon
  <2>2. CASE a.type = "respond" /\ Goto(r, "respond") /\ UNCHANGED <<answer, sent>>
    BY <2>2, ContractTo, ContractStages, Zenon
  <2>3. CASE a.type = "plugin" /\ Goto(r, "plugin") /\ UNCHANGED <<answer, sent>>
    BY <2>3, ContractTo, ContractStages, Zenon
  <2>4. CASE a.type = "mirror" /\ Send(r, a.upstream, inbound[r]) /\ UNCHANGED answer
    BY <2>4, ContractHand, Zenon
  <2>5. CASE /\ a.type \notin {"reject", "respond", "plugin", "mirror"}
             /\ Send(r, direct(original[r]), inbound[r]) /\ UNCHANGED answer
    <3>1. PICK plan : plan = direct(original[r]) /\ sent'[r].plan = plan
      BY <2>5, ContractHand, Zenon
    <3>2. plan.url = original[r]
      BY <3>1 DEF direct
    <3>3. Contract!Hand(r)
      BY <2>5, ContractHand, Zenon
    <3> QED BY <2>5, <3>1, <3>2, <3>3, Zenon
  <2> QED BY <1>1, <2>1, <2>2, <2>3, <2>4, <2>5, Zenon DEF Decided
<1> QED BY <1>2, <1>3, <1>4, <1>5, Zenon DEF Contract!Decide

\* A local answer.
LEMMA RespondsLocally ==
    ASSUME Shape, NEW r \in Requests, respond_response(r)
    PROVE  Contract!AnswerLocally(r)
<1>1. pc[r] = "respond" /\ UNCHANGED <<live_rules, original, action, sent, executed>>
  BY Zenon DEF respond_response, reload
<1>2. [q \in Requests |-> ContractStage(pc[q])][r] = "local"
  BY <1>1, ContractAt, ContractStages, Zenon
<1>3. PICK a : a = [kind |-> "respond"]
  BY Zenon
<1>4. a.kind \in {"respond", "error"}
  BY <1>3
<1>5. Respond(r, a) \/ Respond(r, ErrorAnswer)
  BY <1>3, Zenon DEF respond_response
<1>6. Contract!Answer(r, {"respond", "error"})
  BY <1>4, <1>5, ContractAnswer, ContractErrors, Zenon
<1> QED BY <1>1, <1>2, <1>6, Zenon DEF Contract!AnswerLocally

\* Until a plugin has prepared the request, only a failed body read is seen.
LEMMA PluginStarts ==
    ASSUME Shape, NEW r \in Requests,
           SnapshotPlugins(r) \/ collect_plugin_request_body(r)
    PROVE  Contract!DecideByPlugin(r) \/ UNCHANGED Contract!contractVars
<1>1. UNCHANGED <<live_rules, original, action, sent, executed>>
  BY Zenon DEF SnapshotPlugins, collect_plugin_request_body, reload
<1>2. /\ pc[r] \in {"plugin", "collect"}
      /\ \/ \E next \in {"collect", "on_request"} : Goto(r, next) /\ UNCHANGED answer
         \/ Respond(r, ErrorAnswer)
  BY Zenon DEF SnapshotPlugins, collect_plugin_request_body
<1>3. ContractStage(pc[r]) = "plugin"
  BY <1>2, ContractStages, Zenon
<1>4. ASSUME NEW next \in {"collect", "on_request"}, Goto(r, next), UNCHANGED answer
      PROVE  UNCHANGED Contract!contractVars
  <2>1. ContractStage(next) = ContractStage(pc[r])
    BY <1>3, <1>4, ContractStages, Zenon
  <2> QED BY <1>1, <1>4, <2>1, ContractStays, Zenon
<1>5. CASE Respond(r, ErrorAnswer)
  BY <1>1, <1>3, <1>5, ContractAt, ContractErrors, Zenon DEF Contract!DecideByPlugin
<1> QED BY <1>2, <1>4, <1>5, Zenon

\* The plugin decides.
LEMMA PluginDecides ==
    ASSUME Shape, NEW r \in Requests, RequestStage(r)
    PROVE  Contract!DecideByPlugin(r)
<1>1. pc[r] = "on_request" /\ UNCHANGED <<live_rules, original, action, executed>>
  BY Zenon DEF RequestStage, reload
<1>2. [q \in Requests |-> ContractStage(pc[q])][r] = "plugin"
  BY <1>1, ContractAt, ContractStages, Zenon
<1>3. CASE Respond(r, ErrorAnswer) /\ UNCHANGED sent
  BY <1>1, <1>2, <1>3, ContractErrors, Zenon DEF Contract!DecideByPlugin
<1>4. ASSUME NEW p, Planned(r, p)
      PROVE  Contract!DecideByPlugin(r)
  <2>1. CASE reject_response(r, RejectStatus(p.outcome)) /\ UNCHANGED sent
    <3>1. Contract!Answer(r, {"reject", "error"}) \/ Contract!Vanish(r)
      BY <2>1, ContractReject, Zenon
    <3> QED BY <1>1, <1>2, <2>1, <3>1, Zenon DEF Contract!DecideByPlugin
  <2>2. CASE Send(r, resolve_plugin_upstream(p), p) /\ UNCHANGED answer
    <3>1. Contract!Hand(r)
      BY <2>2, ContractHand, Zenon
    <3> QED BY <1>1, <1>2, <3>1, Zenon DEF Contract!DecideByPlugin
  <2> QED BY <1>4, <2>1, <2>2, Zenon DEF Planned
<1>5. \/ Respond(r, ErrorAnswer) /\ UNCHANGED sent
      \/ \E p : Planned(r, p)
  BY RequestStageCases, Zenon
<1> QED BY <1>3, <1>4, <1>5, Zenon

\* The executor returns or fails.
LEMMA ExecuteReturns ==
    ASSUME Shape, NEW r \in Requests, Addressed(r), Execute(r)
    PROVE  Contract!Fail(r) \/ Contract!Return(r) \/ Contract!Relay(r)
<1>1. pc[r] = "execute" /\ UNCHANGED <<live_rules, original, action, sent>>
  BY Zenon DEF Execute, reload
<1>2. [q \in Requests |-> ContractStage(pc[q])][r] = "upstream"
  BY <1>1, ContractAt, ContractStages, Zenon
<1>3. CASE Respond(r, ErrorAnswer) /\ UNCHANGED executed
  BY <1>1, <1>2, <1>3, ContractErrors, Zenon DEF Contract!Fail
<1>4. ASSUME NEW response \in Responses, executed' = [executed EXCEPT ![r] = response],
             IF action[r].type = "plugin"
             THEN Goto(r, "collect_response") /\ UNCHANGED answer
             ELSE Respond(r, build_upstream_response(AnsweredTarget(r), response))
      PROVE  Contract!Return(r) \/ Contract!Relay(r)
  <2>1. executed'[r] = response /\ executed' = [executed EXCEPT ![r] = executed'[r]]
    BY <1>4, Zenon DEF Shape
  <2>2. CASE action[r].type = "plugin"
    <3>1. Contract!To(r, "returned") /\ UNCHANGED answer
      BY <1>4, <2>2, ContractTo, ContractStages, Zenon
    <3> QED BY <1>1, <1>2, <2>1, <2>2, <3>1, Zenon DEF Contract!Return
  <2>3. CASE action[r].type # "plugin"
    <3>1. PICK a : a = build_upstream_response(AnsweredTarget(r), response)
      BY Zenon
    <3>2. /\ a.kind = "upstream" /\ a.target = AnsweredTarget(r)
          /\ a.status = response.status /\ a.body = response.body
      BY <3>1 DEF build_upstream_response, UpstreamAnswer
    <3>3. Respond(r, a)
      BY <1>4, <2>3, <3>1, Zenon
    <3>4. a.kind \in {"upstream"}
      BY <3>2, Zenon
    <3>5. Contract!Answer(r, {"upstream"}) /\ answer'[r] = a
      BY <3>3, <3>4, ContractAnswer, Zenon
    <3>6. sent[r].plan.url = AnsweredTarget(r)
      BY <1>1, <2>3, Zenon DEF Addressed
    <3>7. /\ answer'[r].target = sent[r].plan.url
          /\ answer'[r].status = executed'[r].status
          /\ answer'[r].body = executed'[r].body
      BY <2>1, <3>2, <3>5, <3>6, Zenon
    <3> QED BY <1>1, <1>2, <2>1, <2>3, <3>5, <3>7, ZenonT(40) DEF Contract!Relay
  <2> QED BY <2>2, <2>3, Zenon
<1> QED BY <1>3, <1>4, Zenon DEF Execute

\* The plugin's answer names the upstream the request was sent to.
LEMMA PluginRelays ==
    ASSUME Shape, NEW r \in Requests, ResponseStage(r)
    PROVE  Contract!Fail(r) \/ Contract!RelayByPlugin(r)
<1>1. pc[r] = "on_response" /\ UNCHANGED <<live_rules, original, action, sent, executed>>
  BY Zenon DEF ResponseStage, RunResponseStage, reload
<1>2. [q \in Requests |-> ContractStage(pc[q])][r] = "returned"
  BY <1>1, ContractAt, ContractStages, Zenon
<1>3. Respond(r, ErrorAnswer) \/ \E patch : Respond(r, Finalize(r, patch))
  BY Zenon DEF ResponseStage, RunResponseStage
<1>4. CASE Respond(r, ErrorAnswer)
  BY <1>1, <1>2, <1>4, ContractErrors, Zenon DEF Contract!Fail
<1>5. ASSUME NEW patch, Respond(r, Finalize(r, patch))
      PROVE  Contract!RelayByPlugin(r)
  <2>1. PICK a : a = Finalize(r, patch)
    BY Zenon
  <2>2. a.kind = "upstream" /\ a.target = sent[r].plan.url
    BY <2>1 DEF Finalize
  <2>3. Respond(r, a) /\ a.kind \in {"upstream"}
    BY <1>5, <2>1, <2>2, Zenon
  <2>4. Contract!Answer(r, {"upstream"}) /\ answer'[r] = a
    BY <2>3, ContractAnswer, Zenon
  <2> QED BY <1>1, <1>2, <2>2, <2>4, Zenon DEF Contract!RelayByPlugin
<1> QED BY <1>3, <1>4, <1>5, Zenon

\* Reading the upstream's body.
LEMMA PluginCollects ==
    ASSUME Shape, NEW r \in Requests, collect_upstream_response(r)
    PROVE  Contract!Fail(r) \/ UNCHANGED Contract!contractVars
<1>1. /\ pc[r] = "collect_response"
      /\ UNCHANGED <<live_rules, original, action, sent, executed>>
  BY Zenon DEF collect_upstream_response, reload
<1>2. ContractStage(pc[r]) = "returned"
  BY <1>1, ContractStages, Zenon
<1>3. CASE Goto(r, "on_response") /\ UNCHANGED answer
  <2>1. ContractStage("on_response") = ContractStage(pc[r])
    BY <1>2, ContractStages, Zenon
  <2> QED BY <1>1, <1>3, <2>1, ContractStays, Zenon
<1>4. CASE Respond(r, ErrorAnswer)
  BY <1>1, <1>2, <1>4, ContractAt, ContractErrors, Zenon DEF Contract!Fail
<1> QED BY <1>3, <1>4, Zenon DEF collect_upstream_response

\* The client goes away.
LEMMA CancelLeaves ==
    ASSUME Shape, NEW r \in Requests, Stage(r), Cancel(r)
    PROVE  Contract!Leave(r)
<1>1. /\ pc[r] \in {"forward", "respond", "plugin", "collect", "on_request"} \cup Late
      /\ Goto(r, "gone")
      /\ UNCHANGED <<live_rules, original, action, sent, executed, answer>>
  BY Zenon DEF Cancel, Stage, Early, Late, Over, reload
<1>2. ContractStage(pc[r]) \in {"open", "local", "plugin", "upstream", "returned"}
  BY <1>1, ContractStages, Zenon DEF Late
<1>3. ContractStage(pc[r]) \notin Contract!Ends \cup {"idle"}
  BY <1>2, Zenon DEF Contract!Ends
<1>4. Contract!Vanish(r)
  BY <1>1, ContractTo, ContractStages, Zenon DEF Contract!Vanish
<1> QED BY <1>1, <1>3, <1>4, ContractAt, Zenon DEF Contract!Leave

\* Init of the gateway is Init of the contract.
LEMMA ForwardingInit == Init => Contract!Init
<1> SUFFICES ASSUME Init PROVE Contract!Init
  BY Zenon
<1>1. [r \in Requests |-> ContractStage(pc[r])] = [r \in Requests |-> "idle"]
  <2>1. \A r \in Requests : ContractStage(pc[r]) = "idle"
    BY ContractStages, Zenon DEF Init
  <2> QED BY <2>1, Zenon
<1> QED BY <1>1, Zenon DEF Init, NoRule, Contract!Init, Contract!NoAction

\* Every step is a step of the contract or leaves it alone.
LEMMA ForwardingNext ==
    FlowInv /\ AllAddressed /\ [Next]_vars => [Contract!Next]_(Contract!contractVars)
<1> SUFFICES ASSUME FlowInv, AllAddressed, [Next]_vars
             PROVE  Contract!Next \/ UNCHANGED Contract!contractVars
  BY Zenon
<1>1. Shape
  BY Zenon DEF FlowInv
<1>2. CASE ReloadStep
  <2>1. UNCHANGED <<pc, original, action, sent, executed, answer>>
    BY <1>2, Zenon DEF ReloadStep, ReplaceRules, StartBuild, ReplacePlugins
  <2>2. live_rules' \in RuleSets \/ live_rules' = live_rules
    BY <1>2, Zenon DEF ReloadStep, ReplaceRules, StartBuild, ReplacePlugins
  <2> QED BY <2>1, <2>2, Zenon DEF Contract!Next, Contract!Reload, Contract!contractVars
<1>3. ASSUME UNCHANGED Flow \/ UNCHANGED vars PROVE UNCHANGED Contract!contractVars
  BY <1>3, Zenon DEF Flow, vars, reload, Contract!contractVars
<1>4. ASSUME NEW r \in Requests, TunnelStep(r) PROVE UNCHANGED Flow
  BY <1>4, Zenon DEF TunnelStep, handle_connect, sniff_connect_stream, PrefixedRead,
     proxy_tunnel
<1>5. ASSUME NEW r \in Requests, Moves(r)
      PROVE  Contract!Next \/ UNCHANGED Contract!contractVars
  <2>1. Stage(r) /\ Addressed(r)
    BY Zenon DEF FlowInv, AllAddressed
  <2>2. \/ Contract!Accept(r) \/ Contract!Decide(r) \/ Contract!AnswerLocally(r)
        \/ Contract!DecideByPlugin(r) \/ Contract!Return(r) \/ Contract!Relay(r)
        \/ Contract!RelayByPlugin(r) \/ Contract!Fail(r) \/ Contract!Leave(r)
        \/ UNCHANGED Contract!contractVars
    BY <1>1, <1>5, <2>1, ReceiveAccepts, ForwardDecidesIt, RespondsLocally, PluginStarts,
       PluginDecides, ExecuteReturns, PluginRelays, PluginCollects, CancelLeaves,
       ZenonT(40) DEF Moves
  <2> QED BY <2>2, Zenon DEF Contract!Next
<1> QED BY <1>2, <1>3, <1>4, <1>5, StepKinds, Zenon

\* For any requests, rules, plugins, script outputs and upstreams, what the gateway
\* does with a request is what ForwardingContract promises.
THEOREM ImplementsForwardingAlways == Spec => ImplementsForwarding
<1>1. Init => AllAddressed
  BY Zenon DEF Init, AllAddressed, Addressed
<1>2. Spec => []AllAddressed
  BY <1>1, AddressedNext, FlowInvAlways, PTL DEF Spec
<1>3. Spec => Init /\ [][Next]_vars
  BY Zenon DEF Spec
<1> QED BY <1>2, <1>3, ForwardingInit, ForwardingNext, FlowInvAlways, PTL
        DEF ImplementsForwarding, Contract!Spec
=============================================================================
