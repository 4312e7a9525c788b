------------------------- MODULE ForwardingContract -------------------------
(***************************************************************************)
(* What the gateway promises about forwarding (gateway/forwarding), without *)
(* the steps it takes.  One set of rules, in force at one moment of the    *)
(* request, decides it, and it goes where the deciding action says: to the *)
(* action's upstream, to its own target, to no upstream, or where a plugin *)
(* sends it.  It goes to one upstream at most, before it is answered, and  *)
(* is answered once at most.  The answer of an upstream names the URL it   *)
(* came from, and unless a plugin handles it the client gets its status    *)
(* and body.                                                               *)
(*                                                                         *)
(* Of what is sent, returned and replied only the fields named here are    *)
(* promised.                                                               *)
(***************************************************************************)
CONSTANTS
    Requests,
    RuleSets,   \* functions from URLs to actions
    None

VARIABLES
    rules,      \* the rules in force
    stage,      \* [r]: how far the request is
    target,     \* [r]: the URL it asks for
    action,     \* [r]: the action that decided it
    sent,       \* [r]: what went upstream, or None
    returned,   \* [r]: what the upstream returned, or None
    reply       \* [r]: what the client got, or None

contractVars == <<rules, stage, target, action, sent, returned, reply>>

\* idle -> open -> local | plugin | upstream; plugin -> upstream -> returned; and from
\* each of them to one of the ends, answered and gone.
Ends == {"answered", "gone"}

NoAction == [type |-> "none"]

ActionFor(url) == IF url \in DOMAIN rules THEN rules[url] ELSE NoAction

Init ==
    /\ rules \in RuleSets
    /\ stage = [r \in Requests |-> "idle"]
    /\ target = [r \in Requests |-> None]
    /\ action = [r \in Requests |-> NoAction]
    /\ sent = [r \in Requests |-> None]
    /\ returned = [r \in Requests |-> None]
    /\ reply = [r \in Requests |-> None]

Reload ==
    /\ rules' \in RuleSets
    /\ UNCHANGED <<stage, target, action, sent, returned, reply>>

To(r, s) == stage' = [stage EXCEPT ![r] = s]

\* The request ends with an answer of one of these kinds.
Answer(r, kinds) ==
    /\ To(r, "answered")
    /\ reply' = [reply EXCEPT ![r] = reply'[r]]
    /\ reply'[r].kind \in kinds

\* The request ends without an answer.
Vanish(r) == To(r, "gone") /\ UNCHANGED reply

\* The request goes to its upstream.
Hand(r) ==
    /\ To(r, "upstream")
    /\ sent' = [sent EXCEPT ![r] = sent'[r]]
    /\ UNCHANGED reply

Accept(r) ==
    /\ stage[r] = "idle"
    /\ target' = [target EXCEPT ![r] = target'[r]]
    /\ \/ To(r, "open") /\ UNCHANGED reply
       \/ Answer(r, {"error"})
    /\ UNCHANGED <<rules, action, sent, returned>>

Decide(r) ==
    LET a == ActionFor(target[r]) IN
    /\ stage[r] = "open"
    /\ action' = [action EXCEPT ![r] = a]
    /\ \/ a.type = "reject" /\ (Answer(r, {"reject"}) \/ Vanish(r)) /\ UNCHANGED sent
       \/ a.type = "respond" /\ To(r, "local") /\ UNCHANGED <<sent, reply>>
       \/ a.type = "plugin" /\ To(r, "plugin") /\ UNCHANGED <<sent, reply>>
       \/ a.type = "mirror" /\ Hand(r) /\ sent'[r].plan = a.upstream
       \/ /\ a.type \notin {"reject", "respond", "plugin", "mirror"}
          /\ Hand(r)
          /\ sent'[r].plan.url = target[r]
    /\ UNCHANGED <<rules, target, returned>>

AnswerLocally(r) ==
    /\ stage[r] = "local"
    /\ Answer(r, {"respond", "error"})
    /\ UNCHANGED <<rules, target, action, sent, returned>>

\* A plugin refuses the request, fails, or sends it somewhere.
DecideByPlugin(r) ==
    /\ stage[r] = "plugin"
    /\ \/ (Answer(r, {"reject", "error"}) \/ Vanish(r)) /\ UNCHANGED sent
       \/ Hand(r)
    /\ UNCHANGED <<rules, target, action, returned>>

Return(r) ==
    /\ stage[r] = "upstream"
    /\ action[r].type = "plugin"
    /\ To(r, "returned")
    /\ returned' = [returned EXCEPT ![r] = returned'[r]]
    /\ UNCHANGED <<rules, target, action, sent, reply>>

\* What the upstream returns is passed on.
Relay(r) ==
    /\ stage[r] = "upstream"
    /\ action[r].type # "plugin"
    /\ returned' = [returned EXCEPT ![r] = returned'[r]]
    /\ Answer(r, {"upstream"})
    /\ reply'[r].target = sent[r].plan.url
    /\ reply'[r].status = returned'[r].status
    /\ reply'[r].body = returned'[r].body
    /\ UNCHANGED <<rules, target, action, sent>>

\* The plugin may patch what the upstream returned.
RelayByPlugin(r) ==
    /\ stage[r] = "returned"
    /\ Answer(r, {"upstream"})
    /\ reply'[r].target = sent[r].plan.url
    /\ UNCHANGED <<rules, target, action, sent, returned>>

Fail(r) ==
    /\ stage[r] \in {"upstream", "returned"}
    /\ Answer(r, {"error"})
    /\ UNCHANGED <<rules, target, action, sent, returned>>

\* The client goes away.
Leave(r) ==
    /\ stage[r] \notin Ends \cup {"idle"}
    /\ Vanish(r)
    /\ UNCHANGED <<rules, target, action, sent, returned>>

Next ==
    \/ Reload
    \/ \E r \in Requests :
         \/ Accept(r) \/ Decide(r) \/ AnswerLocally(r) \/ DecideByPlugin(r)
         \/ Return(r) \/ Relay(r) \/ RelayByPlugin(r) \/ Fail(r) \/ Leave(r)

Spec == Init /\ [][Next]_contractVars
=============================================================================
