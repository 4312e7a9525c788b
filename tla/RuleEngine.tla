----------------------------- MODULE RuleEngine -----------------------------
(***************************************************************************)
(* The live rule set of src/rules/pool: the rules are replaced as a whole  *)
(* when the configuration is reloaded, and a request takes one snapshot of *)
(* them, which it resolves or (GET /rules/explain) explains.               *)
(***************************************************************************)
EXTENDS RuleIndex, FiniteSetsExt

CONSTANTS
    RuleSets,   \* the rule sets the configuration may start with
    Reloads,    \* the ones a reload may bring
    Urls        \* the URLs requested

ASSUME RuleEngineAssumption ==
    RuleSets \subseteq Seq(Rule) /\ Reloads \subseteq RuleSets /\ Urls \subseteq Url

VARIABLES
    live,       \* LiveRuleSet: the rules new requests see
    decision    \* the last request: its rules, its URL, and what it was told

vars == <<live, decision>>

-----------------------------------------------------------------------------
(* Walking the candidates. *)

compare_candidate_order(entries, i, j) ==
    \/ entries[i].priority > entries[j].priority
    \/ entries[i].priority = entries[j].priority /\ i < j

\* sort_unstable_by and dedup: no two indices compare equal, so there is one order.
Sorted(entries, indices) ==
    CHOOSE s \in [1..Cardinality(indices) -> indices] :
        \A j, k \in DOMAIN s : j < k => compare_candidate_order(entries, s[j], s[k])

candidate_indices(entries, u) == Sorted(entries, collect_candidate_indices(entries, u))

\* The locals of the loop; `returned' once it has returned early.
ResolveStart ==
    [active |-> None, matched |-> None, propagated |-> None, returned |-> FALSE]

\* Closing a priority level: its winner returns, unless it spreads.
CloseLevel(entries, s) ==
    IF s.matched = None THEN s
    ELSE [s EXCEPT !.propagated = s.matched, !.matched = None,
                   !.returned = ~entries[s.matched].spread]

\* Mutant: the winner of a level never ends the walk.
ResolveStep_NeverStops(entries, u, s, i) ==
    LET t == IF s.active = entries[i].priority THEN s
             ELSE [CloseLevel(entries, s) EXCEPT !.active = entries[i].priority]
    IN  IF t.matched = None /\ explain_with_lookup(entries[i].matcher, u)
        THEN [t EXCEPT !.matched = i]
        ELSE t

\* One turn of the loop of resolve_candidates over candidate i.
ResolveStep(entries, u, s, i) ==
    LET t == IF s.active = entries[i].priority THEN s
             ELSE [CloseLevel(entries, s) EXCEPT !.active = entries[i].priority]
    IN  IF s.returned THEN s
        ELSE IF ~t.returned /\ t.matched = None /\ explain_with_lookup(entries[i].matcher, u)
             THEN [t EXCEPT !.matched = i]
             ELSE t

\* The locals after each turn of the loop.
resolve_candidates(entries, u, indices) ==
    LET locals[k \in 0..Len(indices)] ==
            IF k = 0 THEN ResolveStart
            ELSE ResolveStep(entries, u, locals[k - 1], indices[k])
    IN  locals

\* The rule a request is resolved to.
resolve(entries, u) ==
    LET indices == candidate_indices(entries, u)
    IN  CloseLevel(entries, resolve_candidates(entries, u, indices)[Len(indices)]).propagated

\* The groups of a trace with the group of this priority open, the last one.
OpenGroup(groups, priority) ==
    IF groups # <<>> /\ groups[Len(groups)].priority = priority THEN groups
    ELSE Append(groups, [priority |-> priority, candidates |-> <<>>, winner |-> None])

\* Mutant: the walk stops asking after the first candidate of a level.
ExplainStep_FirstOnly(entries, u, groups, i) ==
    LET open == OpenGroup(groups, entries[i].priority)
        last == open[Len(open)]
        wins == last.candidates = <<>> /\ explain_with_lookup(entries[i].matcher, u)
    IN  [open EXCEPT ![Len(open)] =
            [priority |-> last.priority, candidates |-> Append(last.candidates, i),
             winner |-> IF wins THEN i ELSE last.winner]]

\* One turn of the loop of explain_candidates over candidate i.
ExplainStep(entries, u, groups, i) ==
    LET open == OpenGroup(groups, entries[i].priority)
        last == open[Len(open)]
        wins == last.winner = None /\ explain_with_lookup(entries[i].matcher, u)
    IN  [open EXCEPT ![Len(open)] =
            [priority |-> last.priority, candidates |-> Append(last.candidates, i),
             winner |-> IF wins THEN i ELSE last.winner]]

\* The groups after each turn of the loop.
explain_candidates(entries, u, indices) ==
    LET groups[k \in 0..Len(indices)] ==
            IF k = 0 THEN <<>>
            ELSE ExplainStep(entries, u, groups[k - 1], indices[k])
    IN  groups

priority_groups(entries, u) ==
    LET indices == candidate_indices(entries, u)
    IN  explain_candidates(entries, u, indices)[Len(indices)]

\* finalize_explain_group: a group's winner lets the walk continue if it spreads.
propagation(entries, group) ==
    IF group.winner = None THEN "NoMatch"
    ELSE IF entries[group.winner].spread THEN "Continue" ELSE "Stop"

Won(groups) == {k \in DOMAIN groups : groups[k].winner # None}

\* Every group that has a winner overwrites final_winner.
final_match(groups) ==
    IF Won(groups) = {} THEN None ELSE groups[Max(Won(groups))].winner

-----------------------------------------------------------------------------
(* The requests and the reload. *)

Init ==
    /\ live \in RuleSets
    /\ decision = None

\* LiveRuleSet::replace, called by the config watch.
replace(rules) ==
    /\ live' = rules
    /\ decision' = None

\* forward_request and forward_intercepted_request: one snapshot, resolved.
forward_request(u) ==
    /\ decision' = [rules |-> live, url |-> u, told |-> "resolve", rule |-> resolve(live, u)]
    /\ UNCHANGED live

\* GET /rules/explain: 404 when there is no candidate.
explain_rules(u) ==
    LET groups == priority_groups(live, u)
    IN  /\ decision' = IF groups = <<>>
                       THEN [rules |-> live, url |-> u, told |-> "404", rule |-> None]
                       ELSE [rules |-> live, url |-> u, told |-> "explain",
                             rule |-> final_match(groups), groups |-> groups]
        /\ UNCHANGED live

Next ==
    \/ \E rules \in Reloads : replace(rules)
    \/ \E u \in Urls : forward_request(u) \/ explain_rules(u)

Spec == Init /\ [][Next]_vars

-----------------------------------------------------------------------------
(* Properties. *)

\* The documented order, without index or loop: the levels that have a match,
\* from the highest; the earliest match of a level wins it; the first winner
\* that does not spread is the answer, else the winner of the lowest level.
Winners(entries, u) ==
    LET matching == Matching(entries, u)
    IN  {i \in matching : \A j \in matching :
            entries[j].priority = entries[i].priority => i <= j}

Reference(entries, u) ==
    LET winners  == Winners(entries, u)
        Above(i) == {j \in winners : entries[j].priority > entries[i].priority}
        Below(i) == {j \in winners : entries[j].priority < entries[i].priority}
        last     == {i \in winners : /\ \A j \in Above(i) : entries[j].spread
                                     /\ ~entries[i].spread \/ Below(i) = {}}
    IN  IF winners = {} THEN None ELSE CHOOSE i \in last : TRUE

Groups(entries) ==
    [priority : {entries[i].priority : i \in DOMAIN entries},
     candidates : UNION {[1..n -> DOMAIN entries] : n \in 0..Len(entries)},
     winner : DOMAIN entries \cup {None}]

\* Every answer names a rule of the rule set it was computed from, or none
\* (MatchedRule and RuleExplainWinner borrow from the snapshot).
TypeOK ==
    /\ live \in RuleSets
    /\ decision # None =>
        /\ decision.rules \in RuleSets /\ decision.url \in Urls
        /\ decision.rule \in DOMAIN decision.rules \cup {None}
        /\ decision.told = "404" => decision.rule = None
        /\ decision.told = "explain" =>
            \A k \in DOMAIN decision.groups : decision.groups[k] \in Groups(decision.rules)

\* collect_candidate_indices proposes every rule that matches the URL: no hash
\* key and no trie walk loses a rule that a scan of all the rules would find.
IndexIsComplete == \A u \in Urls : Complete(live, u)

\* A host name that some intercepting rule matches passes matches_dns_host, so
\* that the fake DNS server captures the traffic the rule is about.
RulesReachDns == \A u \in Urls : Covered(live, u)

\* A request is resolved to the rule that the documented order (priority, then
\* position, `spread' passing on to the next level) selects among all the rules.
ResolvesInOrder ==
    decision # None /\ decision.told = "resolve" =>
        decision.rule = Reference(decision.rules, decision.url)

\* The groups of an explanation carry the decision: the winner of the first
\* group that says Stop, or of the last one that says Continue, is the rule
\* requests are resolved to.
TraceTellsDecision ==
    decision # None /\ decision.told = "explain" =>
        LET Wins(k, p) == propagation(decision.rules, decision.groups[k]) = p
            stops      == {k \in DOMAIN decision.groups : Wins(k, "Stop")}
            passes     == {k \in DOMAIN decision.groups : Wins(k, "Continue")}
        IN  resolve(decision.rules, decision.url) =
                IF stops # {} THEN decision.groups[Min(stops)].winner
                ELSE IF passes # {} THEN decision.groups[Max(passes)].winner
                ELSE None

\* When the final_match of an explanation is not the rule requests are resolved to:
\* exactly when a group below one that says Stop has a winner too, because
\* explain_candidates goes on where resolve_candidates has returned.
ExplainErrsBelowStop ==
    decision # None /\ decision.told = "explain" =>
        (decision.rule # resolve(decision.rules, decision.url) <=>
            \E j, k \in DOMAIN decision.groups :
                /\ j < k
                /\ propagation(decision.rules, decision.groups[j]) = "Stop"
                /\ decision.groups[k].winner # None)

\* What the README says of GET /rules/explain: it explains the routing decision,
\* so the final_match it reports is the rule requests are resolved to.
ExplainsDecision ==
    decision # None /\ decision.told = "explain" =>
        decision.rule = resolve(decision.rules, decision.url)
=============================================================================
