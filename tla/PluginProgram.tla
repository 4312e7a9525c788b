--------------------------- MODULE PluginProgram ---------------------------
(***************************************************************************)
(* The rules a plugin's on_compile returns (src/plugins/mod.rs): what the  *)
(* registry accepts, and which requests a rule matches.                    *)
(*                                                                         *)
(* Every schema is a record that has exactly the fields the script gave,   *)
(* so that an Option is a field that may be missing from the DOMAIN.  A    *)
(* host is the sequence of its labels (a trailing dot is a last label "")  *)
(* and whether it is written in brackets; a path is a sequence of bytes.   *)
(***************************************************************************)
EXTENDS Integers, Sequences, FiniteSetsExt

CONSTANTS
    Slash,      \* the byte '/'
    Dot,        \* the byte '.'
    WordBytes,  \* the letters, the digits, '-' and '_'
    None

Has(s, field) == field \in DOMAIN s

Selectors == {"exact", "prefix", "host", "hosts", "host_suffix"}

Conditions == {"scheme", "port", "path_prefix", "path_suffix"}

\* The labels between the first and the last that are not empty.
TrimDots(labels, front) ==
    LET full == {i \in DOMAIN labels : labels[i] # ""}
    IN IF full = {} THEN <<>>
       ELSE SubSeq(labels, IF front THEN Min(full) ELSE 1, Max(full))

normalize_host(h) == [h EXCEPT !.labels = TrimDots(h.labels, FALSE)]

normalize_host_suffix(h) == [h EXCEPT !.labels = TrimDots(h.labels, TRUE)]

\* The checks of CompiledPluginMatcher::try_from.
MatcherIsValid(m) ==
    /\ Cardinality(Selectors \cap DOMAIN m) = 1
    /\ Has(m, "scheme") => m.scheme \in {"http", "https"}
    /\ Has(m, "path_prefix") => m.path_prefix # <<>> /\ m.path_prefix[1] = Slash
    /\ Has(m, "path_suffix") =>
           \/ m.path_suffix # <<>> /\ m.path_suffix[1] \in {Dot, Slash}
           \/ \A k \in DOMAIN m.path_suffix : m.path_suffix[k] \in WordBytes
    /\ Has(m, "exact") \/ Has(m, "prefix") => DOMAIN m \cap Conditions = {}
    /\ Has(m, "host") => normalize_host(m.host).labels # <<>>
    /\ Has(m, "hosts") => /\ m.hosts # {}
                          /\ \A h \in m.hosts : normalize_host(h).labels # <<>>
    /\ Has(m, "host_suffix") => normalize_host_suffix(m.host_suffix).labels # <<>>

\* DnsPlan::try_from: the system resolver names no server, the others do.
DnsIsValid(dns) == (dns.mode = "system") <=> ~Has(dns, "server")

\* UpstreamPlan::try_from and validate_plugin_plan.
PlanIsValid(plan) ==
    /\ Has(plan, "dns") => DnsIsValid(plan.dns)
    /\ ~(Has(plan, "connect_host") /\ Has(plan, "connect_ip"))
    /\ ~(Has(plan, "connect_ip") /\ Has(plan, "dns"))

OutcomeIsValid(outcome) == outcome.type = "mirror" => PlanIsValid(outcome.upstream)

\* extract_compiled_rules: one rule that does not compile fails the plugin.
ProgramIsValid(rules) ==
    \A i \in DOMAIN rules : /\ MatcherIsValid(rules[i].matcher)
                            /\ OutcomeIsValid(rules[i].action)

-----------------------------------------------------------------------------
(* Matching. *)

\* str::starts_with and str::ends_with, of a path or of the labels of a host.
starts_with(s, prefix) ==
    Len(prefix) <= Len(s) /\ SubSeq(s, 1, Len(prefix)) = prefix

ends_with(s, suffix) ==
    Len(suffix) <= Len(s) /\ SubSeq(s, Len(s) - Len(suffix) + 1, Len(s)) = suffix

path_has_prefix(path, prefix) ==
    \/ prefix = <<Slash>>
    \/ /\ starts_with(path, prefix)
       /\ \/ prefix[Len(prefix)] = Slash
          \/ Len(path) = Len(prefix)
          \/ path[Len(prefix) + 1] = Slash

HostMatches(m, host) ==
    \/ Has(m, "host") /\ host = normalize_host(m.host)
    \/ Has(m, "hosts") /\ \E h \in m.hosts : host = normalize_host(h)
    \/ /\ Has(m, "host_suffix")
       /\ host.bracketed = m.host_suffix.bracketed
       /\ ends_with(host.labels, normalize_host_suffix(m.host_suffix).labels)

matches(m, url) ==
    CASE Has(m, "exact")  -> url = m.exact
      [] Has(m, "prefix") -> /\ url.scheme = m.prefix.scheme
                             /\ url.host = m.prefix.host
                             /\ url.port = m.prefix.port
                             /\ path_has_prefix(url.path, m.prefix.path)
      [] OTHER -> /\ Has(m, "scheme") => url.scheme = m.scheme
                  /\ Has(m, "port") => url.port = m.port
                  /\ Has(m, "path_prefix") => path_has_prefix(url.path, m.path_prefix)
                  /\ Has(m, "path_suffix") => ends_with(url.path, m.path_suffix)
                  /\ HostMatches(m, url.host)

\* The first compiled rule that matches: a PluginMatchContext, or None.
FindRule(rules, url) ==
    LET hits == {i \in DOMAIN rules : matches(rules[i].matcher, url)}
    IN IF hits = {} THEN None
       ELSE [index |-> Min(hits), action |-> rules[Min(hits)].action]
=============================================================================
