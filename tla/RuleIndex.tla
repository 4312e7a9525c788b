----------------------------- MODULE RuleIndex -----------------------------
(***************************************************************************)
(* The rule matchers of src/rules and the index the rules are compiled     *)
(* into.  A rule set is a sequence of rules.  A matcher decides alone      *)
(* whether a URL matches; the index (hash maps and three kinds of trie)    *)
(* proposes the rules worth asking, and decides for the fake DNS server    *)
(* which host names enter the fake-ip flow.                                *)
(*                                                                         *)
(* A host name is the sequence of its labels from the right, the order in  *)
(* which the code walks them (rsplit('.')); `dot' says whether the URL     *)
(* wrote a trailing dot, which Url keeps and normalize_host drops.  A      *)
(* literal address is its family and its bits, most significant first;     *)
(* its text is one opaque label.  A path is a sequence of bytes.           *)
(***************************************************************************)
EXTENDS Integers, Sequences

CONSTANTS
    Schemes,    \* "http", "https"
    Ports,      \* port_or_known_default() of a URL
    Labels,     \* host name labels
    Bytes,      \* path bytes
    Slash,      \* the byte '/'
    Queries,    \* query strings; None when there is none
    Addresses,  \* literal addresses
    None

Names == Seq(Labels) \ {<<>>}

Hosts == [labels : Names, dot : BOOLEAN, ip : Addresses \cup {None}]

\* The path of an http or https URL starts with '/'.
Paths == {p \in Seq(Bytes) : p # <<>> /\ p[1] = Slash}

\* The URLs the matchers are asked about.
Url == [scheme : Schemes, host : Hosts, port : Ports, path : Paths,
        query : Queries \cup {None}]

\* The optional conditions that host and ip matchers share.
Common == [scheme : Schemes \cup {None}, port : Ports \cup {None},
           path_prefix : Paths \cup {None}]

\* HostPattern::Exact is a HostPattern::AnyOf of one host.
RuleMatcher ==
         [kind : {"exact", "prefix"}, origin : Url]
    \cup [kind : {"hosts"}, hosts : SUBSET Names, common : Common]
    \cup [kind : {"suffix"}, suffix : Names, common : Common]
    \cup [kind : {"ip"}, ip : Addresses, common : Common]
    \cup [kind : {"cidr"}, net : Addresses, common : Common]

Actions == {"mirror", "direct", "respond", "plugin", "reject"}

Rule == [matcher : RuleMatcher, action : Actions, priority : Int, spread : BOOLEAN]

ASSUME RuleIndexAssumption ==
    /\ Slash \in Bytes
    /\ \A a \in Addresses : a.family \in {"v4", "v6"} /\ a.bits \in Seq({0, 1})
    /\ None \notin Schemes /\ None \notin Ports /\ None \notin Paths
    /\ None \notin Addresses /\ None \notin Queries /\ None \notin Int

-----------------------------------------------------------------------------
(* Matching one rule. *)

StartsWith(s, p) == Len(p) <= Len(s) /\ SubSeq(s, 1, Len(p)) = p

EndsWithSlash(p) == p # <<>> /\ p[Len(p)] = Slash

\* The next byte after the first n is '/' or there is none.
AtBoundary(path, n) == n >= Len(path) \/ path[n + 1] = Slash

normalize_host(h) == h.labels

\* host_str() writes an IPv6 literal in brackets, which IpAddr does not parse.
parse_host_ip(h) ==
    IF h.ip # None /\ h.ip.family = "v4" THEN h.ip ELSE None

same_origin(u, v) == u.scheme = v.scheme /\ u.host = v.host /\ u.port = v.port

same_url(u, v) == same_origin(u, v) /\ u.path = v.path /\ u.query = v.query

path_has_prefix(path, prefix) ==
    \/ prefix = <<Slash>>
    \/ /\ StartsWith(path, prefix)
       /\ EndsWithSlash(prefix) \/ AtBoundary(path, Len(prefix))

explain_common_lookup_parts(c, u) ==
    /\ c.scheme # None => u.scheme = c.scheme
    /\ c.port # None => u.port = c.port
    /\ c.path_prefix # None => path_has_prefix(u.path, c.path_prefix)

\* The networks of a trie and of contains() are the leading bits of an address.
InNetwork(ip, net) == ip.family = net.family /\ StartsWith(ip.bits, net.bits)

explain_with_lookup(m, u) ==
    CASE m.kind = "exact"  -> same_url(u, m.origin)
      [] m.kind = "prefix" -> /\ same_origin(u, m.origin)
                              /\ path_has_prefix(u.path, m.origin.path)
      [] m.kind = "hosts"  -> /\ explain_common_lookup_parts(m.common, u)
                              /\ normalize_host(u.host) \in m.hosts
      [] m.kind = "suffix" -> /\ explain_common_lookup_parts(m.common, u)
                              /\ StartsWith(normalize_host(u.host), m.suffix)
      [] m.kind = "ip"     -> /\ explain_common_lookup_parts(m.common, u)
                              /\ parse_host_ip(u.host) = m.ip
      [] m.kind = "cidr"   -> /\ explain_common_lookup_parts(m.common, u)
                              /\ parse_host_ip(u.host) # None
                              /\ InNetwork(parse_host_ip(u.host), m.net)

-----------------------------------------------------------------------------
(* The tries.  A trie is the set of its insertions [path, index]; a node is *)
(* the path that leads to it.                                               *)

\* Mutant: the insertion stamps only the node it ends in.
Stamps_LastNode(trie, node) == {x.index : x \in {y \in trie : y.path = node}}

\* Inserting stamps every node on the way: the indices min_rule_index is over.
Stamps(trie, node) == {x.index : x \in {y \in trie : StartsWith(y.path, node)}}

\* A missing child and a node without min_rule_index both end the walk (no
\* caller passes a cutoff).
should_skip_subtree(trie, node) == Stamps(trie, node) = {}

\* The depths the walk along a key reaches.
Walk(trie, key) ==
    {k \in 0..Len(key) : \A j \in 0..k : ~should_skip_subtree(trie, SubSeq(key, 1, j))}

\* The insertions that end in the node at depth k of the walk.
EndingAt(trie, key, k) == {x \in trie : x.path = SubSeq(key, 1, k)}

\* PrefixPathTrie: byte by byte, the root's own terminals are not visited.
PrefixMatches(trie, path) ==
    UNION {{x.index : x \in {y \in EndingAt(trie, path, k) :
                                EndsWithSlash(y.path) \/ AtBoundary(path, k)}} :
           k \in Walk(trie, path) \ {0}}

\* SuffixHostTrie: label by label.
visit_rule_matches(trie, labels) ==
    UNION {{x.index : x \in EndingAt(trie, labels, k)} : k \in Walk(trie, labels) \ {0}}

\* Ipv4CidrTrie and Ipv6CidrTrie: bit by bit, the root (a /0) included.
visit_cidr_matches(trie, bits) ==
    UNION {{x.index : x \in EndingAt(trie, bits, k)} : k \in Walk(trie, bits)}

-----------------------------------------------------------------------------
(* The compiled index. *)

OriginKey(u) == <<u.scheme, normalize_host(u.host), u.port>>

ExactUrlKey(u) == <<OriginKey(u), u.path, u.query>>

OfKind(entries, kind) == {i \in DOMAIN entries : entries[i].matcher.kind = kind}

exact_urls(entries, key) ==
    {i \in OfKind(entries, "exact") : ExactUrlKey(entries[i].matcher.origin) = key}

prefix_origins(entries, key) ==
    {[path |-> entries[i].matcher.origin.path, index |-> i] :
        i \in {j \in OfKind(entries, "prefix") : OriginKey(entries[j].matcher.origin) = key}}

exact_hosts(entries, host) ==
    {i \in OfKind(entries, "hosts") : host \in entries[i].matcher.hosts}

suffix_hosts(entries) ==
    {[path |-> entries[i].matcher.suffix, index |-> i] : i \in OfKind(entries, "suffix")}

exact_ips(entries, ip) == {i \in OfKind(entries, "ip") : entries[i].matcher.ip = ip}

cidr_ips(entries, family) ==
    {[path |-> entries[i].matcher.net.bits, index |-> i] :
        i \in {j \in OfKind(entries, "cidr") : entries[j].matcher.net.family = family}}

\* Mutant: URL rules give the fake DNS no host.
dns_exact_hosts_HostRules(entries) ==
    UNION {entries[i].matcher.hosts :
              i \in {j \in OfKind(entries, "hosts") : entries[j].action # "direct"}}

\* dns_host_keys: direct rules and address rules ask for no fake address.
dns_exact_hosts(entries) ==
    LET intercepting == {entries[i] : i \in {j \in DOMAIN entries : entries[j].action # "direct"}}
    IN  {normalize_host(r.matcher.origin.host) :
            r \in {s \in intercepting : s.matcher.kind \in {"exact", "prefix"}}}
        \cup UNION {r.matcher.hosts : r \in {s \in intercepting : s.matcher.kind = "hosts"}}

\* mark_dns marks nodes of the suffix trie.
dns_suffixes(entries) ==
    {entries[i].matcher.suffix :
        i \in {j \in OfKind(entries, "suffix") : entries[j].action # "direct"}}

collect_candidate_indices(entries, u) ==
    LET host == normalize_host(u.host)
        ip   == parse_host_ip(u.host)
    IN  exact_urls(entries, ExactUrlKey(u))
        \cup PrefixMatches(prefix_origins(entries, OriginKey(u)), u.path)
        \cup exact_hosts(entries, host)
        \cup visit_rule_matches(suffix_hosts(entries), host)
        \cup (IF ip = None THEN {}
              ELSE exact_ips(entries, ip)
                   \cup visit_cidr_matches(cidr_ips(entries, ip.family), ip.bits))

matches_dns_host(entries, labels) ==
    \/ labels \in dns_exact_hosts(entries)
    \/ \E k \in 1..Len(labels) : SubSeq(labels, 1, k) \in dns_suffixes(entries)

-----------------------------------------------------------------------------
(* What the index owes the matchers. *)

\* The rules that match, asked one after the other.
Matching(entries, u) == {i \in DOMAIN entries : explain_with_lookup(entries[i].matcher, u)}

\* The index proposes every rule that matches.
Complete(entries, u) == Matching(entries, u) \subseteq collect_candidate_indices(entries, u)

\* A host that some intercepting rule matches by name is given a fake address.
Covered(entries, u) ==
    \A i \in Matching(entries, u) :
        entries[i].action # "direct" /\ entries[i].matcher.kind \notin {"ip", "cidr"}
            => matches_dns_host(entries, normalize_host(u.host))
=============================================================================
