-------------------------- MODULE RuleEngineProofs --------------------------
(***************************************************************************)
(* For every rule set and every URL: the index is complete, the fake DNS   *)
(* covers the rules, a request is resolved to the rule that the documented *)
(* order selects, and the groups of an explanation tell that rule; its     *)
(* final match errs exactly where a group below one that stops has won.    *)
(*                                                                         *)
(* The two walks are loops over the sorted candidates.  Their states are   *)
(* described by positions in that list (Hit, Level, Win), each walk has an *)
(* invariant (ResolveInv, ExplainInv) that every turn keeps, and Climb     *)
(* takes it to the last turn.                                              *)
(***************************************************************************)
EXTENDS RuleEngine, FiniteSetTheorems, TLAPS

-----------------------------------------------------------------------------
(* Sequences.                                                               *)

\* A prefix of a sequence: its length, its elements.
LEMMA PrefixFacts ==
  ASSUME NEW S, NEW s \in Seq(S), NEW k \in 0..Len(s)
  PROVE  /\ SubSeq(s, 1, k) \in Seq(S)
         /\ Len(SubSeq(s, 1, k)) = k
         /\ \A i \in 1..k : SubSeq(s, 1, k)[i] = s[i]
OBVIOUS

\* A prefix of a prefix is a prefix.
LEMMA PrefixOfPrefix ==
  ASSUME NEW S, NEW s \in Seq(S), NEW k \in 0..Len(s), NEW j \in 0..k
  PROVE  StartsWith(SubSeq(s, 1, k), SubSeq(s, 1, j))
<1> DEFINE p == SubSeq(s, 1, k)
           q == SubSeq(s, 1, j)
           r == SubSeq(p, 1, j)
<1>1. /\ p \in Seq(S) /\ Len(p) = k /\ \A i \in 1..k : p[i] = s[i]
      /\ q \in Seq(S) /\ Len(q) = j /\ \A i \in 1..j : q[i] = s[i]
    BY PrefixFacts
<1> HIDE DEF p, q
<1>2. r \in Seq(S) /\ Len(r) = j /\ \A i \in 1..j : r[i] = p[i]
    BY <1>1, PrefixFacts, Zenon
<1> HIDE DEF r
<1>3. r = q
    BY <1>1, <1>2
<1> QED
    BY <1>1, <1>3 DEF StartsWith, r, p, q

-----------------------------------------------------------------------------
(* The tries.                                                               *)

\* The walk along a key reaches every insertion that is a prefix of the key:
\* an insertion stamps all the nodes on its way (update_min_rule_index), so
\* should_skip_subtree cuts none of them off.
LEMMA WalkReaches ==
  ASSUME NEW S, NEW key \in Seq(S), NEW trie, NEW x \in trie,
         x.path \in Seq(S), StartsWith(key, x.path)
  PROVE  /\ Len(x.path) \in Walk(trie, key)
         /\ x \in EndingAt(trie, key, Len(x.path))
<1> DEFINE k == Len(x.path)
<1>1. k \in 0..Len(key) /\ x.path = SubSeq(key, 1, k)
    BY DEF StartsWith
<1>2. ASSUME NEW j \in 0..k PROVE ~should_skip_subtree(trie, SubSeq(key, 1, j))
  <2>1. StartsWith(x.path, SubSeq(key, 1, j))
      BY <1>1, PrefixOfPrefix, Zenon
  <2> QED
      BY <2>1, Zenon DEF should_skip_subtree, Stamps
<1> QED
    BY <1>1, <1>2, Zenon DEF Walk, EndingAt

-----------------------------------------------------------------------------
(* The kinds of rules.                                                      *)

\* What a URL consists of.
LEMMA UrlFields ==
  ASSUME NEW u \in Url
  PROVE  /\ u.path \in Seq(Bytes) /\ u.path # <<>>
         /\ u.path[1] = Slash
         /\ u.host.labels \in Seq(Labels) /\ u.host.labels # <<>>
         /\ u.host.ip \in Addresses \cup {None}
BY Zenon DEF Url, Paths, Hosts, Names

\* What the matcher of a rule consists of.
LEMMA MatcherFields ==
  ASSUME NEW m \in RuleMatcher
  PROVE  /\ m.kind \in {"exact", "prefix", "hosts", "suffix", "ip", "cidr"}
         /\ m.kind \in {"exact", "prefix"} => m.origin \in Url
         /\ m.kind = "suffix" => m.suffix \in Seq(Labels) /\ m.suffix # <<>>
         /\ m.kind = "ip" => m.ip \in Addresses
         /\ m.kind = "cidr" => m.net \in Addresses
<1> DEFINE U == Url
           C == Common
           N == Names
<1> HIDE DEF U, C, N
<1>1. \/ m \in [kind : {"exact", "prefix"}, origin : U]
      \/ m \in [kind : {"hosts"}, hosts : SUBSET N, common : C]
      \/ m \in [kind : {"suffix"}, suffix : N, common : C]
      \/ m \in [kind : {"ip"}, ip : Addresses, common : C]
      \/ m \in [kind : {"cidr"}, net : Addresses, common : C]
    BY Zenon DEF RuleMatcher, U, C, N
<1>2. /\ m.kind \in {"exact", "prefix", "hosts", "suffix", "ip", "cidr"}
      /\ m.kind \in {"exact", "prefix"} => m.origin \in U
      /\ m.kind = "suffix" => m.suffix \in N
      /\ m.kind = "ip" => m.ip \in Addresses
      /\ m.kind = "cidr" => m.net \in Addresses
    BY <1>1, Zenon
<1> QED
    BY <1>2, Zenon DEF U, N, Names

\* A path that has a prefix in the sense of path_has_prefix is one on whose walk
\* the trie accepts the prefix: the two tests of the boundary agree.
LEMMA PrefixAgrees ==
  ASSUME NEW path \in Seq(Bytes), path # <<>>, path[1] = Slash,
         NEW prefix \in Seq(Bytes), prefix # <<>>,
         path_has_prefix(path, prefix)
  PROVE  /\ StartsWith(path, prefix)
         /\ EndsWithSlash(prefix) \/ AtBoundary(path, Len(prefix))
<1>1. CASE prefix = <<Slash>>
  <2>1. Len(prefix) = 1 /\ prefix[1] = Slash
      BY <1>1, Zenon
  <2>2. Len(path) \in Nat /\ Len(path) >= 1
      OBVIOUS
  <2>3. /\ SubSeq(path, 1, 1) \in Seq(Bytes) /\ Len(SubSeq(path, 1, 1)) = 1
        /\ SubSeq(path, 1, 1)[1] = path[1]
      BY <2>2, PrefixFacts
  <2>4. SubSeq(path, 1, 1) = prefix
      BY <2>1, <2>3
  <2> QED
      BY <2>1, <2>2, <2>4, Zenon DEF StartsWith, EndsWithSlash
<1>2. CASE prefix # <<Slash>>
    BY <1>2, Zenon DEF path_has_prefix
<1> QED
    BY <1>1, <1>2, Zenon

\* The entries of a rule set are rules.
LEMMA EntryMatcher ==
  ASSUME NEW entries \in Seq(Rule), NEW i \in DOMAIN entries
  PROVE  entries[i].matcher \in RuleMatcher
<1>1. entries[i] \in Rule
    OBVIOUS
<1> QED
    BY <1>1, Zenon DEF Rule

\* A URL rule that matches is found under the URL's origin.
LEMMA SameOriginSameKey ==
  ASSUME NEW u, NEW v, same_origin(u, v)
  PROVE  OriginKey(v) = OriginKey(u)
BY Zenon DEF same_origin, OriginKey, normalize_host

\* collect_candidate_indices proposes a matching rule, one kind of matcher at a
\* time.
LEMMA Proposed ==
  ASSUME NEW entries \in Seq(Rule), NEW u \in Url, NEW i \in Matching(entries, u)
  PROVE  i \in collect_candidate_indices(entries, u)
<1> DEFINE m == entries[i].matcher
           host == normalize_host(u.host)
           ip == parse_host_ip(u.host)
<1>1. i \in DOMAIN entries /\ explain_with_lookup(m, u)
    BY Zenon DEF Matching
<1>2. m \in RuleMatcher
    BY <1>1, EntryMatcher, Zenon
<1>3. CASE m.kind = "exact"
  <2>1. same_url(u, m.origin)
      BY <1>1, <1>3, Zenon DEF explain_with_lookup
  <2>2. ExactUrlKey(m.origin) = ExactUrlKey(u)
      BY <2>1, SameOriginSameKey, Zenon DEF same_url, ExactUrlKey
  <2>3. i \in exact_urls(entries, ExactUrlKey(u))
      BY <1>1, <1>3, <2>2, Zenon DEF exact_urls, OfKind
  <2> QED
      BY <2>3, Zenon DEF collect_candidate_indices
<1>4. CASE m.kind = "prefix"
  <2> DEFINE trie == prefix_origins(entries, OriginKey(u))
             x == [path |-> m.origin.path, index |-> i]
  <2>1. same_origin(u, m.origin) /\ path_has_prefix(u.path, m.origin.path)
      BY <1>1, <1>4, Zenon DEF explain_with_lookup
  <2>2. m.origin \in Url
      BY <1>2, <1>4, MatcherFields, Zenon
  <2>3. /\ u.path \in Seq(Bytes) /\ u.path # <<>> /\ u.path[1] = Slash
        /\ m.origin.path \in Seq(Bytes) /\ m.origin.path # <<>>
      BY <2>2, UrlFields, Zenon
  <2>4. /\ StartsWith(u.path, m.origin.path)
        /\ \/ EndsWithSlash(m.origin.path)
           \/ AtBoundary(u.path, Len(m.origin.path))
      BY <2>1, <2>3, PrefixAgrees, Zenon
  <2>5. OriginKey(m.origin) = OriginKey(u)
      BY <2>1, SameOriginSameKey, Zenon
  <2>6. x \in trie /\ x.path = m.origin.path /\ x.index = i
      BY <1>1, <1>4, <2>5, Zenon DEF prefix_origins, OfKind
  <2> HIDE DEF x, trie
  <2>7. /\ Len(x.path) \in Walk(trie, u.path)
        /\ x \in EndingAt(trie, u.path, Len(x.path))
      BY <2>3, <2>4, <2>6, WalkReaches, ZenonT(40)
  <2>8. Len(x.path) # 0
      BY <2>3, <2>6, SMTT(30)
  <2>9. x.index \in PrefixMatches(trie, u.path)
      BY <2>4, <2>6, <2>7, <2>8, SMTT(30) DEF PrefixMatches
  <2> QED
      BY <2>6, <2>9, Zenon DEF collect_candidate_indices, trie
<1>5. CASE m.kind = "hosts"
  <2>1. host \in m.hosts
      BY <1>1, <1>5, Zenon DEF explain_with_lookup
  <2>2. i \in exact_hosts(entries, host)
      BY <1>1, <1>5, <2>1, ZenonT(40) DEF exact_hosts, OfKind
  <2> QED
      BY <2>2, Zenon DEF collect_candidate_indices
<1>6. CASE m.kind = "suffix"
  <2> DEFINE trie == suffix_hosts(entries)
             x == [path |-> m.suffix, index |-> i]
  <2>1. StartsWith(host, m.suffix)
      BY <1>1, <1>6, Zenon DEF explain_with_lookup
  <2>2. /\ host \in Seq(Labels)
        /\ m.suffix \in Seq(Labels) /\ m.suffix # <<>>
      BY <1>2, <1>6, MatcherFields, UrlFields, Zenon DEF normalize_host
  <2>3. x \in trie /\ x.path = m.suffix /\ x.index = i
      BY <1>1, <1>6, Zenon DEF suffix_hosts, OfKind
  <2> HIDE DEF x, trie
  <2>4. /\ Len(x.path) \in Walk(trie, host)
        /\ x \in EndingAt(trie, host, Len(x.path))
      BY <2>1, <2>2, <2>3, WalkReaches, Zenon
  <2>5. Len(x.path) # 0
      BY <2>2, <2>3
  <2>6. x.index \in visit_rule_matches(trie, host)
      BY <2>4, <2>5 DEF visit_rule_matches
  <2> QED
      BY <2>3, <2>6, Zenon DEF collect_candidate_indices, trie
<1>7. CASE m.kind = "ip"
  <2>1. ip = m.ip /\ m.ip \in Addresses
    <3>1. ip = m.ip
        BY <1>1, <1>7, Zenon DEF explain_with_lookup
    <3> QED
        BY <1>2, <1>7, <3>1, MatcherFields, Zenon
  <2>2. ip # None
      BY <2>1, RuleIndexAssumption, Zenon
  <2>3. i \in exact_ips(entries, ip)
      BY <1>1, <1>7, <2>1, Zenon DEF exact_ips, OfKind
  <2> QED
      BY <2>2, <2>3, Zenon DEF collect_candidate_indices
<1>8. CASE m.kind = "cidr"
  <2> DEFINE trie == cidr_ips(entries, ip.family)
             x == [path |-> m.net.bits, index |-> i]
  <2>1. ip # None /\ InNetwork(ip, m.net)
      BY <1>1, <1>8, Zenon DEF explain_with_lookup
  <2>2. m.net \in Addresses /\ ip \in Addresses
      BY <1>2, <1>8, <2>1, MatcherFields, UrlFields, Zenon DEF parse_host_ip
  <2>3. ip.bits \in Seq({0, 1}) /\ m.net.bits \in Seq({0, 1})
      BY <2>2, RuleIndexAssumption, Zenon
  <2>4. x \in trie /\ x.path = m.net.bits /\ x.index = i
      BY <1>1, <1>8, <2>1, Zenon DEF cidr_ips, OfKind, InNetwork
  <2> HIDE DEF x, trie
  <2>5. /\ Len(x.path) \in Walk(trie, ip.bits)
        /\ x \in EndingAt(trie, ip.bits, Len(x.path))
      BY <2>1, <2>3, <2>4, WalkReaches, ZenonT(40) DEF InNetwork
  <2>6. x.index \in visit_cidr_matches(trie, ip.bits)
      BY <2>5 DEF visit_cidr_matches
  <2> QED
      BY <2>1, <2>4, <2>6, ZenonT(40) DEF collect_candidate_indices, trie
<1> QED
    BY <1>2, <1>3, <1>4, <1>5, <1>6, <1>7, <1>8, MatcherFields, Zenon

\* matches_dns_host accepts the host of a URL that an intercepting rule matches
\* by name.
LEMMA Reached ==
  ASSUME NEW entries \in Seq(Rule), NEW u \in Url, NEW i \in Matching(entries, u),
         entries[i].action # "direct", entries[i].matcher.kind \notin {"ip", "cidr"}
  PROVE  matches_dns_host(entries, normalize_host(u.host))
<1> DEFINE m == entries[i].matcher
           host == normalize_host(u.host)
<1>1. i \in DOMAIN entries /\ explain_with_lookup(m, u)
    BY Zenon DEF Matching
<1>2. m \in RuleMatcher
    BY <1>1, EntryMatcher, Zenon
<1>3. CASE m.kind \in {"exact", "prefix"}
  <2>1. normalize_host(m.origin.host) = host
      BY <1>1, <1>3, Zenon DEF explain_with_lookup, same_url, same_origin
  <2>2. host \in dns_exact_hosts(entries)
      BY <1>1, <1>3, <2>1, Zenon DEF dns_exact_hosts
  <2> QED
      BY <2>2, Zenon DEF matches_dns_host
<1>4. CASE m.kind = "hosts"
  <2>1. host \in m.hosts
      BY <1>1, <1>4, Zenon DEF explain_with_lookup
  <2>2. host \in dns_exact_hosts(entries)
      BY <1>1, <1>4, <2>1, Zenon DEF dns_exact_hosts
  <2> QED
      BY <2>2, Zenon DEF matches_dns_host
<1>5. CASE m.kind = "suffix"
  <2>1. StartsWith(host, m.suffix)
      BY <1>1, <1>5, Zenon DEF explain_with_lookup
  <2>2. /\ host \in Seq(Labels)
        /\ m.suffix \in Seq(Labels) /\ m.suffix # <<>>
      BY <1>2, <1>5, MatcherFields, UrlFields, Zenon DEF normalize_host
  <2>3. m.suffix \in dns_suffixes(entries)
      BY <1>1, <1>5, Zenon DEF dns_suffixes, OfKind
  <2>4. Len(m.suffix) \in 1..Len(host) /\ SubSeq(host, 1, Len(m.suffix)) = m.suffix
      BY <2>1, <2>2 DEF StartsWith
  <2> QED
      BY <2>3, <2>4, Zenon DEF matches_dns_host
<1> QED
    BY <1>2, <1>3, <1>4, <1>5, MatcherFields, Zenon

-----------------------------------------------------------------------------
(* Loops.                                                                   *)

\* A set of natural numbers that is not empty has a least element.
LEMMA Least ==
  ASSUME NEW T, T \subseteq Nat, T # {}
  PROVE  \E n \in T : \A m \in T : n <= m
<1>1. \E n \in T : \A m \in T : ~(<<m, n>> \in OpToRel(<, Nat))
    BY NatLessThanWellFounded, WFMin, Zenon
<1>2. PICK n \in T : \A m \in T : ~(<<m, n>> \in OpToRel(<, Nat))
    BY <1>1, Zenon
<1>3. ASSUME NEW m \in T PROVE n <= m
  <2>1. <<m, n>> \notin OpToRel(<, Nat)
      BY <1>2, Zenon
  <2>2. m \in Nat /\ n \in Nat
      BY Zenon
  <2>3. ~(m < n)
      BY <2>1, <2>2, Zenon DEF OpToRel
  <2> QED
      BY <2>2, <2>3
<1> QED
    BY <1>3, Zenon

\* A set of natural numbers up to n that is not empty has a greatest element.
LEMMA Greatest ==
  ASSUME NEW n \in Nat, NEW T, T \subseteq 0..n, T # {}
  PROVE  \E k \in T : \A m \in T : m <= k
<1> DEFINE U == {n - k : k \in T}
<1>1. U \subseteq Nat /\ U # {}
  <2>1. \A k \in T : n - k \in Nat
      OBVIOUS
  <2>2. U \subseteq Nat
      BY <2>1, Zenon
  <2>3. U # {}
      BY Zenon
  <2> QED
      BY <2>2, <2>3, Zenon
<1>2. PICK l \in U : \A m \in U : l <= m
    BY <1>1, Least, Zenon
<1>3. PICK k \in T : l = n - k
    BY Zenon
<1>4. ASSUME NEW m \in T PROVE m <= k
  <2>1. n - m \in U
      BY Zenon
  <2> QED
      BY <1>2, <1>3, <2>1
<1> QED
    BY <1>4, Zenon

\* A loop over 1..n: its turns stay in S; w is the state after each of them.
TurnsIn(S, turn, n) == \A s \in S : \A k \in 1..n : turn[<<s, k>>] \in S

RunOf(w, base, turn, n) ==
  /\ w[0] = base
  /\ \A k \in 1..n : w[k] = turn[<<w[k - 1], k>>]

\* v and w start alike, and go on alike while they agree.
SameTurns(v, w, n) ==
  /\ v[0] = w[0]
  /\ \A k \in 1..n : v[k - 1] = w[k - 1] => v[k] = w[k]

\* Such a loop runs, whatever n is.
LEMMA LoopRuns ==
  ASSUME NEW S, NEW base \in S, NEW turn, NEW n \in Nat, TurnsIn(S, turn, n)
  PROVE  \E w \in [0..n -> S] : RunOf(w, base, turn, n)
<1> DEFINE Run(m) == \E w \in [0..m -> S] : RunOf(w, base, turn, m)
           Stuck == {m \in 0..n : ~Run(m)}
<1>1. Run(0)
  <2> DEFINE w == [k \in 0..0 |-> base]
  <2>1. w \in [0..0 -> S] /\ RunOf(w, base, turn, 0)
      BY DEF RunOf
  <2> QED
      BY <2>1, Zenon
<1>2. ASSUME NEW m \in 0..n, m < n, Run(m) PROVE Run(m + 1)
  <2>1. PICK w \in [0..m -> S] : RunOf(w, base, turn, m)
      BY <1>2, Zenon
  <2> DEFINE v == [k \in 0..(m + 1) |-> IF k = m + 1 THEN turn[<<w[m], k>>] ELSE w[k]]
  <2>2. v \in [0..(m + 1) -> S]
      BY <1>2 DEF TurnsIn
  <2>3. v[0] = base
      BY <2>1 DEF RunOf
  <2>4. ASSUME NEW k \in 1..(m + 1) PROVE v[k] = turn[<<v[k - 1], k>>]
      BY <2>1 DEF RunOf
  <2> QED
      BY <2>2, <2>3, <2>4, Zenon DEF RunOf
<1>3. Stuck = {}
  <2>1. SUFFICES ASSUME Stuck # {} PROVE FALSE
      BY Zenon
  <2> HIDE DEF Run
  <2>2. PICK m \in Stuck : \A l \in Stuck : m <= l
    <3>1. Stuck \subseteq Nat
        OBVIOUS
    <3> HIDE DEF Stuck
    <3> QED
        BY <2>1, <3>1, Least, Zenon
  <2>3. m # 0
      BY <1>1, Zenon
  <2>4. m - 1 \in 0..n /\ m - 1 < n /\ m - 1 \notin Stuck
      BY <2>2, <2>3
  <2>5. Run(m - 1)
      BY <2>4, Zenon
  <2>6. Run((m - 1) + 1)
      BY <1>2, <2>4, <2>5, Zenon
  <2> QED
      BY <2>6
<1> QED
    BY <1>3

\* Two runs of a loop that start alike and make the same turns are the same.
LEMMA LoopsAgree ==
  ASSUME NEW n \in Nat, NEW v, NEW w, SameTurns(v, w, n)
  PROVE  \A k \in 0..n : v[k] = w[k]
<1> DEFINE Bad == {k \in 0..n : v[k] # w[k]}
<1>1. SUFFICES ASSUME Bad # {} PROVE FALSE
    BY Zenon
<1>2. PICK k \in Bad : \A m \in Bad : k <= m
  <2>1. Bad \subseteq Nat
      OBVIOUS
  <2> HIDE DEF Bad
  <2> QED
      BY <1>1, <2>1, Least, Zenon
<1>3. k \in 1..n
    BY DEF SameTurns
<1>4. k - 1 \in 0..n /\ k - 1 \notin Bad
    BY <1>2, <1>3
<1> QED
    BY <1>3, <1>4, Zenon DEF SameTurns

\* The turns in G: 0 is, and with every turn the next one.
Climbs(G, n) == 0 \in G /\ \A k \in 1..n : k - 1 \in G => k \in G

\* What holds before the first turn of a loop and is kept by every turn, always holds.
LEMMA Climb ==
  ASSUME NEW n \in Nat, NEW G, Climbs(G, n)
  PROVE  \A k \in 0..n : k \in G
<1> DEFINE Bad == {k \in 0..n : k \notin G}
<1>1. SUFFICES ASSUME Bad # {} PROVE FALSE
    BY Zenon
<1>2. PICK k \in Bad : \A m \in Bad : k <= m
  <2>1. Bad \subseteq Nat
      OBVIOUS
  <2> HIDE DEF Bad
  <2> QED
      BY <1>1, <2>1, Least, Zenon
<1>3. k \in 1..n
    BY DEF Climbs
<1>4. k - 1 \in 0..n /\ k - 1 \notin Bad
    BY <1>2, <1>3
<1> QED
    BY <1>3, <1>4, Zenon DEF Climbs

-----------------------------------------------------------------------------
(* The order of the candidates.                                             *)

\* compare_candidate_order is a total order on the rules of a rule set.
LEMMA OrderIsTotal ==
  ASSUME NEW entries \in Seq(Rule), NEW i \in DOMAIN entries, NEW j \in DOMAIN entries,
         NEW k \in DOMAIN entries
  PROVE  /\ entries[i].priority \in Int /\ i \in Nat /\ j \in Nat
         /\ ~compare_candidate_order(entries, i, i)
         /\ i # j => \/ compare_candidate_order(entries, i, j)
                     \/ compare_candidate_order(entries, j, i)
         /\ compare_candidate_order(entries, i, j) /\ compare_candidate_order(entries, j, k)
              => compare_candidate_order(entries, i, k)
<1>1. \A l \in DOMAIN entries : entries[l].priority \in Int /\ l \in Nat
  <2>1. \A l \in DOMAIN entries : entries[l] \in Rule /\ l \in Nat
      OBVIOUS
  <2> QED
      BY <2>1, Zenon DEF Rule
<1> DEFINE P(l) == entries[l].priority
<1>2. P(i) \in Int /\ P(j) \in Int /\ P(k) \in Int /\ i \in Nat /\ j \in Nat /\ k \in Nat
    BY <1>1, Zenon
<1> HIDE DEF P
<1>3. /\ ~(P(i) > P(i) \/ (P(i) = P(i) /\ i < i))
      /\ i # j => P(i) > P(j) \/ (P(i) = P(j) /\ i < j) \/ P(j) > P(i) \/ (P(j) = P(i) /\ j < i)
      /\ (P(i) > P(j) \/ (P(i) = P(j) /\ i < j)) /\ (P(j) > P(k) \/ (P(j) = P(k) /\ j < k))
           => P(i) > P(k) \/ (P(i) = P(k) /\ i < k)
    BY <1>2, SMTT(30)
<1> QED
    BY <1>2, <1>3, Zenon DEF compare_candidate_order, P

\* Of finitely many candidates one comes last.
LEMMA LastOne ==
  ASSUME NEW entries \in Seq(Rule), NEW T, T \subseteq DOMAIN entries, T # {}
  PROVE  \E i \in T : \A j \in T : j # i => compare_candidate_order(entries, j, i)
<1> DEFINE HasLast(U) == \E i \in U : \A j \in U : j # i => compare_candidate_order(entries, j, i)
           Bad == {n \in Nat : \E U \in SUBSET DOMAIN entries :
                                 U \subseteq 1..n /\ U # {} /\ ~HasLast(U)}
<1>1. DOMAIN entries = 1..Len(entries) /\ Len(entries) \in Nat
    OBVIOUS
<1>2. SUFFICES ASSUME ~HasLast(T) PROVE FALSE
    BY Zenon
<1>3. Len(entries) \in Bad
    BY <1>1, <1>2, Zenon
<1> HIDE DEF HasLast
<1>4. PICK n \in Bad : \A m \in Bad : n <= m
  <2>1. Bad \subseteq Nat /\ Bad # {}
      BY <1>3, Zenon
  <2> QED
      BY <2>1, Least, Zenon
<1>5. PICK U \in SUBSET DOMAIN entries : U \subseteq 1..n /\ U # {} /\ ~HasLast(U)
    BY Zenon
<1>6. n # 0 /\ n - 1 \in Nat
    BY <1>5
<1>7. \A V \in SUBSET DOMAIN entries : V \subseteq 1..(n - 1) /\ V # {} => HasLast(V)
    BY <1>4, <1>6
<1>8. n \in U
    BY <1>5, <1>6, <1>7, SMTT(30)
<1>9. CASE U = {n}
    BY <1>5, <1>9, Zenon DEF HasLast
<1>10. CASE U # {n}
  <2>1. U \ {n} \in SUBSET DOMAIN entries /\ U \ {n} # {}
      BY <1>8, <1>10, Zenon
  <2>2. U \ {n} \subseteq 1..(n - 1)
      BY <1>5, <1>6, SMTT(30)
  <2>3. HasLast(U \ {n})
      BY <1>7, <2>1, <2>2, Zenon
  <2>4. PICK i \in U \ {n} : \A j \in U \ {n} : j # i => compare_candidate_order(entries, j, i)
      BY <2>3, Zenon DEF HasLast
  <2>5. i \in DOMAIN entries /\ n \in DOMAIN entries /\ i # n
      BY <1>8, Zenon
  <2>6. CASE compare_candidate_order(entries, n, i)
    <3>1. \A j \in U : j # i => compare_candidate_order(entries, j, i)
        BY <2>4, <2>6, Zenon
    <3> QED
        BY <1>5, <3>1, Zenon DEF HasLast
  <2>7. CASE compare_candidate_order(entries, i, n)
    <3>1. ASSUME NEW j \in U, j # n PROVE compare_candidate_order(entries, j, n)
      <4>1. CASE j = i
          BY <2>7, <4>1, Zenon
      <4>2. CASE j # i
        <5>1. compare_candidate_order(entries, j, i) /\ j \in DOMAIN entries
            BY <2>4, <3>1, <4>2, Zenon
        <5> QED
            BY <2>5, <2>7, <5>1, OrderIsTotal, Zenon
      <4> QED
          BY <4>1, <4>2, ZenonT(40)
    <3> QED
        BY <1>5, <1>8, <3>1, ZenonT(40) DEF HasLast
  <2> QED
      BY <2>5, <2>6, <2>7, OrderIsTotal, ZenonT(40)
<1> QED
    BY <1>9, <1>10, Zenon

\* The candidates in the order of the walk, each before the next.
Increasing(entries, s) ==
  \A j, k \in DOMAIN s : j < k => compare_candidate_order(entries, s[j], s[k])

\* The rules of a rule set are finitely many.
LEMMA FiniteRules ==
  ASSUME NEW entries \in Seq(Rule), NEW T, T \subseteq DOMAIN entries
  PROVE  /\ IsFiniteSet(T) /\ Cardinality(T) \in Nat /\ Cardinality(T) <= Len(entries)
         /\ Cardinality(T) = 0 => T = {}
<1>1. PICK n \in Nat : n = Len(entries) /\ DOMAIN entries = 1..n
    OBVIOUS
<1>2. IsFiniteSet(1..n) /\ Cardinality(1..n) = n
    BY FS_Interval
<1>3. IsFiniteSet(T) /\ Cardinality(T) <= n
  <2>1. PICK I : I = 1..n
      BY Zenon
  <2>2. IsFiniteSet(I) /\ T \in SUBSET I /\ Cardinality(I) = n
      BY <1>1, <1>2, <2>1, Zenon
  <2>3. IsFiniteSet(T) /\ Cardinality(T) <= Cardinality(I)
      BY <2>2, FS_Subset, Zenon
  <2> QED
      BY <2>2, <2>3, Zenon
<1>4. Cardinality(T) \in Nat /\ (Cardinality(T) = 0 => T = {})
    BY <1>3, FS_CardinalityType, FS_EmptySet, Zenon
<1> QED
    BY <1>1, <1>3, <1>4, Zenon

\* Candidates can be sorted: the last one goes behind the others.
LEMMA SortExists ==
  ASSUME NEW entries \in Seq(Rule), NEW T, T \subseteq DOMAIN entries
  PROVE  \E s \in [1..Cardinality(T) -> T] : Increasing(entries, s)
<1> DEFINE HasOrder(U) == \E s \in [1..Cardinality(U) -> U] : Increasing(entries, s)
           Bad == {n \in Nat : \E U \in SUBSET DOMAIN entries : Cardinality(U) = n /\ ~HasOrder(U)}
<1>1. SUFFICES ASSUME ~HasOrder(T) PROVE FALSE
    BY Zenon
<1>2. Cardinality(T) \in Bad
    BY <1>1, FiniteRules, Zenon
<1> HIDE DEF HasOrder
<1>3. PICK n \in Bad : \A m \in Bad : n <= m
  <2>1. Bad \subseteq Nat /\ Bad # {}
      BY <1>2, Zenon
  <2> QED
      BY <2>1, Least, Zenon
<1>4. PICK U \in SUBSET DOMAIN entries : Cardinality(U) = n /\ ~HasOrder(U)
    BY Zenon
<1>5. n \in Nat /\ IsFiniteSet(U)
    BY <1>4, FiniteRules, Zenon
<1>6. CASE U = {}
  <2>1. Cardinality(U) = 0
      BY <1>6, FS_EmptySet, Zenon
  <2>2. <<>> \in [1..0 -> U] /\ Increasing(entries, <<>>)
      BY DEF Increasing
  <2> QED
      BY <1>4, <2>1, <2>2, ZenonT(40) DEF HasOrder
<1>7. CASE U # {}
  <2>1. PICK l \in U : \A j \in U : j # l => compare_candidate_order(entries, j, l)
      BY <1>7, LastOne, Zenon
  <2>2. PICK V : V = U \ {l}
      BY Zenon
  <2>3. Cardinality(V) = n - 1 /\ V \in SUBSET DOMAIN entries
      BY <1>4, <1>5, <2>2, FS_RemoveElement, Zenon
  <2>4. Cardinality(V) \in Nat
      BY <2>3, FiniteRules, Zenon
  <2>5. n - 1 \in Nat /\ n - 1 \notin Bad
      BY <1>3, <1>5, <2>3, <2>4
  <2>6. HasOrder(V)
      BY <2>3, <2>5, Zenon
  <2>7. PICK s \in [1..(n - 1) -> V] : Increasing(entries, s)
      BY <2>3, <2>6, Zenon DEF HasOrder
  <2> DEFINE t == [k \in 1..n |-> IF k = n THEN l ELSE s[k]]
  <2>8. /\ t \in [1..n -> U] /\ t[n] = l
        /\ \A k \in 1..(n - 1) : t[k] = s[k] /\ s[k] \in V
      BY <1>5, <2>2, <2>5
  <2> HIDE DEF t
  <2>9. Increasing(entries, t)
    <3>1. SUFFICES ASSUME NEW j \in 1..n, NEW k \in 1..n, j < k
                   PROVE  compare_candidate_order(entries, t[j], t[k])
        BY <2>8, Zenon DEF Increasing
    <3>2. j \in 1..(n - 1) /\ t[j] = s[j] /\ s[j] \in V
        BY <1>5, <2>8, <3>1
    <3>3. CASE k = n
      <4>1. t[k] = l /\ s[j] \in U /\ s[j] # l
          BY <2>2, <2>8, <3>2, <3>3, Zenon
      <4> QED
          BY <2>1, <3>2, <4>1, Zenon
    <3>4. CASE k # n
      <4>1. k \in 1..(n - 1) /\ t[k] = s[k]
          BY <1>5, <2>8, <3>4
      <4>2. compare_candidate_order(entries, s[j], s[k])
          BY <2>7, <3>1, <3>2, <4>1, Zenon DEF Increasing
      <4> QED
          BY <3>2, <4>1, <4>2, ZenonT(40)
    <3> QED
        BY <3>3, <3>4, Zenon
  <2> QED
      BY <1>4, <2>8, <2>9, Zenon DEF HasOrder
<1> QED
    BY <1>6, <1>7, Zenon

\* A list of the set T, without repetition.
Lists(s, T) ==
  /\ s \in Seq(T) /\ Len(s) = Cardinality(T)
  /\ \A i \in T : \E k \in 1..Len(s) : s[k] = i

\* Sorted lists every candidate once, in the order of compare_candidate_order.
LEMMA SortedFacts ==
  ASSUME NEW entries \in Seq(Rule), NEW T, T \subseteq DOMAIN entries,
         NEW s, s = Sorted(entries, T)
  PROVE  Lists(s, T) /\ Increasing(entries, s)
<1>1. s \in [1..Cardinality(T) -> T] /\ Increasing(entries, s)
  <2>1. \E x \in [1..Cardinality(T) -> T] : Increasing(entries, x)
      BY SortExists, Zenon
  <2> QED
      BY <2>1, Zenon DEF Sorted, Increasing
<1>2. PICK n \in Nat : n = Cardinality(T)
    BY FiniteRules, Zenon
<1>3. s \in Seq(T) /\ Len(s) = n /\ DOMAIN s = 1..n
    BY <1>1, <1>2
<1>4. ASSUME NEW j \in 1..n, NEW k \in 1..n, s[j] = s[k] PROVE j = k
  <2>1. s[j] \in DOMAIN entries
      BY <1>1, <1>2, Zenon
  <2>2. ~(j < k) /\ ~(k < j)
      BY <1>1, <1>3, <1>4, <2>1, OrderIsTotal, Zenon DEF Increasing
  <2> QED
      BY <2>2
<1>5. s \in Injection(1..n, T)
    BY <1>1, <1>2, <1>4, ZenonT(40) DEF Injection, IsInjective
<1>6. Cardinality(1..n) = n
    BY FS_Interval
<1>7. s \in Surjection(1..n, T)
    BY <1>2, <1>5, <1>6, FiniteRules, FS_Injection, ZenonT(40)
<1> QED
    BY <1>1, <1>2, <1>3, <1>7, Zenon DEF Surjection, Lists

-----------------------------------------------------------------------------
(* The loop of resolve_candidates.                                          *)

\* The values the loop's locals can have.
Locals(entries) ==
  [active : Int \cup {None}, matched : DOMAIN entries \cup {None},
   propagated : DOMAIN entries \cup {None}, returned : BOOLEAN]

\* Closing a level: without a winner nothing happens.
LEMMA CloseLevelFacts ==
  ASSUME NEW entries \in Seq(Rule), NEW s \in Locals(entries),
         NEW c, c = CloseLevel(entries, s)
  PROVE  /\ c \in Locals(entries) /\ c.active = s.active
         /\ s.matched = None => c = s
         /\ s.matched # None => /\ c.matched = None /\ c.propagated = s.matched
                                /\ c.returned = ~entries[s.matched].spread
<1>1. CASE s.matched = None
    BY <1>1, Zenon DEF CloseLevel
<1>2. CASE s.matched # None
  <2>1. c = [s EXCEPT !.propagated = s.matched, !.matched = None,
                      !.returned = ~entries[s.matched].spread]
      BY <1>2, Zenon DEF CloseLevel
  <2>2. /\ c.active = s.active /\ c.matched = None /\ c.propagated = s.matched
        /\ c.returned = ~entries[s.matched].spread
      BY <2>1, Zenon DEF Locals
  <2>3. c \in Locals(entries)
      BY <1>2, <2>1, Zenon DEF Locals
  <2> QED
      BY <1>2, <2>2, <2>3, Zenon
<1> QED
    BY <1>1, <1>2, Zenon

\* One turn: a returned loop does nothing, another level closes the one before, and
\* the first candidate that matches takes the level.
LEMMA ResolveStepFacts ==
  ASSUME NEW entries \in Seq(Rule), NEW u, NEW s \in Locals(entries),
         NEW i \in DOMAIN entries, NEW r, r = ResolveStep(entries, u, s, i)
  PROVE  /\ r \in Locals(entries)
         /\ s.returned => r = s
         /\ ~s.returned => \E t \in Locals(entries) :
              /\ t.active = entries[i].priority
              /\ \/ /\ s.active = entries[i].priority
                    /\ t = s
                 \/ /\ s.active # entries[i].priority
                    /\ t.matched = None
                    /\ \/ /\ s.matched = None
                          /\ t.propagated = s.propagated /\ t.returned = s.returned
                       \/ /\ s.matched # None
                          /\ t.propagated = s.matched
                          /\ t.returned = ~entries[s.matched].spread
              /\ \/ /\ ~t.returned /\ t.matched = None
                    /\ explain_with_lookup(entries[i].matcher, u)
                    /\ r.matched = i /\ r.active = t.active
                    /\ r.propagated = t.propagated /\ r.returned = t.returned
                 \/ /\ t.returned \/ t.matched # None
                       \/ ~explain_with_lookup(entries[i].matcher, u)
                    /\ r = t
<1>1. CASE s.returned
    BY <1>1, Zenon DEF ResolveStep
<1>2. CASE ~s.returned
  <2>1. entries[i].priority \in Int
      BY OrderIsTotal, Zenon
  <2>2. PICK c : c = CloseLevel(entries, s)
      BY Zenon
  <2>3. /\ c \in Locals(entries) /\ c.active = s.active
        /\ s.matched = None => c = s
        /\ s.matched # None => /\ c.matched = None /\ c.propagated = s.matched
                               /\ c.returned = ~entries[s.matched].spread
      BY <2>2, CloseLevelFacts
  <2>4. PICK t : t = IF s.active = entries[i].priority THEN s
                     ELSE [c EXCEPT !.active = entries[i].priority]
      BY Zenon
  <2>5. /\ t \in Locals(entries) /\ t.active = entries[i].priority
        /\ \/ s.active = entries[i].priority /\ t = s
           \/ /\ s.active # entries[i].priority
              /\ t.matched = c.matched /\ t.propagated = c.propagated
              /\ t.returned = c.returned
      BY <2>1, <2>3, <2>4, Zenon DEF Locals
  <2>6. r = IF ~t.returned /\ t.matched = None /\ explain_with_lookup(entries[i].matcher, u)
            THEN [t EXCEPT !.matched = i] ELSE t
      BY <1>2, <2>2, <2>4, ZenonT(40) DEF ResolveStep
  <2>7. r \in Locals(entries)
      BY <2>5, <2>6, Zenon DEF Locals
  <2>8. \/ /\ ~t.returned /\ t.matched = None
           /\ explain_with_lookup(entries[i].matcher, u)
           /\ r.matched = i /\ r.active = t.active
           /\ r.propagated = t.propagated /\ r.returned = t.returned
        \/ /\ t.returned \/ t.matched # None
              \/ ~explain_with_lookup(entries[i].matcher, u)
           /\ r = t
      BY <2>5, <2>6, Zenon DEF Locals
  <2>9. \/ s.active = entries[i].priority /\ t = s
        \/ /\ s.active # entries[i].priority
           /\ t.matched = None
           /\ \/ /\ s.matched = None
                 /\ t.propagated = s.propagated /\ t.returned = s.returned
              \/ /\ s.matched # None
                 /\ t.propagated = s.matched
                 /\ t.returned = ~entries[s.matched].spread
      BY <2>3, <2>5, Zenon
  <2> QED
      BY <1>2, <2>5, <2>7, <2>8, <2>9, ZenonT(40)
<1> QED
    BY <1>1, <1>2, Zenon

\* The locals before and after each turn.
LEMMA ResolveRuns ==
  ASSUME NEW entries \in Seq(Rule), NEW u, NEW s \in Seq(DOMAIN entries),
         NEW w, w = resolve_candidates(entries, u, s)
  PROVE  /\ w \in [0..Len(s) -> Locals(entries)]
         /\ w[0] = ResolveStart
         /\ \A k \in 1..Len(s) : w[k] = ResolveStep(entries, u, w[k - 1], s[k])
<1> DEFINE S == Locals(entries)
           n == Len(s)
           turn == [x \in S \X (1..n) |-> ResolveStep(entries, u, x[1], s[x[2]])]
<1>1. n \in Nat /\ \A k \in 1..n : s[k] \in DOMAIN entries
    OBVIOUS
<1>2. ResolveStart \in S
    BY Zenon DEF ResolveStart, Locals
<1>3. \A l \in S : \A k \in 1..n : /\ turn[<<l, k>>] = ResolveStep(entries, u, l, s[k])
                                   /\ turn[<<l, k>>] \in S
  <2>1. SUFFICES ASSUME NEW l \in S, NEW k \in 1..n
                 PROVE  /\ turn[<<l, k>>] = ResolveStep(entries, u, l, s[k])
                        /\ turn[<<l, k>>] \in S
      BY Zenon
  <2>2. turn[<<l, k>>] = ResolveStep(entries, u, l, s[k])
      BY Zenon
  <2>3. s[k] \in DOMAIN entries
      BY <1>1, Zenon
  <2>4. PICK i, r : i = s[k] /\ r = ResolveStep(entries, u, l, i)
      BY Zenon
  <2>5. r \in S
    <3>1. l \in Locals(entries) /\ i \in DOMAIN entries
        BY <2>3, <2>4, ZenonT(40)
    <3>2. r \in Locals(entries)
        BY <2>4, <3>1, ResolveStepFacts
    <3> QED
        BY <3>2, Zenon
  <2> QED
      BY <2>2, <2>4, <2>5, Zenon
<1> HIDE DEF S, n, turn
<1>4. PICK v \in [0..n -> S] : RunOf(v, ResolveStart, turn, n)
  <2>1. TurnsIn(S, turn, n)
      BY <1>3, Zenon DEF TurnsIn
  <2> QED
      BY <1>1, <1>2, <2>1, LoopRuns, Zenon
<1>5. \A k \in 1..n : v[k] = ResolveStep(entries, u, v[k - 1], s[k])
  <2>1. SUFFICES ASSUME NEW k \in 1..n PROVE v[k] = ResolveStep(entries, u, v[k - 1], s[k])
      BY Zenon
  <2>2. k - 1 \in 0..n
      BY <1>1
  <2>3. v[k - 1] \in S
      BY <2>2, Zenon
  <2> QED
      BY <1>3, <1>4, <2>3, Zenon DEF RunOf
<1>6. v = [k \in 0..n |-> IF k = 0 THEN ResolveStart ELSE ResolveStep(entries, u, v[k - 1], s[k])]
  <2>1. \A k \in 0..n : k = 0 \/ k \in 1..n
      BY <1>1
  <2>2. \A k \in 0..n : v[k] = IF k = 0 THEN ResolveStart
                               ELSE ResolveStep(entries, u, v[k - 1], s[k])
      BY <1>4, <1>5, <2>1, Zenon DEF RunOf
  <2> QED
      BY <2>2, Zenon
<1>7. w = [k \in 0..n |-> IF k = 0 THEN ResolveStart ELSE ResolveStep(entries, u, w[k - 1], s[k])]
    BY <1>6, Zenon DEF resolve_candidates, n
<1>8. \A k \in 0..n : v[k] = w[k]
  <2>1. 0 \in 0..n /\ \A k \in 1..n : k \in 0..n /\ k # 0
      BY <1>1
  <2>2. v[0] = w[0]
      BY <1>4, <1>7, <2>1, Zenon DEF RunOf
  <2>3. \A k \in 1..n : v[k - 1] = w[k - 1] => v[k] = w[k]
      BY <1>5, <1>7, <2>1, ZenonT(60)
  <2>4. SameTurns(v, w, n)
      BY <2>2, <2>3, Zenon DEF SameTurns
  <2> QED
      BY <1>1, <2>4, LoopsAgree, ZenonT(60)
<1>9. w = v
    BY <1>7, <1>8, ZenonT(40)
<1> QED
    BY <1>4, <1>5, <1>9, Zenon DEF RunOf, S, n

-----------------------------------------------------------------------------
(* The candidates by their positions.                                       *)

\* Whether the candidate at position j matches, its priority, and its `spread'.
Hit(entries, u, s, j) == explain_with_lookup(entries[s[j]].matcher, u)
Level(entries, s, j) == entries[s[j]].priority
Spreads(entries, s, j) == entries[s[j]].spread

\* The first candidate of its level that matches.
Win(entries, u, s, j) ==
  /\ Hit(entries, u, s, j)
  /\ \A l \in 1..(j - 1) : Level(entries, s, l) = Level(entries, s, j) => ~Hit(entries, u, s, l)

\* s lists candidates in the order of the walk, and no rule that matches is missing.
LinedUp(entries, u, s) ==
  /\ entries \in Seq(Rule) /\ s \in Seq(DOMAIN entries)
  /\ Increasing(entries, s)
  /\ \A i \in Matching(entries, u) : \E k \in 1..Len(s) : s[k] = i

\* The levels descend along the candidates, and the indices of a level ascend.
LEMMA Descending ==
  ASSUME NEW entries, NEW u, NEW s, LinedUp(entries, u, s),
         NEW j \in 1..Len(s), NEW k \in 1..Len(s), j < k
  PROVE  /\ Level(entries, s, j) \in Int /\ Level(entries, s, k) \in Int
         /\ Level(entries, s, j) >= Level(entries, s, k)
         /\ s[j] \in Nat /\ s[k] \in Nat
         /\ Level(entries, s, j) = Level(entries, s, k) => s[j] < s[k]
<1>1. /\ entries \in Seq(Rule) /\ s \in Seq(DOMAIN entries) /\ DOMAIN s = 1..Len(s)
      /\ s[j] \in DOMAIN entries /\ s[k] \in DOMAIN entries
    BY DEF LinedUp
<1>2. compare_candidate_order(entries, s[j], s[k])
    BY <1>1, Zenon DEF LinedUp, Increasing
<1>3. /\ entries[s[j]].priority \in Int /\ entries[s[k]].priority \in Int
      /\ s[j] \in Nat /\ s[k] \in Nat
    BY <1>1, OrderIsTotal, Zenon
<1> QED
    BY <1>2, <1>3, SMTT(30) DEF compare_candidate_order, Level

\* The winners of the reference are the candidates that win at their position.
LEMMA WinnersWin ==
  ASSUME NEW entries, NEW u, NEW s, LinedUp(entries, u, s)
  PROVE  /\ \A j \in 1..Len(s) : s[j] \in Winners(entries, u) <=> Win(entries, u, s, j)
         /\ \A i \in Winners(entries, u) : \E j \in 1..Len(s) : s[j] = i
<1>1. Len(s) \in Nat /\ \A j \in 1..Len(s) : s[j] \in DOMAIN entries
    BY DEF LinedUp
<1>2. ASSUME NEW j \in 1..Len(s), s[j] \in Winners(entries, u) PROVE Win(entries, u, s, j)
  <2>1. Hit(entries, u, s, j)
      BY <1>2, Zenon DEF Winners, Matching, Hit
  <2>2. ASSUME NEW l \in 1..(j - 1), Level(entries, s, l) = Level(entries, s, j),
               Hit(entries, u, s, l)
        PROVE  FALSE
    <3>1. l \in 1..Len(s) /\ l < j
        BY <1>1
    <3>2. s[l] \in Matching(entries, u)
        BY <1>1, <2>2, <3>1, Zenon DEF Matching, Hit
    <3>3. s[j] <= s[l]
        BY <1>2, <2>2, <3>2, Zenon DEF Winners, Level
    <3>4. s[l] < s[j] /\ s[l] \in Nat /\ s[j] \in Nat
        BY <2>2, <3>1, Descending, Zenon
    <3> QED
        BY <3>3, <3>4
  <2> QED
      BY <2>1, <2>2, Zenon DEF Win
<1>3. ASSUME NEW j \in 1..Len(s), Win(entries, u, s, j) PROVE s[j] \in Winners(entries, u)
  <2>1. s[j] \in Matching(entries, u)
      BY <1>1, <1>3, Zenon DEF Win, Hit, Matching
  <2>2. ASSUME NEW i \in Matching(entries, u), entries[i].priority = entries[s[j]].priority
        PROVE  s[j] <= i
    <3>1. PICK l \in 1..Len(s) : s[l] = i
        BY Zenon DEF LinedUp
    <3>2. Hit(entries, u, s, l) /\ Level(entries, s, l) = Level(entries, s, j)
        BY <2>2, <3>1, Zenon DEF Matching, Hit, Level
    <3>3. ~(l < j)
      <4>1. l < j => l \in 1..(j - 1)
          BY <1>1
      <4> QED
          BY <1>3, <3>2, <4>1, Zenon DEF Win
    <3>4. CASE l = j
      <4>1. s[j] \in Nat
          BY <1>1, SMTT(30) DEF LinedUp
      <4> QED
          BY <3>1, <3>4, <4>1
    <3>5. CASE j < l
      <4>1. s[j] < s[l] /\ s[j] \in Nat /\ s[l] \in Nat
          BY <3>2, <3>5, Descending, Zenon
      <4> QED
          BY <3>1, <4>1
    <3> QED
        BY <3>3, <3>4, <3>5
  <2> QED
      BY <2>1, <2>2, Zenon DEF Winners
<1>4. \A i \in Winners(entries, u) : \E j \in 1..Len(s) : s[j] = i
    BY Zenon DEF LinedUp, Winners
<1> QED
    BY <1>2, <1>3, <1>4, Zenon

\* The level of a winner is strictly above those of the winners that follow.
LEMMA WinnersDescend ==
  ASSUME NEW entries, NEW u, NEW s, LinedUp(entries, u, s),
         NEW j \in 1..Len(s), NEW k \in 1..Len(s), j < k,
         Hit(entries, u, s, j), Win(entries, u, s, k)
  PROVE  Level(entries, s, j) > Level(entries, s, k)
<1>1. /\ Level(entries, s, j) \in Int /\ Level(entries, s, k) \in Int
      /\ Level(entries, s, j) >= Level(entries, s, k)
    BY Descending, Zenon
<1>2. j \in 1..(k - 1)
    OBVIOUS
<1>3. Level(entries, s, j) # Level(entries, s, k)
    BY <1>2, Zenon DEF Win
<1> QED
    BY <1>1, <1>3

\* The position of the answer: every winner before it spreads, and it does not, or
\* none follows.
AnswerAt(entries, u, s, j) ==
  /\ Win(entries, u, s, j)
  /\ \A l \in 1..(j - 1) : Win(entries, u, s, l) => Spreads(entries, s, l)
  /\ \/ ~Spreads(entries, s, j)
     \/ \A l \in 1..Len(s) : l > j => ~Win(entries, u, s, l)

\* There the reference order finds it.
LEMMA ReferenceAt ==
  ASSUME NEW entries, NEW u, NEW s, LinedUp(entries, u, s),
         NEW j \in 1..Len(s), AnswerAt(entries, u, s, j)
  PROVE  Reference(entries, u) = s[j]
<1> DEFINE W == Winners(entries, u)
           Above(i) == {w \in W : entries[w].priority > entries[i].priority}
           Below(i) == {w \in W : entries[w].priority < entries[i].priority}
           last == {i \in W : /\ \A w \in Above(i) : entries[w].spread
                              /\ ~entries[i].spread \/ Below(i) = {}}
<1>1. Reference(entries, u) = IF W = {} THEN None ELSE CHOOSE i \in last : TRUE
    BY Zenon DEF Reference
<1>2. /\ \A k \in 1..Len(s) : s[k] \in W <=> Win(entries, u, s, k)
      /\ \A i \in W : \E k \in 1..Len(s) : s[k] = i
    BY WinnersWin
<1>3. Win(entries, u, s, j) /\ s[j] \in W /\ Len(s) \in Nat
    BY <1>2 DEF AnswerAt, LinedUp
<1>4. ASSUME NEW k \in 1..Len(s), Win(entries, u, s, k)
      PROVE  /\ k < j => s[k] \in Above(s[j]) /\ s[j] \in Below(s[k])
             /\ j < k => s[k] \in Below(s[j]) /\ s[j] \in Above(s[k])
             /\ k < j => entries[s[k]].spread
             /\ j < k => ~entries[s[j]].spread
  <2>1. k < j => entries[s[k]].priority > entries[s[j]].priority
      BY <1>3, <1>4, WinnersDescend, Zenon DEF Level, Win
  <2>2. j < k => entries[s[j]].priority > entries[s[k]].priority
      BY <1>3, <1>4, WinnersDescend, Zenon DEF Level, Win
  <2>3. /\ k < j => entries[s[j]].priority < entries[s[k]].priority
        /\ j < k => entries[s[k]].priority < entries[s[j]].priority
    <3>1. /\ k < j => Level(entries, s, j) \in Int /\ Level(entries, s, k) \in Int
          /\ j < k => Level(entries, s, j) \in Int /\ Level(entries, s, k) \in Int
        BY Descending, Zenon
    <3>2. PICK a, b : a = entries[s[j]].priority /\ b = entries[s[k]].priority
        BY Zenon
    <3>3. /\ k < j => a \in Int /\ b \in Int
          /\ j < k => a \in Int /\ b \in Int
        BY <3>1, <3>2, Zenon DEF Level
    <3>4. (k < j => b > a) /\ (j < k => a > b)
        BY <2>1, <2>2, <3>2, Zenon
    <3>5. (k < j => a < b) /\ (j < k => b < a)
        BY <3>3, <3>4, Zenon
    <3> QED
        BY <3>2, <3>5, Zenon
  <2>4. s[k] \in W
      BY <1>2, <1>4, Zenon
  <2>5. k < j => k \in 1..(j - 1)
      BY <1>3
  <2>6. k < j => entries[s[k]].spread
      BY <1>4, <2>5, Zenon DEF AnswerAt, Spreads
  <2>7. j < k => k > j
      BY Zenon
  <2>8. j < k => ~entries[s[j]].spread
      BY <1>4, <2>7, Zenon DEF AnswerAt, Spreads
  <2> QED
      BY <1>3, <2>1, <2>2, <2>3, <2>4, <2>6, <2>8, Zenon
<1>5. \A k \in 1..Len(s) : k < j \/ k = j \/ j < k
    BY <1>3
<1>6. ASSUME NEW k \in 1..Len(s), Win(entries, u, s, k)
      PROVE  /\ entries[s[k]].priority > entries[s[j]].priority => k < j
             /\ entries[s[k]].priority < entries[s[j]].priority => j < k
  <2>1. PICK a, b : a = entries[s[j]].priority /\ b = entries[s[k]].priority
      BY Zenon
  <2>2. \A c \in DOMAIN entries : entries[c].priority \in Int
      BY OrderIsTotal, Zenon DEF LinedUp
  <2>3. s[j] \in DOMAIN entries /\ s[k] \in DOMAIN entries
      BY DEF LinedUp
  <2>4. a \in Int /\ b \in Int
      BY <2>1, <2>2, <2>3, Zenon
  <2>5. (k < j => b > a) /\ (j < k => b < a)
      BY <1>4, <1>6, <2>1, Zenon
  <2>6. k = j => a = b
      BY <2>1, Zenon
  <2>7. (b > a => k < j) /\ (b < a => j < k)
      BY <1>3, <2>4, <2>5, <2>6
  <2> QED
      BY <2>1, <2>7, Zenon
<1>7. s[j] \in last
  <2>1. ASSUME NEW w \in Above(s[j]) PROVE entries[w].spread
    <3>1. PICK k \in 1..Len(s) : s[k] = w
        BY <1>2, Zenon
    <3>2. Win(entries, u, s, k) /\ entries[s[k]].priority > entries[s[j]].priority
        BY <1>2, <3>1, Zenon
    <3> QED
        BY <1>4, <1>6, <3>1, <3>2, Zenon
  <2>2. ASSUME entries[s[j]].spread, NEW w \in Below(s[j]) PROVE FALSE
    <3>1. PICK k \in 1..Len(s) : s[k] = w
        BY <1>2, Zenon
    <3>2. Win(entries, u, s, k) /\ entries[s[k]].priority < entries[s[j]].priority
        BY <1>2, <3>1, Zenon
    <3> QED
        BY <1>4, <1>6, <2>2, <3>1, <3>2, Zenon
  <2> QED
      BY <1>3, <2>1, <2>2, Zenon
<1>8. ASSUME NEW i \in last PROVE i = s[j]
  <2>1. i \in W
      BY Zenon
  <2>2. PICK k \in 1..Len(s) : s[k] = i
      BY <1>2, <2>1, Zenon
  <2>3. Win(entries, u, s, k)
      BY <1>2, <2>1, <2>2, Zenon
  <2>4. ~(k < j)
    <3>1. ASSUME k < j PROVE FALSE
      <4>1. entries[i].spread /\ s[j] \in Below(i)
          BY <1>4, <2>2, <2>3, <3>1, Zenon
      <4> QED
          BY <1>8, <4>1, Zenon
    <3> QED
        BY <3>1, Zenon
  <2>5. ~(j < k)
    <3>1. ASSUME j < k PROVE FALSE
      <4>1. ~entries[s[j]].spread /\ s[j] \in Above(i)
          BY <1>4, <2>2, <2>3, <3>1, Zenon
      <4> QED
          BY <1>8, <4>1, Zenon
    <3> QED
        BY <3>1, Zenon
  <2> QED
      BY <1>5, <2>2, <2>4, <2>5, Zenon
<1>9. (CHOOSE i \in last : TRUE) = s[j]
  <2> HIDE DEF last
  <2> QED
      BY <1>7, <1>8, Zenon
<1>10. W # {}
    BY <1>3, Zenon
<1> QED
    BY <1>1, <1>9, <1>10, Zenon

\* With no winner there is no answer.
LEMMA ReferenceNone ==
  ASSUME NEW entries, NEW u, NEW s, LinedUp(entries, u, s),
         \A j \in 1..Len(s) : ~Win(entries, u, s, j)
  PROVE  Reference(entries, u) = None
<1>1. Winners(entries, u) = {}
    BY WinnersWin
<1> QED
    BY <1>1, Zenon DEF Reference

-----------------------------------------------------------------------------
(* A level of the candidates, up to position k: it starts after position m.  *)

\* Positions m + 1 to k are one level, and no earlier position is of it.
SameLevel(entries, s, m, k) ==
  /\ \A i \in (m + 1)..k : Level(entries, s, i) = Level(entries, s, k)
  /\ \A i \in 1..m : Level(entries, s, i) # Level(entries, s, k)

\* What a walk of the level has found: w is its winner, or it has none so far.
WinsLevel(entries, u, s, m, k, w) ==
  \/ /\ w = None
     /\ \A i \in (m + 1)..k : ~Hit(entries, u, s, i)
  \/ \E j \in (m + 1)..k : w = s[j] /\ Win(entries, u, s, j)

\* What a candidate makes of the winner of its level.
TakesLevel(entries, u, s, k, w) ==
  IF w = None /\ Hit(entries, u, s, k) THEN s[k] ELSE w

\* A candidate's index is not None.
LEMMA CandidateIsSome ==
  ASSUME NEW entries, NEW u, NEW s, LinedUp(entries, u, s), NEW j \in 1..Len(s)
  PROVE  s[j] # None /\ s[j] \in DOMAIN entries /\ Level(entries, s, j) \in Int
<1>1. s[j] \in DOMAIN entries /\ entries \in Seq(Rule)
    BY DEF LinedUp
<1>2. s[j] \in Int
    BY <1>1
<1>3. entries[s[j]].priority \in Int
    BY <1>1, OrderIsTotal, Zenon
<1> QED
    BY <1>1, <1>2, <1>3, RuleIndexAssumption, Zenon DEF Level

\* A further candidate of the same level.
LEMMA StayLevel ==
  ASSUME NEW entries, NEW u, NEW s, LinedUp(entries, u, s),
         NEW k \in 1..Len(s), NEW m \in 0..(k - 1), NEW w,
         m < k - 1, Level(entries, s, k) = Level(entries, s, k - 1),
         SameLevel(entries, s, m, k - 1), WinsLevel(entries, u, s, m, k - 1, w)
  PROVE  /\ SameLevel(entries, s, m, k)
         /\ WinsLevel(entries, u, s, m, k, TakesLevel(entries, u, s, k, w))
         /\ w # None => ~Win(entries, u, s, k)
         /\ w = None /\ Hit(entries, u, s, k) => Win(entries, u, s, k)
<1>1. /\ k \in Nat /\ m \in Nat /\ k \in (m + 1)..k
      /\ \A i \in (m + 1)..k : i \in (m + 1)..(k - 1) \/ i = k
      /\ \A i \in (m + 1)..(k - 1) : i \in (m + 1)..k /\ i \in 1..(k - 1)
      /\ \A i \in 1..(k - 1) : i \in 1..m \/ i \in (m + 1)..(k - 1)
    BY DEF LinedUp
<1>2. SameLevel(entries, s, m, k)
    BY <1>1, Zenon DEF SameLevel
<1>3. CASE w = None /\ Hit(entries, u, s, k)
  <2>1. \A i \in (m + 1)..(k - 1) : ~Hit(entries, u, s, i)
    <3>1. \A i \in (m + 1)..(k - 1) : i \in 1..Len(s)
        BY <1>1 DEF LinedUp
    <3> QED
        BY <1>3, <3>1, CandidateIsSome, Zenon DEF WinsLevel
  <2>2. Win(entries, u, s, k)
      BY <1>1, <1>2, <1>3, <2>1, Zenon DEF Win, SameLevel
  <2> QED
      BY <1>1, <1>2, <1>3, <2>2, Zenon DEF WinsLevel, TakesLevel
<1>4. CASE w = None /\ ~Hit(entries, u, s, k)
  <2>1. \A i \in (m + 1)..(k - 1) : ~Hit(entries, u, s, i)
    <3>1. \A i \in (m + 1)..(k - 1) : i \in 1..Len(s)
        BY <1>1 DEF LinedUp
    <3> QED
        BY <1>4, <3>1, CandidateIsSome, Zenon DEF WinsLevel
  <2> QED
      BY <1>1, <1>2, <1>4, <2>1, Zenon DEF WinsLevel, TakesLevel
<1>5. CASE w # None
  <2>1. PICK j \in (m + 1)..(k - 1) : w = s[j] /\ Win(entries, u, s, j)
      BY <1>5, Zenon DEF WinsLevel
  <2>2. j \in (m + 1)..k /\ j \in 1..(k - 1)
      BY <1>1, Zenon
  <2>3. Level(entries, s, j) = Level(entries, s, k) /\ Hit(entries, u, s, j)
      BY <1>2, <2>1, <2>2, Zenon DEF SameLevel, Win
  <2>4. ~Win(entries, u, s, k)
      BY <2>2, <2>3, Zenon DEF Win
  <2> QED
      BY <1>2, <1>5, <2>1, <2>2, <2>4, Zenon DEF WinsLevel, TakesLevel
<1> QED
    BY <1>3, <1>4, <1>5, Zenon

\* The first candidate of the next level.
LEMMA NextLevel ==
  ASSUME NEW entries, NEW u, NEW s, LinedUp(entries, u, s), NEW k \in 1..Len(s),
         k = 1 \/ Level(entries, s, k - 1) # Level(entries, s, k)
  PROVE  /\ \A i \in 1..(k - 1) : Level(entries, s, i) > Level(entries, s, k)
         /\ SameLevel(entries, s, k - 1, k)
         /\ WinsLevel(entries, u, s, k - 1, k, TakesLevel(entries, u, s, k, None))
         /\ Win(entries, u, s, k) <=> Hit(entries, u, s, k)
<1>1. k \in Nat /\ Len(s) \in Nat /\ k \in ((k - 1) + 1)..k /\ \A i \in ((k - 1) + 1)..k : i = k
    BY DEF LinedUp
<1>2. ASSUME NEW i \in 1..(k - 1) PROVE Level(entries, s, i) > Level(entries, s, k)
  <2>1. /\ k - 1 \in 1..Len(s) /\ k - 1 < k /\ i \in 1..Len(s)
        /\ i = k - 1 \/ i < k - 1
      BY <1>1
  <2>2. /\ Level(entries, s, k - 1) \in Int /\ Level(entries, s, k) \in Int
        /\ Level(entries, s, k - 1) >= Level(entries, s, k)
      BY <2>1, Descending, Zenon
  <2>3. Level(entries, s, k - 1) > Level(entries, s, k)
      BY <1>1, <2>1, <2>2
  <2>4. CASE i = k - 1
      BY <2>3, <2>4, Zenon
  <2>5. CASE i < k - 1
    <3>1. Level(entries, s, i) \in Int /\ Level(entries, s, i) >= Level(entries, s, k - 1)
        BY <2>1, <2>5, Descending, Zenon
    <3> QED
        BY <2>2, <2>3, <3>1
  <2> QED
      BY <2>1, <2>4, <2>5, Zenon
<1>3. \A i \in 1..(k - 1) : Level(entries, s, i) # Level(entries, s, k)
  <2>1. SUFFICES ASSUME NEW i \in 1..(k - 1) PROVE Level(entries, s, i) # Level(entries, s, k)
      BY Zenon
  <2>2. i \in 1..Len(s)
      BY <1>1
  <2>3. Level(entries, s, i) \in Int /\ Level(entries, s, k) \in Int
      BY <2>2, CandidateIsSome, Zenon
  <2>4. Level(entries, s, i) > Level(entries, s, k)
      BY <1>2, Zenon
  <2> QED
      BY <2>3, <2>4
<1>4. SameLevel(entries, s, k - 1, k)
    BY <1>1, <1>3, Zenon DEF SameLevel
<1>5. Win(entries, u, s, k) <=> Hit(entries, u, s, k)
    BY <1>3, Zenon DEF Win
<1>6. WinsLevel(entries, u, s, k - 1, k, TakesLevel(entries, u, s, k, None))
    BY <1>1, <1>5, Zenon DEF WinsLevel, TakesLevel
<1> QED
    BY <1>2, <1>4, <1>5, <1>6, ZenonT(40)

-----------------------------------------------------------------------------
(* The walk of resolve_candidates.                                          *)

\* The winners up to m all spread, and p is the last of them.
Passed(entries, u, s, m, p) ==
  /\ \A i \in 1..m : Win(entries, u, s, i) => Spreads(entries, s, i)
  /\ \/ p = None /\ \A i \in 1..m : ~Win(entries, u, s, i)
     \/ \E j \in 1..m : /\ p = s[j] /\ Win(entries, u, s, j)
                        /\ \A i \in 1..m : i > j => ~Win(entries, u, s, i)

\* p is the first winner that does not spread.
Stopped(entries, u, s, m, p) ==
  \E j \in 1..m : /\ p = s[j] /\ Win(entries, u, s, j) /\ ~Spreads(entries, s, j)
                  /\ \A i \in 1..(j - 1) : Win(entries, u, s, i) => Spreads(entries, s, i)

\* The locals after k turns.
ResolveInv(entries, u, s, k, l) ==
  IF l.returned THEN l.matched = None /\ Stopped(entries, u, s, k, l.propagated)
  ELSE IF k = 0 THEN l = ResolveStart
  ELSE /\ l.active = Level(entries, s, k)
       /\ \E m \in 0..(k - 1) :
            /\ SameLevel(entries, s, m, k)
            /\ WinsLevel(entries, u, s, m, k, l.matched)
            /\ Passed(entries, u, s, m, l.propagated)

\* A level that closes without a winner leaves the last winner as it was.
LEMMA CloseEmpty ==
  ASSUME NEW entries, NEW u, NEW s, LinedUp(entries, u, s),
         NEW k \in 0..Len(s), NEW m \in 0..k, NEW p,
         WinsLevel(entries, u, s, m, k, None), Passed(entries, u, s, m, p)
  PROVE  Passed(entries, u, s, k, p)
<1>1. /\ \A i \in 1..k : i \in 1..m \/ i \in (m + 1)..k
      /\ \A i \in 1..m : i \in 1..k
      /\ \A i \in (m + 1)..k : i \in 1..Len(s)
    BY DEF LinedUp
<1>2. \A i \in (m + 1)..k : ~Hit(entries, u, s, i)
    BY <1>1, CandidateIsSome, Zenon DEF WinsLevel
<1>3. \A i \in (m + 1)..k : ~Win(entries, u, s, i)
    BY <1>2, Zenon DEF Win
<1> QED
    BY <1>1, <1>3, Zenon DEF Passed

\* One that closes with a winner stops there, or passes on.
LEMMA CloseWon ==
  ASSUME NEW entries, NEW u, NEW s, LinedUp(entries, u, s),
         NEW k \in 0..Len(s), NEW m \in 0..k, NEW p, NEW w, w # None,
         SameLevel(entries, s, m, k),
         WinsLevel(entries, u, s, m, k, w), Passed(entries, u, s, m, p)
  PROVE  /\ w \in DOMAIN entries
         /\ ~entries[w].spread => Stopped(entries, u, s, k, w)
         /\ entries[w].spread => Passed(entries, u, s, k, w)
<1>1. PICK j \in (m + 1)..k : w = s[j] /\ Win(entries, u, s, j)
    BY Zenon DEF WinsLevel
<1>2. /\ Len(s) \in Nat /\ j \in 1..k /\ j \in 1..Len(s) /\ j \in Nat /\ m < j
      /\ \A i \in 1..k : i \in 1..m \/ i \in (m + 1)..k
      /\ \A i \in 1..(j - 1) : i \in 1..m \/ (i \in (m + 1)..k /\ i < j)
      /\ \A i \in (m + 1)..k : i \in 1..Len(s)
      /\ \A i \in (m + 1)..k : i = j \/ i < j \/ j < i
      /\ \A i \in 1..m : i < j
      /\ \A i \in 1..m : ~(i > j)
      /\ \A i \in 1..k : i > j => i # j
    BY DEF LinedUp
<1>3. ASSUME NEW i \in (m + 1)..k, Win(entries, u, s, i), i # j PROVE FALSE
  <2>1. Level(entries, s, i) = Level(entries, s, j)
      BY Zenon DEF SameLevel
  <2>2. Level(entries, s, i) \in Int /\ Level(entries, s, j) \in Int
      BY <1>2, CandidateIsSome, Zenon
  <2>3. \/ Level(entries, s, i) > Level(entries, s, j)
        \/ Level(entries, s, j) > Level(entries, s, i)
      BY <1>1, <1>2, <1>3, WinnersDescend, ZenonT(40) DEF Win
  <2> QED
      BY <2>1, <2>2, <2>3
<1>4. w \in DOMAIN entries
    BY <1>1, <1>2, CandidateIsSome, Zenon
<1>5. entries[w].spread <=> Spreads(entries, s, j)
    BY <1>1, Zenon DEF Spreads
<1>6. ASSUME ~entries[w].spread PROVE Stopped(entries, u, s, k, w)
  <2>1. \A i \in 1..(j - 1) : i # j
      BY <1>2, Zenon
  <2>2. \A i \in 1..(j - 1) : Win(entries, u, s, i) => Spreads(entries, s, i)
      BY <1>2, <1>3, <2>1, ZenonT(40) DEF Passed
  <2> QED
      BY <1>1, <1>2, <1>5, <1>6, <2>2, ZenonT(40) DEF Stopped
<1>7. ASSUME entries[w].spread PROVE Passed(entries, u, s, k, w)
  <2>1. \A i \in 1..k : Win(entries, u, s, i) => Spreads(entries, s, i)
      BY <1>2, <1>3, <1>5, <1>7, Zenon DEF Passed
  <2>2. \A i \in 1..k : i > j => ~Win(entries, u, s, i)
      BY <1>2, <1>3, Zenon
  <2> QED
      BY <1>1, <1>2, <2>1, <2>2, ZenonT(40) DEF Passed
<1> QED
    BY <1>4, <1>6, <1>7, Zenon

\* What is left when the level that is open closes.
LEMMA Closing ==
  ASSUME NEW entries, NEW u, NEW s, LinedUp(entries, u, s),
         NEW k \in 0..Len(s), NEW l \in Locals(entries), ResolveInv(entries, u, s, k, l),
         ~l.returned
  PROVE  /\ l.matched = None => Passed(entries, u, s, k, l.propagated)
         /\ l.matched # None =>
              /\ l.matched \in DOMAIN entries
              /\ ~entries[l.matched].spread => Stopped(entries, u, s, k, l.matched)
              /\ entries[l.matched].spread => Passed(entries, u, s, k, l.matched)
<1>1. CASE k = 0
  <2>1. l = ResolveStart
      BY <1>1, Zenon DEF ResolveInv
  <2>2. l.matched = None /\ l.propagated = None
      BY <2>1, Zenon DEF ResolveStart
  <2>3. \A i \in 1..k : FALSE
      BY <1>1
  <2> QED
      BY <2>2, <2>3, Zenon DEF Passed
<1>2. CASE k # 0
  <2>1. PICK m \in 0..(k - 1) : /\ SameLevel(entries, s, m, k)
                                /\ WinsLevel(entries, u, s, m, k, l.matched)
                                /\ Passed(entries, u, s, m, l.propagated)
      BY <1>2, Zenon DEF ResolveInv
  <2>2. m \in 0..k
      OBVIOUS
  <2>3. CASE l.matched = None
      BY <2>1, <2>2, <2>3, CloseEmpty, Zenon
  <2>4. CASE l.matched # None
      BY <2>1, <2>2, <2>4, CloseWon, Zenon
  <2> QED
      BY <2>3, <2>4, Zenon
<1> QED
    BY <1>1, <1>2, Zenon

\* What a longer walk keeps.
LEMMA StaysStopped ==
  ASSUME NEW entries, NEW u, NEW s, NEW k \in Nat, NEW m \in 0..k, NEW p,
         Stopped(entries, u, s, m, p)
  PROVE  Stopped(entries, u, s, k, p)
<1>1. \A i \in 1..m : i \in 1..k
    OBVIOUS
<1> QED
    BY <1>1, Zenon DEF Stopped

\* A turn within a level.
LEMMA TurnStays ==
  ASSUME NEW entries, NEW u, NEW s, LinedUp(entries, u, s), NEW k \in 1..Len(s),
         NEW l \in Locals(entries), NEW r \in Locals(entries),
         ResolveInv(entries, u, s, k - 1, l), ~l.returned, ~r.returned,
         l.active = Level(entries, s, k),
         r.active = l.active, r.propagated = l.propagated,
         r.matched = TakesLevel(entries, u, s, k, l.matched)
  PROVE  ResolveInv(entries, u, s, k, r)
<1>1. k \in Nat /\ k # 0 /\ Level(entries, s, k) # None
  <2>1. Level(entries, s, k) \in Int
      BY CandidateIsSome, Zenon
  <2> QED
      BY <2>1, RuleIndexAssumption
<1>2. k - 1 # 0
  <2>1. k - 1 = 0 => l.active = None
    <3>1. k - 1 = 0 => l = ResolveStart
        BY Zenon DEF ResolveInv
    <3>2. ResolveStart.active = None
        BY Zenon DEF ResolveStart
    <3> QED
        BY <3>1, <3>2, Zenon
  <2> QED
      BY <1>1, <2>1, Zenon
<1>3. Level(entries, s, k) = Level(entries, s, k - 1)
    BY <1>2, Zenon DEF ResolveInv
<1>4. PICK m \in 0..((k - 1) - 1) : /\ SameLevel(entries, s, m, k - 1)
                                    /\ WinsLevel(entries, u, s, m, k - 1, l.matched)
                                    /\ Passed(entries, u, s, m, l.propagated)
    BY <1>2, Zenon DEF ResolveInv
<1>5. m \in 0..(k - 1) /\ m < k - 1
    BY <1>1, <1>2
<1>6. /\ SameLevel(entries, s, m, k)
      /\ WinsLevel(entries, u, s, m, k, r.matched)
    BY <1>3, <1>4, <1>5, StayLevel, Zenon
<1> QED
    BY <1>1, <1>4, <1>5, <1>6, ZenonT(40) DEF ResolveInv

\* A turn that opens a level.
LEMMA TurnOpens ==
  ASSUME NEW entries, NEW u, NEW s, LinedUp(entries, u, s), NEW k \in 1..Len(s),
         NEW r \in Locals(entries), ~r.returned,
         k = 1 \/ Level(entries, s, k - 1) # Level(entries, s, k),
         r.active = Level(entries, s, k), Passed(entries, u, s, k - 1, r.propagated),
         r.matched = TakesLevel(entries, u, s, k, None)
  PROVE  ResolveInv(entries, u, s, k, r)
<1>1. k # 0 /\ k - 1 \in 0..(k - 1)
    OBVIOUS
<1>2. SameLevel(entries, s, k - 1, k) /\ WinsLevel(entries, u, s, k - 1, k, r.matched)
    BY NextLevel, Zenon
<1> QED
    BY <1>1, <1>2, Zenon DEF ResolveInv

\* Every turn keeps the invariant of the walk.
LEMMA ResolveTurn ==
  ASSUME NEW entries, NEW u, NEW s, LinedUp(entries, u, s), NEW k \in 1..Len(s),
         NEW l \in Locals(entries), NEW r, r = ResolveStep(entries, u, l, s[k]),
         ResolveInv(entries, u, s, k - 1, l)
  PROVE  ResolveInv(entries, u, s, k, r)
<1>1. /\ entries \in Seq(Rule) /\ s[k] \in DOMAIN entries
      /\ k \in Nat /\ k - 1 \in 0..k /\ k - 1 \in 0..Len(s) /\ k # 0
      /\ k = 1 \/ k - 1 # 0
    BY DEF LinedUp
<1>2. PICK i : i = s[k]
    BY Zenon
<1>3. /\ i \in DOMAIN entries /\ entries[i].priority = Level(entries, s, k)
      /\ explain_with_lookup(entries[i].matcher, u) <=> Hit(entries, u, s, k)
    BY <1>1, <1>2, Zenon DEF Level, Hit
<1>4. r = ResolveStep(entries, u, l, i)
    BY <1>2, Zenon
<1>5. CASE l.returned
  <2>1. r = l
      BY <1>1, <1>3, <1>4, <1>5, ResolveStepFacts
  <2>2. l.matched = None /\ Stopped(entries, u, s, k - 1, l.propagated)
      BY <1>5, Zenon DEF ResolveInv
  <2>3. Stopped(entries, u, s, k, l.propagated)
      BY <1>1, <2>2, StaysStopped, Zenon
  <2> QED
      BY <1>5, <2>1, <2>2, <2>3, ZenonT(40) DEF ResolveInv
<1>6. CASE ~l.returned
  <2>1. r \in Locals(entries)
      BY <1>1, <1>3, <1>4, ResolveStepFacts, SMTT(30)
  <2>2. PICK t \in Locals(entries) :
              /\ t.active = entries[i].priority
              /\ \/ /\ l.active = entries[i].priority
                    /\ t = l
                 \/ /\ l.active # entries[i].priority
                    /\ t.matched = None
                    /\ \/ /\ l.matched = None
                          /\ t.propagated = l.propagated /\ t.returned = l.returned
                       \/ /\ l.matched # None
                          /\ t.propagated = l.matched
                          /\ t.returned = ~entries[l.matched].spread
              /\ \/ /\ ~t.returned /\ t.matched = None
                    /\ explain_with_lookup(entries[i].matcher, u)
                    /\ r.matched = i /\ r.active = t.active
                    /\ r.propagated = t.propagated /\ r.returned = t.returned
                 \/ /\ t.returned \/ t.matched # None
                       \/ ~explain_with_lookup(entries[i].matcher, u)
                    /\ r = t
      BY <1>1, <1>3, <1>4, <1>6, ResolveStepFacts, SMTT(30)
  <2>3. /\ r.active = t.active /\ r.propagated = t.propagated
        /\ r.returned <=> t.returned
        /\ ~t.returned => r.matched = TakesLevel(entries, u, s, k, t.matched)
        /\ t.returned => r = t
      BY <1>2, <1>3, <2>2, Zenon DEF TakesLevel
  <2>4. CASE l.active = entries[i].priority
    <3>1. t = l
        BY <2>2, <2>4, Zenon
    <3> QED
        BY <1>3, <1>6, <2>1, <2>3, <2>4, <3>1, TurnStays, ZenonT(40)
  <2>5. CASE l.active # entries[i].priority
    <3>1. /\ t.matched = None
          /\ \/ /\ l.matched = None
                /\ t.propagated = l.propagated /\ t.returned = l.returned
             \/ /\ l.matched # None
                /\ t.propagated = l.matched
                /\ t.returned = ~entries[l.matched].spread
        BY <2>2, <2>5, Zenon
    <3>2. k = 1 \/ Level(entries, s, k - 1) # Level(entries, s, k)
        BY <1>1, <1>3, <1>6, <2>5, ZenonT(40) DEF ResolveInv
    <3>3. /\ l.matched = None => Passed(entries, u, s, k - 1, l.propagated)
          /\ l.matched # None =>
               /\ l.matched \in DOMAIN entries
               /\ ~entries[l.matched].spread => Stopped(entries, u, s, k - 1, l.matched)
               /\ entries[l.matched].spread => Passed(entries, u, s, k - 1, l.matched)
        BY <1>1, <1>6, Closing, Zenon
    <3>4. CASE t.returned
      <4>1. Stopped(entries, u, s, k - 1, t.propagated)
          BY <1>6, <3>1, <3>3, <3>4, Zenon
      <4>2. Stopped(entries, u, s, k, t.propagated)
          BY <1>1, <4>1, StaysStopped, Zenon
      <4> QED
          BY <2>3, <3>1, <3>4, <4>2, Zenon DEF ResolveInv
    <3>5. CASE ~t.returned
      <4>1. Passed(entries, u, s, k - 1, t.propagated)
          BY <1>6, <3>1, <3>3, <3>5, Zenon
      <4> QED
          BY <1>3, <2>1, <2>2, <2>3, <3>1, <3>2, <3>5, <4>1, TurnOpens, ZenonT(40)
    <3> QED
        BY <3>4, <3>5, Zenon
  <2> QED
      BY <2>4, <2>5, ZenonT(40)
<1> QED
    BY <1>5, <1>6, Zenon

\* The index proposes rules of the rule set only.
LEMMA CandidatesAreRules ==
  ASSUME NEW entries, NEW u
  PROVE  collect_candidate_indices(entries, u) \subseteq DOMAIN entries
<1>1. /\ \A key : exact_urls(entries, key) \subseteq DOMAIN entries
      /\ \A host : exact_hosts(entries, host) \subseteq DOMAIN entries
      /\ \A ip : exact_ips(entries, ip) \subseteq DOMAIN entries
    BY Zenon DEF exact_urls, exact_hosts, exact_ips, OfKind
<1>2. /\ \A key : \A x \in prefix_origins(entries, key) : x.index \in DOMAIN entries
      /\ \A x \in suffix_hosts(entries) : x.index \in DOMAIN entries
      /\ \A family : \A x \in cidr_ips(entries, family) : x.index \in DOMAIN entries
    BY DEF prefix_origins, suffix_hosts, cidr_ips, OfKind
<1>3. ASSUME NEW trie, \A x \in trie : x.index \in DOMAIN entries, NEW key
      PROVE  /\ PrefixMatches(trie, key) \subseteq DOMAIN entries
             /\ visit_rule_matches(trie, key) \subseteq DOMAIN entries
             /\ visit_cidr_matches(trie, key) \subseteq DOMAIN entries
  <2>1. \A k : \A x \in EndingAt(trie, key, k) : x.index \in DOMAIN entries
      BY <1>3, Zenon DEF EndingAt
  <2>2. PrefixMatches(trie, key) \subseteq DOMAIN entries
      BY <2>1 DEF PrefixMatches
  <2>3. visit_rule_matches(trie, key) \subseteq DOMAIN entries
      BY <2>1 DEF visit_rule_matches
  <2>4. visit_cidr_matches(trie, key) \subseteq DOMAIN entries
      BY <2>1 DEF visit_cidr_matches
  <2> QED
      BY <2>2, <2>3, <2>4, Zenon
<1>4. /\ PrefixMatches(prefix_origins(entries, OriginKey(u)), u.path) \subseteq DOMAIN entries
      /\ visit_rule_matches(suffix_hosts(entries), normalize_host(u.host)) \subseteq DOMAIN entries
      /\ visit_cidr_matches(cidr_ips(entries, parse_host_ip(u.host).family),
                            parse_host_ip(u.host).bits) \subseteq DOMAIN entries
    BY <1>2, <1>3, Zenon
<1> QED
    BY <1>1, <1>4, Zenon DEF collect_candidate_indices

\* The candidates of a request are lined up in the order of the walk.
LEMMA Lineup ==
  ASSUME NEW entries \in Seq(Rule), NEW u \in Url, NEW s, s = candidate_indices(entries, u)
  PROVE  LinedUp(entries, u, s) /\ s \in Seq(DOMAIN entries) /\ Len(s) <= Len(entries)
<1>1. PICK T : T = collect_candidate_indices(entries, u)
    BY Zenon
<1>2. T \subseteq DOMAIN entries
    BY <1>1, CandidatesAreRules, Zenon
<1>3. s = Sorted(entries, T)
    BY <1>1, Zenon DEF candidate_indices
<1>4. /\ s \in Seq(T) /\ Len(s) = Cardinality(T) /\ Increasing(entries, s)
      /\ \A i \in T : \E k \in 1..Len(s) : s[k] = i
  <2>1. Lists(s, T) /\ Increasing(entries, s)
      BY <1>2, <1>3, SortedFacts, Zenon
  <2> QED
      BY <2>1, Zenon DEF Lists
<1>5. s \in Seq(DOMAIN entries)
  <2>1. Len(s) \in Nat /\ s = [k \in 1..Len(s) |-> s[k]] /\ \A k \in 1..Len(s) : s[k] \in T
      BY <1>4
  <2>2. \A k \in 1..Len(s) : s[k] \in DOMAIN entries
      BY <1>2, <2>1, Zenon
  <2> QED
      BY <2>1, <2>2
<1>6. \A i \in Matching(entries, u) : i \in T
    BY <1>1, Proposed, Zenon DEF Complete
<1>7. Cardinality(T) <= Len(entries)
    BY <1>2, FiniteRules, Zenon
<1> QED
    BY <1>4, <1>5, <1>6, <1>7, Zenon DEF LinedUp

\* The walk of resolve_candidates finds the rule that the documented order selects.
LEMMA ResolvesToReference ==
  ASSUME NEW entries \in Seq(Rule), NEW u \in Url
  PROVE  resolve(entries, u) = Reference(entries, u)
<1>1. PICK s : s = candidate_indices(entries, u)
    BY Zenon
<1>2. LinedUp(entries, u, s) /\ s \in Seq(DOMAIN entries) /\ Len(s) \in Nat
    BY <1>1, Lineup
<1>3. PICK w : w = resolve_candidates(entries, u, s)
    BY Zenon
<1>4. /\ w \in [0..Len(s) -> Locals(entries)]
      /\ w[0] = ResolveStart
      /\ \A k \in 1..Len(s) : w[k] = ResolveStep(entries, u, w[k - 1], s[k])
    BY <1>2, <1>3, ResolveRuns
<1>5. \A k \in 0..Len(s) : ResolveInv(entries, u, s, k, w[k])
  <2> DEFINE G == {k \in 0..Len(s) : ResolveInv(entries, u, s, k, w[k])}
  <2>1. 0 \in G
    <3>1. ~ResolveStart.returned
        BY Zenon DEF ResolveStart
    <3>2. 0 \in 0..Len(s)
        BY <1>2
    <3> QED
        BY <1>4, <3>1, <3>2, Zenon DEF ResolveInv
  <2>2. ASSUME NEW k \in 1..Len(s), k - 1 \in G PROVE k \in G
    <3>1. k \in 0..Len(s) /\ k - 1 \in 0..Len(s)
        BY <1>2
    <3>2. w[k - 1] \in Locals(entries) /\ ResolveInv(entries, u, s, k - 1, w[k - 1])
        BY <1>4, <2>2, <3>1, Zenon
    <3>3. ResolveInv(entries, u, s, k, w[k])
        BY <1>2, <1>4, <3>2, ResolveTurn, Zenon
    <3> QED
        BY <3>1, <3>3, Zenon
  <2>3. Climbs(G, Len(s))
      BY <2>1, <2>2, Zenon DEF Climbs
  <2>4. \A k \in 0..Len(s) : k \in G
    <3> HIDE DEF G
    <3> QED
        BY <1>2, <2>3, Climb, Zenon
  <2> QED
      BY <2>4, Zenon
<1>6. PICK n, l, c : n = Len(s) /\ l = w[n] /\ c = CloseLevel(entries, l)
    BY Zenon
<1>7. n \in 0..Len(s) /\ n \in Nat
    BY <1>2, <1>6
<1>8. l \in Locals(entries) /\ ResolveInv(entries, u, s, n, l)
    BY <1>4, <1>5, <1>6, <1>7, Zenon
<1>9. resolve(entries, u) = c.propagated
    BY <1>1, <1>3, <1>6, Zenon DEF resolve
<1>10. /\ l.matched = None => c = l
       /\ l.matched # None => c.propagated = l.matched
    BY <1>6, <1>8, CloseLevelFacts, ZenonT(40)
<1>11. Stopped(entries, u, s, n, c.propagated) \/ Passed(entries, u, s, n, c.propagated)
  <2>1. CASE l.returned
      BY <1>8, <1>10, <2>1, Zenon DEF ResolveInv
  <2>2. CASE ~l.returned
    <3>1. /\ l.matched = None => Passed(entries, u, s, n, l.propagated)
          /\ l.matched # None =>
               /\ l.matched \in DOMAIN entries
               /\ ~entries[l.matched].spread => Stopped(entries, u, s, n, l.matched)
               /\ entries[l.matched].spread => Passed(entries, u, s, n, l.matched)
        BY <1>2, <1>7, <1>8, <2>2, Closing, Zenon
    <3> QED
        BY <1>10, <3>1, Zenon
  <2> QED
      BY <2>1, <2>2, Zenon
<1>12. CASE Stopped(entries, u, s, n, c.propagated)
  <2>1. PICK j \in 1..n :
              /\ c.propagated = s[j] /\ Win(entries, u, s, j) /\ ~Spreads(entries, s, j)
              /\ \A i \in 1..(j - 1) : Win(entries, u, s, i) => Spreads(entries, s, i)
      BY <1>12, Zenon DEF Stopped
  <2>2. AnswerAt(entries, u, s, j) /\ j \in 1..Len(s)
      BY <1>6, <2>1, Zenon DEF AnswerAt
  <2> QED
      BY <1>2, <1>9, <2>1, <2>2, ReferenceAt, ZenonT(40)
<1>13. CASE Passed(entries, u, s, n, c.propagated)
  <2>1. CASE c.propagated = None /\ \A i \in 1..n : ~Win(entries, u, s, i)
      BY <1>2, <1>6, <1>9, <2>1, ReferenceNone, Zenon
  <2>2. CASE \E j \in 1..n : /\ c.propagated = s[j] /\ Win(entries, u, s, j)
                             /\ \A i \in 1..n : i > j => ~Win(entries, u, s, i)
    <3>1. PICK j \in 1..n : /\ c.propagated = s[j] /\ Win(entries, u, s, j)
                            /\ \A i \in 1..n : i > j => ~Win(entries, u, s, i)
        BY <2>2, Zenon
    <3>2. \A i \in 1..(j - 1) : i \in 1..n
        BY <1>7
    <3>3. AnswerAt(entries, u, s, j) /\ j \in 1..Len(s)
        BY <1>6, <1>13, <3>1, <3>2, Zenon DEF AnswerAt, Passed
    <3> QED
        BY <1>2, <1>9, <3>1, <3>3, ReferenceAt, ZenonT(40)
  <2> QED
      BY <1>13, <2>1, <2>2, Zenon DEF Passed
<1> QED
    BY <1>11, <1>12, <1>13, Zenon

-----------------------------------------------------------------------------
(* The walk of explain_candidates.                                          *)

\* A group of a trace.
Group(entries) ==
  [priority : {entries[i].priority : i \in DOMAIN entries},
   candidates : Seq(DOMAIN entries), winner : DOMAIN entries \cup {None}]

\* The group of a trace that candidate i joins, as it was before.
Joined(entries, g, i, last) ==
  \/ /\ g # <<>> /\ g[Len(g)].priority = entries[i].priority
     /\ last = g[Len(g)]
  \/ /\ g = <<>> \/ g[Len(g)].priority # entries[i].priority
     /\ last = [priority |-> entries[i].priority, candidates |-> <<>>, winner |-> None]

\* The group that candidate i joins is the last one.
LEMMA OpenGroupFacts ==
  ASSUME NEW entries \in Seq(Rule), NEW g \in Seq(Group(entries)),
         NEW i \in DOMAIN entries, NEW o, o = OpenGroup(g, entries[i].priority)
  PROVE  /\ o \in Seq(Group(entries)) /\ Len(o) \in Nat \ {0}
         /\ Joined(entries, g, i, o[Len(o)])
         /\ o[Len(o)].priority = entries[i].priority
         /\ g # <<>> /\ g[Len(g)].priority = entries[i].priority => Len(o) = Len(g)
         /\ g = <<>> \/ g[Len(g)].priority # entries[i].priority => Len(o) = Len(g) + 1
         /\ \A h \in 1..(Len(o) - 1) : h \in 1..Len(g) /\ o[h] = g[h]
<1>1. PICK fresh : fresh = [priority |-> entries[i].priority, candidates |-> <<>>, winner |-> None]
    BY Zenon
<1>2. fresh \in Group(entries) /\ fresh.priority = entries[i].priority
    BY <1>1 DEF Group
<1>3. CASE g # <<>> /\ g[Len(g)].priority = entries[i].priority
  <2>1. o = g
      BY <1>3, Zenon DEF OpenGroup
  <2>2. Len(g) \in Nat \ {0} /\ \A h \in 1..(Len(g) - 1) : h \in 1..Len(g)
      BY <1>3
  <2> QED
      BY <1>3, <2>1, <2>2, Zenon DEF Joined
<1>4. CASE g = <<>> \/ g[Len(g)].priority # entries[i].priority
  <2>1. o = Append(g, fresh)
      BY <1>1, <1>4, Zenon DEF OpenGroup
  <2>2. /\ o \in Seq(Group(entries)) /\ Len(o) = Len(g) + 1 /\ Len(o) \in Nat \ {0}
        /\ o[Len(o)] = fresh /\ \A h \in 1..(Len(o) - 1) : h \in 1..Len(g) /\ o[h] = g[h]
      BY <1>2, <2>1
  <2> QED
      BY <1>1, <1>2, <1>4, <2>2, Zenon DEF Joined
<1> QED
    BY <1>3, <1>4, Zenon

\* r is the trace g after the turn of candidate i: `last' is its group before, and n
\* the number of the group.
Turned(entries, u, g, i, r, last, n) ==
  /\ Joined(entries, g, i, last) /\ Len(r) = n
  /\ g # <<>> /\ g[Len(g)].priority = entries[i].priority => n = Len(g)
  /\ g = <<>> \/ g[Len(g)].priority # entries[i].priority => n = Len(g) + 1
  /\ \A h \in 1..(n - 1) : h \in 1..Len(g) /\ r[h] = g[h]
  /\ r[n].priority = entries[i].priority
  /\ r[n].candidates = Append(last.candidates, i)
  /\ r[n].winner = IF last.winner = None /\ explain_with_lookup(entries[i].matcher, u)
                   THEN i ELSE last.winner

\* One turn adds the candidate to its group and asks it if nobody has won the group.
LEMMA ExplainStepFacts ==
  ASSUME NEW entries \in Seq(Rule), NEW u, NEW g \in Seq(Group(entries)),
         NEW i \in DOMAIN entries, NEW r, r = ExplainStep(entries, u, g, i)
  PROVE  /\ r \in Seq(Group(entries))
         /\ \E last \in Group(entries), n \in Nat \ {0} : Turned(entries, u, g, i, r, last, n)
<1>1. PICK o : o = OpenGroup(g, entries[i].priority)
    BY Zenon
<1>2. /\ o \in Seq(Group(entries)) /\ Len(o) \in Nat \ {0}
      /\ Joined(entries, g, i, o[Len(o)])
      /\ o[Len(o)].priority = entries[i].priority
      /\ g # <<>> /\ g[Len(g)].priority = entries[i].priority => Len(o) = Len(g)
      /\ g = <<>> \/ g[Len(g)].priority # entries[i].priority => Len(o) = Len(g) + 1
      /\ \A h \in 1..(Len(o) - 1) : h \in 1..Len(g) /\ o[h] = g[h]
    BY <1>1, OpenGroupFacts
<1>3. PICK n \in Nat \ {0} : n = Len(o)
    BY <1>2, Zenon
<1>4. n \in 1..n /\ DOMAIN o = 1..n
    BY <1>2, <1>3
<1>5. PICK last \in Group(entries) : last = o[n]
    BY <1>2, <1>3, <1>4
<1>6. PICK win : win = IF last.winner = None /\ explain_with_lookup(entries[i].matcher, u)
                       THEN i ELSE last.winner
    BY Zenon
<1>7. PICK new : new = [priority |-> last.priority, candidates |-> Append(last.candidates, i),
                        winner |-> win]
    BY Zenon
<1>8. /\ new \in Group(entries) /\ new.priority = last.priority /\ new.winner = win
      /\ new.candidates = Append(last.candidates, i)
  <2>1. win \in DOMAIN entries \cup {None}
      BY <1>6, Zenon DEF Group
  <2>2. /\ last.priority \in {entries[j].priority : j \in DOMAIN entries}
        /\ last.candidates \in Seq(DOMAIN entries)
      BY Zenon DEF Group
  <2>3. Append(last.candidates, i) \in Seq(DOMAIN entries)
      BY <2>2
  <2> QED
      BY <1>7, <2>1, <2>2, <2>3, Zenon DEF Group
<1>9. r = [o EXCEPT ![n] = new]
    BY <1>1, <1>3, <1>5, <1>6, <1>7, ZenonT(40) DEF ExplainStep
<1>10. /\ r \in Seq(Group(entries)) /\ Len(r) = n /\ r[n] = new
       /\ \A h \in 1..(n - 1) : r[h] = o[h]
    BY <1>2, <1>3, <1>4, <1>8, <1>9
<1>11. \A h \in 1..(n - 1) : h \in 1..Len(g) /\ r[h] = g[h]
    BY <1>2, <1>3, <1>10, Zenon
<1>12. /\ Joined(entries, g, i, last) /\ Len(r) = n
       /\ g # <<>> /\ g[Len(g)].priority = entries[i].priority => n = Len(g)
       /\ g = <<>> \/ g[Len(g)].priority # entries[i].priority => n = Len(g) + 1
       /\ r[n].priority = entries[i].priority
    BY <1>2, <1>3, <1>5, <1>8, <1>10, Zenon
<1>13. /\ r[n].candidates = Append(last.candidates, i)
       /\ r[n].winner = IF last.winner = None /\ explain_with_lookup(entries[i].matcher, u)
                        THEN i ELSE last.winner
    BY <1>6, <1>8, <1>10, Zenon
<1> QED
    BY <1>10, <1>11, <1>12, <1>13, Zenon DEF Turned

\* The groups before and after each turn.
LEMMA ExplainRuns ==
  ASSUME NEW entries \in Seq(Rule), NEW u, NEW s \in Seq(DOMAIN entries),
         NEW w, w = explain_candidates(entries, u, s)
  PROVE  /\ w \in [0..Len(s) -> Seq(Group(entries))]
         /\ w[0] = <<>>
         /\ \A k \in 1..Len(s) : w[k] = ExplainStep(entries, u, w[k - 1], s[k])
<1> DEFINE S == Seq(Group(entries))
           n == Len(s)
           turn == [x \in S \X (1..n) |-> ExplainStep(entries, u, x[1], s[x[2]])]
<1>1. n \in Nat /\ \A k \in 1..n : s[k] \in DOMAIN entries
    OBVIOUS
<1>2. <<>> \in S
    OBVIOUS
<1>3. \A l \in S : \A k \in 1..n : /\ turn[<<l, k>>] = ExplainStep(entries, u, l, s[k])
                                   /\ turn[<<l, k>>] \in S
  <2>1. SUFFICES ASSUME NEW l \in S, NEW k \in 1..n
                 PROVE  /\ turn[<<l, k>>] = ExplainStep(entries, u, l, s[k])
                        /\ turn[<<l, k>>] \in S
      BY Zenon
  <2>2. turn[<<l, k>>] = ExplainStep(entries, u, l, s[k])
      BY Zenon
  <2>3. s[k] \in DOMAIN entries
      BY <1>1, Zenon
  <2>4. PICK i, r : i = s[k] /\ r = ExplainStep(entries, u, l, i)
      BY Zenon
  <2>5. r \in S
    <3>1. l \in Seq(Group(entries)) /\ i \in DOMAIN entries
        BY <2>3, <2>4, Zenon
    <3>2. r \in Seq(Group(entries))
        BY <2>4, <3>1, ExplainStepFacts, Zenon
    <3> QED
        BY <3>2, Zenon
  <2> QED
      BY <2>2, <2>4, <2>5, Zenon
<1> HIDE DEF S, n, turn
<1>4. PICK v \in [0..n -> S] : RunOf(v, <<>>, turn, n)
  <2>1. TurnsIn(S, turn, n)
      BY <1>3, Zenon DEF TurnsIn
  <2> QED
      BY <1>1, <1>2, <2>1, LoopRuns, Zenon
<1>5. \A k \in 1..n : v[k] = ExplainStep(entries, u, v[k - 1], s[k])
  <2>1. SUFFICES ASSUME NEW k \in 1..n PROVE v[k] = ExplainStep(entries, u, v[k - 1], s[k])
      BY Zenon
  <2>2. k - 1 \in 0..n
      BY <1>1
  <2>3. v[k - 1] \in S
      BY <2>2, Zenon
  <2> QED
      BY <1>3, <1>4, <2>3, ZenonT(40) DEF RunOf
<1>6. v = [k \in 0..n |-> IF k = 0 THEN <<>> ELSE ExplainStep(entries, u, v[k - 1], s[k])]
  <2>1. \A k \in 0..n : k = 0 \/ k \in 1..n
      BY <1>1
  <2>2. \A k \in 0..n : v[k] = IF k = 0 THEN <<>> ELSE ExplainStep(entries, u, v[k - 1], s[k])
      BY <1>4, <1>5, <2>1, Zenon DEF RunOf
  <2> QED
      BY <2>2, Zenon
<1>7. w = [k \in 0..n |-> IF k = 0 THEN <<>> ELSE ExplainStep(entries, u, w[k - 1], s[k])]
    BY <1>6, ZenonT(40) DEF explain_candidates, n
<1>8. \A k \in 0..n : v[k] = w[k]
  <2>1. 0 \in 0..n /\ \A k \in 1..n : k \in 0..n /\ k # 0
      BY <1>1
  <2>2. v[0] = w[0]
      BY <1>4, <1>7, <2>1, Zenon DEF RunOf
  <2>3. \A k \in 1..n : v[k - 1] = w[k - 1] => v[k] = w[k]
      BY <1>5, <1>7, <2>1, ZenonT(40)
  <2>4. SameTurns(v, w, n)
      BY <2>2, <2>3, Zenon DEF SameTurns
  <2> QED
      BY <1>1, <2>4, LoopsAgree, ZenonT(60)
<1>9. w = v
    BY <1>7, <1>8, Zenon
<1> QED
    BY <1>4, <1>5, <1>9, Zenon DEF RunOf, S, n

\* Every winner a trace names has won its level.
NamesWinners(entries, u, s, k, g) ==
  \A h \in 1..Len(g) : g[h].winner # None =>
    \E j \in 1..k : /\ g[h].winner = s[j] /\ Win(entries, u, s, j)
                    /\ g[h].priority = Level(entries, s, j)

\* Every winner is named.
NamesAll(entries, u, s, k, g) ==
  \A j \in 1..k : Win(entries, u, s, j) =>
    \E h \in 1..Len(g) : g[h].winner = s[j] /\ g[h].priority = Level(entries, s, j)

\* The groups come from the highest priority down.
GroupsDescend(g) ==
  \A h \in 1..Len(g) : \A i \in 1..Len(g) : h < i => g[h].priority > g[i].priority

\* The last group is the level of candidate k.
LastIsOpen(entries, u, s, k, g) ==
  /\ g # <<>> /\ g[Len(g)].priority = Level(entries, s, k)
  /\ \E m \in 0..(k - 1) : /\ SameLevel(entries, s, m, k)
                           /\ WinsLevel(entries, u, s, m, k, g[Len(g)].winner)

\* The groups after k turns.
ExplainInv(entries, u, s, k, g) ==
  /\ k = 0 => g = <<>>
  /\ k > 0 => LastIsOpen(entries, u, s, k, g)
  /\ NamesWinners(entries, u, s, k, g)
  /\ NamesAll(entries, u, s, k, g)
  /\ GroupsDescend(g)
  /\ \A h \in 1..Len(g) : Len(g[h].candidates) <= k

\* Every turn keeps the invariant of the walk.
LEMMA ExplainTurn ==
  ASSUME NEW entries, NEW u, NEW s, LinedUp(entries, u, s), NEW k \in 1..Len(s),
         NEW g \in Seq(Group(entries)), NEW r, r = ExplainStep(entries, u, g, s[k]),
         ExplainInv(entries, u, s, k - 1, g)
  PROVE  ExplainInv(entries, u, s, k, r)
<1>1. /\ entries \in Seq(Rule) /\ s[k] \in DOMAIN entries
      /\ k \in Nat /\ k - 1 \in 0..Len(s) /\ k # 0 /\ k > 0
      /\ k = 1 \/ k - 1 > 0
      /\ Len(g) \in Nat
      /\ g # <<>> => Len(g) \in 1..Len(g)
      /\ g = <<>> => Len(g) = 0
    BY SMTT(30) DEF LinedUp
<1>2. PICK i : i = s[k]
    BY Zenon
<1>3. /\ i \in DOMAIN entries /\ entries[i].priority = Level(entries, s, k)
      /\ explain_with_lookup(entries[i].matcher, u) <=> Hit(entries, u, s, k)
    BY <1>1, <1>2, Zenon DEF Level, Hit
<1>4. r = ExplainStep(entries, u, g, i)
    BY <1>2, Zenon
<1>turn. PICK last \in Group(entries), n \in Nat \ {0} : Turned(entries, u, g, i, r, last, n)
    BY <1>1, <1>3, <1>4, ExplainStepFacts, Zenon
<1>5. /\ Joined(entries, g, i, last) /\ Len(r) = n
      /\ g # <<>> /\ g[Len(g)].priority = entries[i].priority => n = Len(g)
      /\ g = <<>> \/ g[Len(g)].priority # entries[i].priority => n = Len(g) + 1
      /\ \A h \in 1..(n - 1) : h \in 1..Len(g) /\ r[h] = g[h]
      /\ r[n].priority = entries[i].priority
      /\ r[n].candidates = Append(last.candidates, i)
      /\ r[n].winner = IF last.winner = None /\ explain_with_lookup(entries[i].matcher, u)
                       THEN i ELSE last.winner
    BY <1>turn, ZenonT(40) DEF Turned
<1>6. /\ r \in Seq(Group(entries)) /\ r # <<>> /\ n \in 1..n
      /\ \A h \in 1..n : h \in 1..(n - 1) \/ h = n
  <2>1. r \in Seq(Group(entries))
      BY <1>1, <1>3, <1>4, ExplainStepFacts, Zenon
  <2> QED
      BY <1>5, <2>1
<1>7. /\ r[n].priority = Level(entries, s, k)
      /\ r[n].winner = TakesLevel(entries, u, s, k, last.winner)
    BY <1>2, <1>3, <1>5, Zenon DEF TakesLevel
<1> DEFINE stays == g # <<>> /\ g[Len(g)].priority = entries[i].priority
<1>8. /\ stays => last = g[Len(g)] /\ n = Len(g)
      /\ ~stays => /\ n = Len(g) + 1 /\ last.winner = None /\ last.candidates = <<>>
  <2>1. stays => last = g[Len(g)]
      BY <1>5, Zenon DEF Joined
  <2>2. ~stays => last = [priority |-> entries[i].priority, candidates |-> <<>>, winner |-> None]
      BY <1>5, Zenon DEF Joined
  <2>3. ~stays => last.winner = None /\ last.candidates = <<>>
      BY <2>2
  <2> QED
      BY <1>5, <2>1, <2>3, Zenon
<1>9. /\ LastIsOpen(entries, u, s, k, r)
      /\ Win(entries, u, s, k) <=> last.winner = None /\ Hit(entries, u, s, k)
      /\ \A h \in 1..(n - 1) : g[h].priority > Level(entries, s, k)
  <2>1. CASE stays
    <3>1. k # 1 /\ k - 1 > 0
      <4>1. k = 1 => g = <<>>
        <5>1. k = 1 => k - 1 = 0
            OBVIOUS
        <5> QED
            BY <5>1, Zenon DEF ExplainInv
      <4> QED
          BY <1>1, <2>1, <4>1, Zenon
    <3>2. LastIsOpen(entries, u, s, k - 1, g)
        BY <3>1, Zenon DEF ExplainInv
    <3>3. Level(entries, s, k) = Level(entries, s, k - 1)
        BY <1>3, <2>1, <3>2, Zenon DEF LastIsOpen
    <3>4. PICK m \in 0..((k - 1) - 1) : /\ SameLevel(entries, s, m, k - 1)
                                        /\ WinsLevel(entries, u, s, m, k - 1, g[Len(g)].winner)
        BY <3>2, Zenon DEF LastIsOpen
    <3>5. m \in 0..(k - 1) /\ m < k - 1
        BY <1>1, <3>1
    <3>6. WinsLevel(entries, u, s, m, k - 1, last.winner)
        BY <1>8, <2>1, <3>4, Zenon
    <3>7. /\ SameLevel(entries, s, m, k)
          /\ WinsLevel(entries, u, s, m, k, r[n].winner)
          /\ last.winner # None => ~Win(entries, u, s, k)
          /\ last.winner = None /\ Hit(entries, u, s, k) => Win(entries, u, s, k)
        BY <1>7, <3>3, <3>4, <3>5, <3>6, StayLevel, ZenonT(40)
    <3>8. LastIsOpen(entries, u, s, k, r)
        BY <1>5, <1>6, <1>7, <3>5, <3>7, ZenonT(40) DEF LastIsOpen
    <3>9. \A h \in 1..(n - 1) : g[h].priority > Level(entries, s, k)
      <4>1. SUFFICES ASSUME NEW h \in 1..(n - 1) PROVE g[h].priority > Level(entries, s, k)
          BY Zenon
      <4>2. h < n /\ h \in 1..n
          OBVIOUS
      <4>3. n = Len(g) /\ g[n].priority = Level(entries, s, k)
          BY <1>3, <1>8, <2>1, Zenon
      <4>4. \A a \in 1..n : \A b \in 1..n : a < b => g[a].priority > g[b].priority
          BY <4>3, Zenon DEF ExplainInv, GroupsDescend
      <4>5. g[h].priority > g[n].priority
          BY <1>6, <4>2, <4>4, Zenon
      <4> QED
          BY <4>3, <4>5, Zenon
    <3> QED
        BY <3>7, <3>8, <3>9, Zenon DEF Win
  <2>2. CASE ~stays
    <3>1. k = 1 \/ Level(entries, s, k - 1) # Level(entries, s, k)
      <4>1. k - 1 > 0 => LastIsOpen(entries, u, s, k - 1, g)
          BY Zenon DEF ExplainInv
      <4> QED
          BY <1>1, <1>3, <2>2, <4>1, Zenon DEF LastIsOpen
    <3>2. /\ \A h \in 1..(k - 1) : Level(entries, s, h) > Level(entries, s, k)
          /\ SameLevel(entries, s, k - 1, k)
          /\ WinsLevel(entries, u, s, k - 1, k, TakesLevel(entries, u, s, k, None))
          /\ Win(entries, u, s, k) <=> Hit(entries, u, s, k)
        BY <3>1, NextLevel, Zenon
    <3>3. k - 1 \in 0..(k - 1)
        BY <1>1
    <3>4. WinsLevel(entries, u, s, k - 1, k, r[n].winner)
        BY <1>7, <1>8, <2>2, <3>2, Zenon
    <3>5. LastIsOpen(entries, u, s, k, r)
        BY <1>5, <1>6, <1>7, <3>2, <3>3, <3>4, ZenonT(40) DEF LastIsOpen
    <3>6. ASSUME NEW h \in 1..(n - 1) PROVE g[h].priority > Level(entries, s, k)
      <4>1. h \in 1..Len(g) /\ g # <<>> /\ (h = Len(g) \/ h < Len(g)) /\ Len(g) \in 1..Len(g)
          BY <1>1, <1>5, <1>8, <2>2, SMTT(30)
      <4>2. k - 1 > 0 /\ k - 1 \in 1..(k - 1) /\ k - 1 \in 1..Len(s)
        <5>1. k = 1 => g = <<>>
          <6>1. k = 1 => k - 1 = 0
              OBVIOUS
          <6> QED
              BY <6>1, Zenon DEF ExplainInv
        <5> QED
            BY <1>1, <4>1, <5>1
      <4>3. g[Len(g)].priority = Level(entries, s, k - 1)
          BY <4>2, Zenon DEF ExplainInv, LastIsOpen
      <4>4. h = Len(g) \/ g[h].priority > g[Len(g)].priority
          BY <4>1, Zenon DEF ExplainInv, GroupsDescend
      <4>5. Level(entries, s, k - 1) > Level(entries, s, k)
          BY <3>2, <4>2, Zenon
      <4>6. Level(entries, s, k - 1) \in Int /\ Level(entries, s, k) \in Int
          BY <4>2, CandidateIsSome, Zenon
      <4>7. g[h].priority \in Int
        <5>1. g[h] \in Group(entries)
            BY <4>1
        <5>2. \A c \in DOMAIN entries : entries[c].priority \in Int
            BY <1>1, OrderIsTotal, Zenon
        <5> QED
            BY <5>1, <5>2, Zenon DEF Group
      <4>8. PICK a, b, c : a = g[h].priority /\ b = Level(entries, s, k - 1) /\ c = Level(entries, s, k)
          BY Zenon
      <4>9. a \in Int /\ b \in Int /\ c \in Int /\ b > c /\ (a = b \/ a > b)
          BY <4>3, <4>4, <4>5, <4>6, <4>7, <4>8, ZenonT(40)
      <4>10. a > c
          BY <4>9
      <4> QED
          BY <4>8, <4>10, ZenonT(40)
    <3> QED
        BY <1>8, <2>2, <3>2, <3>5, <3>6, ZenonT(40)
  <2> QED
      BY <2>1, <2>2, Zenon
<1>10. ExplainInv(entries, u, s, k - 1, g)
    BY Zenon
<1> HIDE DEF stays
<1>11. NamesWinners(entries, u, s, k, r)
  <2>1. SUFFICES ASSUME NEW h \in 1..n, r[h].winner # None
                 PROVE  \E j \in 1..k : /\ r[h].winner = s[j] /\ Win(entries, u, s, j)
                                        /\ r[h].priority = Level(entries, s, j)
      BY <1>5, Zenon DEF NamesWinners
  <2>2. k \in 1..k /\ \A j \in 1..(k - 1) : j \in 1..k
      BY <1>1
  <2>3. \A f \in 1..Len(g) : g[f].winner # None =>
          \E j \in 1..(k - 1) : /\ g[f].winner = s[j] /\ Win(entries, u, s, j)
                                /\ g[f].priority = Level(entries, s, j)
      BY <1>10, Zenon DEF ExplainInv, NamesWinners
  <2>4. CASE h \in 1..(n - 1)
    <3>1. h \in 1..Len(g) /\ r[h] = g[h]
        BY <1>5, <2>4, Zenon
    <3> QED
        BY <2>1, <2>2, <2>3, <3>1, Zenon
  <2>5. CASE h = n /\ last.winner = None
    <3>1. Hit(entries, u, s, k) /\ r[n].winner = s[k]
        BY <1>7, <2>1, <2>5, Zenon DEF TakesLevel
    <3>2. Win(entries, u, s, k)
        BY <1>9, <2>5, <3>1, Zenon
    <3> QED
        BY <1>7, <2>2, <2>5, <3>1, <3>2, ZenonT(40)
  <2>6. CASE h = n /\ last.winner # None
    <3>1. r[n].winner = last.winner
        BY <1>7, <2>6, Zenon DEF TakesLevel
    <3>2. last = g[n] /\ n = Len(g) /\ g[n].priority = Level(entries, s, k)
        BY <1>3, <1>8, <2>6, Zenon DEF stays
    <3>3. n \in 1..Len(g)
        BY <1>6, <3>2, Zenon
    <3>4. PICK j \in 1..(k - 1) : /\ g[n].winner = s[j] /\ Win(entries, u, s, j)
                                  /\ g[n].priority = Level(entries, s, j)
        BY <2>3, <2>6, <3>2, <3>3, Zenon
    <3> QED
        BY <1>7, <2>2, <2>6, <3>1, <3>2, <3>4, ZenonT(40)
  <2> QED
      BY <1>6, <2>4, <2>5, <2>6, Zenon
<1>12. NamesAll(entries, u, s, k, r)
  <2>1. SUFFICES ASSUME NEW j \in 1..k, Win(entries, u, s, j)
                 PROVE  \E h \in 1..n : r[h].winner = s[j] /\ r[h].priority = Level(entries, s, j)
      BY <1>5, Zenon DEF NamesAll
  <2>2. j = k \/ j \in 1..(k - 1)
      BY <1>1
  <2>3. CASE j = k
    <3>1. r[n].winner = s[k]
        BY <1>7, <1>9, <2>1, <2>3, Zenon DEF TakesLevel
    <3> QED
        BY <1>6, <1>7, <2>3, <3>1, Zenon
  <2>4. CASE j \in 1..(k - 1)
    <3>1. PICK h \in 1..Len(g) : g[h].winner = s[j] /\ g[h].priority = Level(entries, s, j)
        BY <1>10, <2>1, <2>4, Zenon DEF ExplainInv, NamesAll
    <3>2. \/ h \in 1..(n - 1) /\ h \in 1..n
          \/ stays /\ h = n
        BY <1>1, <1>8
    <3>3. CASE h \in 1..(n - 1) /\ h \in 1..n
        BY <1>5, <3>1, <3>3, Zenon
    <3>4. CASE stays /\ h = n
      <4>1. s[j] # None
        <5>1. j \in 1..Len(s)
            BY <1>1, <2>4
        <5> QED
            BY <5>1, CandidateIsSome, Zenon
      <4>2. last.winner = s[j] /\ r[n].winner = s[j]
          BY <1>7, <1>8, <3>1, <3>4, <4>1, ZenonT(40) DEF TakesLevel
      <4>3. r[n].priority = g[n].priority
          BY <1>3, <1>7, <1>8, <3>4, Zenon DEF stays
      <4> QED
          BY <1>6, <3>1, <3>4, <4>2, <4>3, ZenonT(40)
    <3> QED
        BY <3>2, <3>3, <3>4, Zenon
  <2> QED
      BY <2>2, <2>3, <2>4, Zenon
<1>13. GroupsDescend(r)
  <2>1. SUFFICES ASSUME NEW h \in 1..n, NEW f \in 1..n, h < f
                 PROVE  r[h].priority > r[f].priority
      BY <1>5, Zenon DEF GroupsDescend
  <2>2. h \in 1..(n - 1) /\ (f \in 1..(n - 1) \/ f = n)
      BY <2>1
  <2>3. CASE f \in 1..(n - 1)
    <3>1. h \in 1..Len(g) /\ r[h] = g[h] /\ f \in 1..Len(g) /\ r[f] = g[f]
        BY <1>5, <2>2, <2>3, Zenon
    <3>2. g[h].priority > g[f].priority
        BY <1>10, <2>1, <3>1, Zenon DEF ExplainInv, GroupsDescend
    <3> QED
        BY <3>1, <3>2, Zenon
  <2>4. CASE f = n
      BY <1>5, <1>7, <1>9, <2>2, <2>4, Zenon
  <2> QED
      BY <2>2, <2>3, <2>4, Zenon
<1>14. \A h \in 1..Len(r) : Len(r[h].candidates) <= k
  <2>1. SUFFICES ASSUME NEW h \in 1..n PROVE Len(r[h].candidates) <= k
      BY <1>5, Zenon
  <2>2. \A f \in 1..Len(g) : Len(g[f].candidates) <= k - 1
      BY <1>10, Zenon DEF ExplainInv
  <2>3. CASE h \in 1..(n - 1)
    <3>1. h \in 1..Len(g) /\ r[h] = g[h]
        BY <1>5, <2>3, Zenon
    <3>2. g[h].candidates \in Seq(DOMAIN entries) /\ Len(g[h].candidates) \in Nat
      <4>1. g[h] \in Group(entries)
          BY <3>1
      <4> QED
          BY <4>1 DEF Group
    <3>3. Len(g[h].candidates) <= k - 1
        BY <2>2, <3>1, Zenon
    <3>4. Len(g[h].candidates) <= k
        BY <1>1, <3>2, <3>3, SMTT(30)
    <3> QED
        BY <3>1, <3>4, ZenonT(40)
  <2>4. CASE h = n
    <3>1. PICK c : c = last.candidates
        BY Zenon
    <3>2. c \in Seq(DOMAIN entries)
        BY <3>1, Zenon DEF Group
    <3>3. c = <<>> \/ Len(c) <= k - 1
        BY <1>6, <1>8, <2>2, <3>1, ZenonT(40)
    <3>4. Len(Append(c, i)) <= k
        BY <1>1, <1>3, <3>2, <3>3
    <3> QED
        BY <1>5, <2>4, <3>1, <3>4, Zenon
  <2> QED
      BY <1>6, <2>3, <2>4, Zenon
<1> QED
    BY <1>1, <1>9, <1>11, <1>12, <1>13, <1>14, ZenonT(40) DEF ExplainInv

\* The groups an explanation is given.
LEMMA TraceOf ==
  ASSUME NEW entries \in Seq(Rule), NEW u \in Url,
         NEW g, g = priority_groups(entries, u)
  PROVE  /\ g \in Seq(Group(entries))
         /\ \E s : LinedUp(entries, u, s) /\ Len(s) \in 0..Len(entries)
                   /\ ExplainInv(entries, u, s, Len(s), g)
<1>1. PICK s : s = candidate_indices(entries, u)
    BY Zenon
<1>2. LinedUp(entries, u, s) /\ s \in Seq(DOMAIN entries) /\ Len(s) \in 0..Len(entries)
      /\ Len(s) \in Nat
    BY <1>1, Lineup
<1>3. PICK w : w = explain_candidates(entries, u, s)
    BY Zenon
<1>4. /\ w \in [0..Len(s) -> Seq(Group(entries))]
      /\ w[0] = <<>>
      /\ \A k \in 1..Len(s) : w[k] = ExplainStep(entries, u, w[k - 1], s[k])
    BY <1>2, <1>3, ExplainRuns
<1>5. \A k \in 0..Len(s) : ExplainInv(entries, u, s, k, w[k])
  <2> DEFINE G == {k \in 0..Len(s) : ExplainInv(entries, u, s, k, w[k])}
  <2>1. 0 \in G
    <3>1. 0 \in 0..Len(s) /\ ~(0 > 0) /\ (\A h \in 1..0 : FALSE) /\ Len(<<>>) = 0
        BY <1>2
    <3>2. ExplainInv(entries, u, s, 0, <<>>)
        BY <3>1, Zenon DEF ExplainInv, NamesWinners, NamesAll, GroupsDescend
    <3> QED
        BY <1>4, <3>1, <3>2, Zenon
  <2>2. ASSUME NEW k \in 1..Len(s), k - 1 \in G PROVE k \in G
    <3>1. k \in 0..Len(s) /\ k - 1 \in 0..Len(s)
        BY <1>2
    <3>2. w[k - 1] \in Seq(Group(entries)) /\ ExplainInv(entries, u, s, k - 1, w[k - 1])
        BY <1>4, <2>2, <3>1, Zenon
    <3>3. ExplainInv(entries, u, s, k, w[k])
        BY <1>2, <1>4, <3>2, ExplainTurn, Zenon
    <3> QED
        BY <3>1, <3>3, Zenon
  <2>3. Climbs(G, Len(s))
      BY <2>1, <2>2, Zenon DEF Climbs
  <2>4. \A k \in 0..Len(s) : k \in G
    <3> HIDE DEF G
    <3> QED
        BY <1>2, <2>3, Climb, Zenon
  <2> QED
      BY <2>4, Zenon
<1>6. g = w[Len(s)]
    BY <1>1, <1>3, Zenon DEF priority_groups
<1>7. Len(s) \in 0..Len(s)
    BY <1>2
<1> QED
    BY <1>2, <1>4, <1>5, <1>6, <1>7, ZenonT(40)

\* Min and Max of a set of group numbers.
LEMMA Extremes ==
  ASSUME NEW n \in Nat, NEW T, T \subseteq 1..n, T # {}
  PROVE  /\ Min(T) \in T /\ \A m \in T : Min(T) <= m
         /\ Max(T) \in T /\ \A m \in T : m <= Max(T)
<1>1. \E a \in T : \A m \in T : a <= m
  <2>1. T \subseteq Nat
      OBVIOUS
  <2> QED
      BY <2>1, Least, Zenon
<1>2. \E a \in T : \A m \in T : m <= a
  <2>1. T \subseteq 0..n
      OBVIOUS
  <2> QED
      BY <2>1, Greatest, Zenon
<1>3. \E a \in T : \A m \in T : a >= m
  <2>1. PICK a \in T : \A m \in T : m <= a
      BY <1>2, Zenon
  <2>2. \A m \in T : a >= m
      BY <2>1, Zenon
  <2> QED
      BY <2>2, Zenon
<1>4. Min(T) \in T /\ \A m \in T : Min(T) <= m
    BY <1>1, Zenon DEF Min
<1>5. Max(T) \in T /\ \A m \in T : Max(T) >= m
    BY <1>3, Zenon DEF Max
<1>6. \A m \in T : m <= Max(T)
    BY <1>5, Zenon
<1> QED
    BY <1>4, <1>5, <1>6, Zenon

\* What a group says of the walk.
LEMMA PropagationFacts ==
  ASSUME NEW entries, NEW group
  PROVE  /\ propagation(entries, group) = "Stop"
              <=> group.winner # None /\ ~entries[group.winner].spread
         /\ propagation(entries, group) = "Continue"
              <=> group.winner # None /\ entries[group.winner].spread
<1>1. "NoMatch" # "Stop" /\ "NoMatch" # "Continue" /\ "Continue" # "Stop"
    BY Zenon
<1> QED
    BY <1>1, Zenon DEF propagation

\* Group h has the winner at j, and the other winners' groups are on the same side of h
\* as the winners of j.
Placed(entries, u, s, g, h, j) ==
  /\ g[h].winner = s[j] /\ Win(entries, u, s, j)
  /\ \A l \in 1..Len(s) : Win(entries, u, s, l) =>
       \E f \in 1..Len(g) : /\ g[f].winner = s[l] /\ g[f].winner # None
                            /\ l < j => f < h
                            /\ l > j => h < f

\* Where a trace has a winner, its group's number orders it among the other winners.
LEMMA GroupOrder ==
  ASSUME NEW entries, NEW u, NEW s, LinedUp(entries, u, s),
         NEW g \in Seq(Group(entries)), ExplainInv(entries, u, s, Len(s), g),
         NEW h \in 1..Len(g), g[h].winner # None
  PROVE  \E j \in 1..Len(s) : Placed(entries, u, s, g, h, j)
<1>1. PICK j \in 1..Len(s) : /\ g[h].winner = s[j] /\ Win(entries, u, s, j)
                             /\ g[h].priority = Level(entries, s, j)
    BY Zenon DEF ExplainInv, NamesWinners
<1>2. ASSUME NEW l \in 1..Len(s), Win(entries, u, s, l)
      PROVE  \E f \in 1..Len(g) : /\ g[f].winner = s[l] /\ g[f].winner # None
                                  /\ l < j => f < h
                                  /\ l > j => h < f
  <2>1. PICK f \in 1..Len(g) : g[f].winner = s[l] /\ g[f].priority = Level(entries, s, l)
      BY <1>2, Zenon DEF ExplainInv, NamesAll
  <2>2. s[l] # None
      BY CandidateIsSome, Zenon
  <2>3. l > j => j < l
      BY Zenon DEF LinedUp
  <2>4. /\ l < j => Level(entries, s, l) > Level(entries, s, j)
        /\ l > j => Level(entries, s, j) > Level(entries, s, l)
      BY <1>1, <1>2, <2>3, WinnersDescend, Zenon DEF Win
  <2>5. /\ f < h => g[f].priority > g[h].priority
        /\ h < f => g[h].priority > g[f].priority
        /\ h = f => g[h].priority = g[f].priority
      BY Zenon DEF ExplainInv, GroupsDescend
  <2>6. Level(entries, s, l) \in Int /\ Level(entries, s, j) \in Int
      BY CandidateIsSome, Zenon
  <2>7. PICK a, b : a = Level(entries, s, l) /\ b = Level(entries, s, j)
      BY Zenon
  <2>8. /\ a \in Int /\ b \in Int
        /\ l < j => a > b
        /\ l > j => b > a
        /\ f < h => a > b
        /\ h < f => b > a
        /\ h = f => a = b
      BY <1>1, <2>1, <2>4, <2>5, <2>6, <2>7, ZenonT(40)
  <2>9. (l < j => f < h) /\ (l > j => h < f)
      BY <2>8
  <2> QED
      BY <2>1, <2>2, <2>9, Zenon
<1> QED
    BY <1>1, <1>2, Zenon DEF Placed

\* The winner of the first group that says Stop, or else of the last one that says
\* Continue.
Told(entries, g) ==
  LET stops  == {k \in DOMAIN g : propagation(entries, g[k]) = "Stop"}
      passes == {k \in DOMAIN g : propagation(entries, g[k]) = "Continue"}
  IN  IF stops # {} THEN g[Min(stops)].winner
      ELSE IF passes # {} THEN g[Max(passes)].winner
      ELSE None

\* It is the rule of the reference order.
LEMMA TraceTells ==
  ASSUME NEW entries \in Seq(Rule), NEW u \in Url, NEW g, g = priority_groups(entries, u)
  PROVE  Reference(entries, u) = Told(entries, g)
<1>sets. PICK stops, passes :
        /\ stops = {k \in DOMAIN g : propagation(entries, g[k]) = "Stop"}
        /\ passes = {k \in DOMAIN g : propagation(entries, g[k]) = "Continue"}
    BY Zenon
<1>told. Told(entries, g) = IF stops # {} THEN g[Min(stops)].winner
                            ELSE IF passes # {} THEN g[Max(passes)].winner
                            ELSE None
    BY <1>sets, Zenon DEF Told
<1>1. /\ g \in Seq(Group(entries))
      /\ \E s : LinedUp(entries, u, s) /\ Len(s) \in 0..Len(entries)
                /\ ExplainInv(entries, u, s, Len(s), g)
    BY TraceOf, Zenon
<1>2. PICK s : LinedUp(entries, u, s) /\ ExplainInv(entries, u, s, Len(s), g)
    BY <1>1, Zenon
<1>3. DOMAIN g = 1..Len(g) /\ Len(g) \in Nat /\ Len(s) \in Nat
    BY <1>1, <1>2 DEF LinedUp
<1>4. /\ \A k : k \in stops <=> /\ k \in 1..Len(g) /\ g[k].winner # None
                                /\ ~entries[g[k].winner].spread
      /\ \A k : k \in passes <=> /\ k \in 1..Len(g) /\ g[k].winner # None
                                 /\ entries[g[k].winner].spread
    BY <1>sets, <1>3, PropagationFacts, Zenon
<1>5. stops \subseteq 1..Len(g) /\ passes \subseteq 1..Len(g)
    BY <1>4, Zenon
<1>6. CASE stops # {}
  <2>1. PICK h : h = Min(stops)
      BY Zenon
  <2>2. h \in stops /\ \A k \in stops : h <= k
      BY <1>3, <1>5, <1>6, <2>1, Extremes, ZenonT(40)
  <2>3. h \in 1..Len(g) /\ g[h].winner # None /\ ~entries[g[h].winner].spread
      BY <1>4, <2>2, Zenon
  <2>placed. PICK j \in 1..Len(s) : Placed(entries, u, s, g, h, j)
      BY <1>1, <1>2, <2>3, GroupOrder, Zenon
  <2>4. /\ g[h].winner = s[j] /\ Win(entries, u, s, j)
        /\ \A l \in 1..Len(s) : Win(entries, u, s, l) =>
             \E f \in 1..Len(g) : /\ g[f].winner = s[l] /\ g[f].winner # None
                                  /\ l < j => f < h
                                  /\ l > j => h < f
      BY <2>placed, Zenon DEF Placed
  <2>5. ASSUME NEW l \in 1..(j - 1), Win(entries, u, s, l) PROVE Spreads(entries, s, l)
    <3>1. l \in 1..Len(s) /\ l < j
        BY <1>3
    <3>2. PICK f \in 1..Len(g) : g[f].winner = s[l] /\ g[f].winner # None /\ f < h
        BY <2>4, <2>5, <3>1, Zenon
    <3>3. f \notin stops
        BY <1>3, <1>5, <2>2, <3>2, SMTT(30)
    <3> QED
        BY <1>4, <3>2, <3>3, Zenon DEF Spreads
  <2>6. AnswerAt(entries, u, s, j)
      BY <2>3, <2>4, <2>5, Zenon DEF AnswerAt, Spreads
  <2>7. Reference(entries, u) = s[j]
      BY <1>2, <2>6, ReferenceAt, Zenon
  <2> QED
      BY <1>told, <1>6, <2>1, <2>4, <2>7, Zenon
<1>7. CASE stops = {} /\ passes # {}
  <2>1. PICK h : h = Max(passes)
      BY Zenon
  <2>2. h \in passes /\ \A k \in passes : k <= h
      BY <1>3, <1>5, <1>7, <2>1, Extremes, ZenonT(40)
  <2>3. h \in 1..Len(g) /\ g[h].winner # None
      BY <1>4, <2>2, Zenon
  <2>placed. PICK j \in 1..Len(s) : Placed(entries, u, s, g, h, j)
      BY <1>1, <1>2, <2>3, GroupOrder, ZenonT(40)
  <2>4. /\ g[h].winner = s[j] /\ Win(entries, u, s, j)
        /\ \A l \in 1..Len(s) : Win(entries, u, s, l) =>
             \E f \in 1..Len(g) : /\ g[f].winner = s[l] /\ g[f].winner # None
                                  /\ l < j => f < h
                                  /\ l > j => h < f
      BY <2>placed, Zenon DEF Placed
  <2>5. ASSUME NEW l \in 1..Len(s), Win(entries, u, s, l)
        PROVE  Spreads(entries, s, l) /\ ~(l > j)
    <3>1. PICK f \in 1..Len(g) : /\ g[f].winner = s[l] /\ g[f].winner # None
                                 /\ l > j => h < f
        BY <2>4, <2>5, Zenon
    <3>2. f \in passes /\ Spreads(entries, s, l)
        BY <1>4, <1>7, <3>1, Zenon DEF Spreads
    <3>3. f <= h
        BY <2>2, <3>2, Zenon
    <3>4. ~(h < f)
        BY <2>3, <3>3
    <3> QED
        BY <3>1, <3>2, <3>4, Zenon
  <2>6. \A l \in 1..(j - 1) : l \in 1..Len(s)
      BY <1>3
  <2>7. AnswerAt(entries, u, s, j)
      BY <2>4, <2>5, <2>6, ZenonT(40) DEF AnswerAt
  <2>8. Reference(entries, u) = s[j]
      BY <1>2, <2>7, ReferenceAt, Zenon
  <2> QED
      BY <1>told, <1>7, <2>1, <2>4, <2>8, ZenonT(40)
<1>8. CASE stops = {} /\ passes = {}
  <2>1. ASSUME NEW l \in 1..Len(s), Win(entries, u, s, l) PROVE FALSE
    <3>1. PICK f \in 1..Len(g) : g[f].winner = s[l]
        BY <1>2, <2>1, Zenon DEF ExplainInv, NamesAll
    <3>2. s[l] # None
        BY <1>2, CandidateIsSome, Zenon
    <3> QED
        BY <1>4, <1>8, <3>1, <3>2, Zenon
  <2>2. \A l \in 1..Len(s) : ~Win(entries, u, s, l)
      BY <2>1, Zenon
  <2>3. Reference(entries, u) = None
      BY <1>2, <2>2, ReferenceNone, Zenon
  <2> QED
      BY <1>told, <1>8, <2>3, Zenon
<1> QED
    BY <1>6, <1>7, <1>8, Zenon

\* No two groups name the same winner: they have different priorities.
LEMMA GroupsDiffer ==
  ASSUME NEW entries \in Seq(Rule), NEW u \in Url, NEW g, g = priority_groups(entries, u),
         NEW h \in 1..Len(g), NEW i \in 1..Len(g), h < i,
         g[h].winner # None, g[i].winner # None
  PROVE  g[h].winner # g[i].winner
<1>1. PICK s : LinedUp(entries, u, s) /\ ExplainInv(entries, u, s, Len(s), g)
    BY TraceOf, Zenon
<1>2. PICK j \in 1..Len(s) : g[h].winner = s[j] /\ g[h].priority = Level(entries, s, j)
    BY <1>1, Zenon DEF ExplainInv, NamesWinners
<1>3. PICK l \in 1..Len(s) : g[i].winner = s[l] /\ g[i].priority = Level(entries, s, l)
    BY <1>1, Zenon DEF ExplainInv, NamesWinners
<1>4. Level(entries, s, j) > Level(entries, s, l)
    BY <1>1, <1>2, <1>3, Zenon DEF ExplainInv, GroupsDescend
<1>5. Level(entries, s, j) \in Int /\ Level(entries, s, l) \in Int
    BY <1>1, CandidateIsSome, Zenon
<1>6. Level(entries, s, j) # Level(entries, s, l)
  <2>1. PICK a, b : a = Level(entries, s, j) /\ b = Level(entries, s, l)
      BY Zenon
  <2>2. a \in Int /\ b \in Int /\ a > b
      BY <1>4, <1>5, <2>1, Zenon
  <2>3. a # b
      BY <2>2
  <2> QED
      BY <2>1, <2>3, Zenon
<1> QED
    BY <1>2, <1>3, <1>6, Zenon DEF Level

\* final_match names another rule than the trace tells exactly when a group below one
\* that says Stop has a winner.
LEMMA FinalMatchErrs ==
  ASSUME NEW entries \in Seq(Rule), NEW u \in Url, NEW g, g = priority_groups(entries, u)
  PROVE  final_match(g) # Told(entries, g) <=>
           \E j, k \in DOMAIN g : /\ j < k
                                  /\ propagation(entries, g[j]) = "Stop"
                                  /\ g[k].winner # None
<1>sets. PICK stops, passes, won :
        /\ stops = {k \in DOMAIN g : propagation(entries, g[k]) = "Stop"}
        /\ passes = {k \in DOMAIN g : propagation(entries, g[k]) = "Continue"}
        /\ won = Won(g)
    BY Zenon
<1>told. Told(entries, g) = IF stops # {} THEN g[Min(stops)].winner
                            ELSE IF passes # {} THEN g[Max(passes)].winner
                            ELSE None
    BY <1>sets, Zenon DEF Told
<1>final. final_match(g) = IF won = {} THEN None ELSE g[Max(won)].winner
    BY <1>sets, Zenon DEF final_match
<1>1. DOMAIN g = 1..Len(g) /\ Len(g) \in Nat
  <2>1. g \in Seq(Group(entries))
      BY TraceOf, Zenon
  <2> QED
      BY <2>1
<1>2. \A k \in DOMAIN g : g[k].winner # None <=> k \in stops \/ k \in passes
    BY <1>sets, PropagationFacts, Zenon
<1>3. won = stops \cup passes /\ stops \subseteq 1..Len(g) /\ won \subseteq 1..Len(g)
    BY <1>sets, <1>1, <1>2, Zenon DEF Won
<1>4. CASE stops = {}
  <2>1. won = passes
      BY <1>3, <1>4, Zenon
  <2>2. final_match(g) = Told(entries, g)
      BY <1>told, <1>final, <1>4, <2>1, Zenon
  <2> QED
      BY <1>sets, <1>4, <2>2, Zenon
<1>5. CASE stops # {}
  <2>1. won # {}
      BY <1>3, <1>5, Zenon
  <2>2. PICK a, b : a = Min(stops) /\ b = Max(won)
      BY Zenon
  <2>3. a \in stops /\ \A m \in stops : a <= m
      BY <1>1, <1>3, <1>5, <2>2, Extremes, Zenon
  <2>4. b \in won /\ \A m \in won : m <= b
      BY <1>1, <1>3, <2>1, <2>2, Extremes, Zenon
  <2>5. a \in 1..Len(g) /\ b \in 1..Len(g) /\ a <= b
      BY <1>3, <2>3, <2>4, Zenon
  <2>6. final_match(g) = g[b].winner /\ Told(entries, g) = g[a].winner
      BY <1>told, <1>final, <1>5, <2>1, <2>2, ZenonT(40)
  <2>7. CASE a = b
    <3>1. ASSUME NEW j \in DOMAIN g, NEW k \in DOMAIN g,
                 propagation(entries, g[j]) = "Stop", g[k].winner # None
          PROVE  ~(j < k)
      <4>1. a <= j /\ k <= a /\ j \in 1..Len(g) /\ k \in 1..Len(g)
          BY <1>sets, <1>1, <1>2, <1>3, <2>3, <2>4, <2>7, <3>1, ZenonT(40)
      <4> QED
          BY <1>1, <2>5, <4>1
    <3> QED
        BY <2>6, <2>7, <3>1, Zenon
  <2>8. CASE a # b
    <3>1. a < b
        BY <1>1, <2>5, <2>8
    <3>2. /\ a \in DOMAIN g /\ b \in DOMAIN g
          /\ propagation(entries, g[a]) = "Stop"
          /\ g[a].winner # None /\ g[b].winner # None
        BY <1>sets, <1>1, <1>2, <1>3, <2>3, <2>4, <2>5, Zenon
    <3>3. g[a].winner # g[b].winner
        BY <2>5, <3>1, <3>2, GroupsDiffer, Zenon
    <3> QED
        BY <2>6, <3>1, <3>2, <3>3, ZenonT(40)
  <2> QED
      BY <2>7, <2>8, Zenon
<1> QED
    BY <1>4, <1>5, Zenon

\* The groups of a trace are the ones the type says.
LEMMA TraceTyped ==
  ASSUME NEW entries \in Seq(Rule), NEW u \in Url, NEW g, g = priority_groups(entries, u)
  PROVE  /\ \A k \in DOMAIN g : g[k] \in Groups(entries)
         /\ final_match(g) \in DOMAIN entries \cup {None}
<1>1. /\ g \in Seq(Group(entries))
      /\ \E s : LinedUp(entries, u, s) /\ Len(s) \in 0..Len(entries)
                /\ ExplainInv(entries, u, s, Len(s), g)
    BY TraceOf, Zenon
<1>2. PICK s : Len(s) \in 0..Len(entries) /\ ExplainInv(entries, u, s, Len(s), g)
    BY <1>1, Zenon
<1>3. DOMAIN g = 1..Len(g) /\ Len(g) \in Nat
    BY <1>1
<1>4. \A k \in DOMAIN g : g[k] \in Group(entries)
    BY <1>1
<1>5. ASSUME NEW k \in DOMAIN g PROVE g[k] \in Groups(entries)
  <2>1. PICK c : c = g[k].candidates
      BY Zenon
  <2>2. /\ g[k] = [priority |-> g[k].priority, candidates |-> c, winner |-> g[k].winner]
        /\ g[k].priority \in {entries[i].priority : i \in DOMAIN entries}
        /\ c \in Seq(DOMAIN entries) /\ g[k].winner \in DOMAIN entries \cup {None}
      BY <1>4, <2>1, Zenon DEF Group
  <2>3. Len(c) <= Len(s)
      BY <1>2, <1>3, <2>1, ZenonT(40) DEF ExplainInv
  <2>4. Len(c) \in 0..Len(entries) /\ c \in [1..Len(c) -> DOMAIN entries]
      BY <1>2, <2>2, <2>3
  <2>5. c \in UNION {[1..n -> DOMAIN entries] : n \in 0..Len(entries)}
      BY <2>4, Zenon
  <2>6. PICK P, C, D : /\ P = {entries[i].priority : i \in DOMAIN entries}
                       /\ C = UNION {[1..n -> DOMAIN entries] : n \in 0..Len(entries)}
                       /\ D = DOMAIN entries \cup {None}
      BY Zenon
  <2>7. g[k] \in [priority : P, candidates : C, winner : D]
    <3>1. g[k].priority \in P /\ c \in C /\ g[k].winner \in D
        BY <2>2, <2>5, <2>6, Zenon
    <3> QED
        BY <2>2, <3>1
  <2> QED
      BY <2>6, <2>7, Zenon DEF Groups
<1>6. final_match(g) \in DOMAIN entries \cup {None}
  <2>1. CASE Won(g) = {}
      BY <2>1, Zenon DEF final_match
  <2>2. CASE Won(g) # {}
    <3>1. Won(g) \subseteq 1..Len(g)
        BY <1>3, Zenon DEF Won
    <3>2. Max(Won(g)) \in Won(g)
        BY <1>3, <2>2, <3>1, Extremes, Zenon
    <3>3. Max(Won(g)) \in DOMAIN g
        BY <3>2, Zenon DEF Won
    <3>4. g[Max(Won(g))].winner \in DOMAIN entries \cup {None}
        BY <1>4, <3>3, Zenon DEF Group
    <3> QED
        BY <2>2, <3>4, Zenon DEF final_match
  <2> QED
      BY <2>1, <2>2, Zenon
<1> QED
    BY <1>5, <1>6, Zenon

\* A request is resolved to a rule of the rule set, or to none.
LEMMA ReferenceTyped ==
  ASSUME NEW entries \in Seq(Rule), NEW u \in Url
  PROVE  resolve(entries, u) \in DOMAIN entries \cup {None}
<1>1. PICK g : g = priority_groups(entries, u)
    BY Zenon
<1>2. PICK stops, passes :
        /\ stops = {k \in DOMAIN g : propagation(entries, g[k]) = "Stop"}
        /\ passes = {k \in DOMAIN g : propagation(entries, g[k]) = "Continue"}
    BY Zenon
<1>3. resolve(entries, u) = IF stops # {} THEN g[Min(stops)].winner
                            ELSE IF passes # {} THEN g[Max(passes)].winner
                            ELSE None
  <2>1. resolve(entries, u) = Reference(entries, u)
      BY ResolvesToReference, Zenon
  <2>2. Reference(entries, u) = Told(entries, g)
      BY <1>1, TraceTells, Zenon
  <2> QED
      BY <1>2, <2>1, <2>2, Zenon DEF Told
<1>4. g \in Seq(Group(entries))
    BY <1>1, TraceOf, Zenon
<1>5. /\ Len(g) \in Nat /\ DOMAIN g = 1..Len(g)
      /\ \A k \in 1..Len(g) : g[k].winner \in DOMAIN entries \cup {None}
  <2>1. /\ Len(g) \in Nat /\ DOMAIN g = 1..Len(g)
        /\ \A k \in 1..Len(g) : g[k] \in Group(entries)
      BY <1>4
  <2>2. \A x \in Group(entries) : x.winner \in DOMAIN entries \cup {None}
      BY Zenon DEF Group
  <2> QED
      BY <2>1, <2>2, Zenon
<1>6. stops \subseteq 1..Len(g) /\ passes \subseteq 1..Len(g)
    BY <1>2, <1>5, Zenon
<1>7. /\ stops # {} => Min(stops) \in 1..Len(g)
      /\ passes # {} => Max(passes) \in 1..Len(g)
    BY <1>5, <1>6, Extremes, Zenon
<1> QED
    BY <1>3, <1>5, <1>7, ZenonT(40)

-----------------------------------------------------------------------------
(* The live rule set.                                                       *)

\* LiveRuleSet::replace is the only step that changes the live rules.
LEMMA LiveIsRuleSet == Spec => [](live \in RuleSets)
<1>1. Init => live \in RuleSets
    BY Zenon DEF Init
<1>2. live \in RuleSets /\ [Next]_vars => (live \in RuleSets)'
    BY RuleEngineAssumption, Zenon
       DEF Next, vars, replace, forward_request, explain_rules
<1> QED
    BY <1>1, <1>2, PTL DEF Spec

\* Whatever rules are live, collect_candidate_indices loses none that matches a
\* requested URL.
THEOREM IndexCorrect == Spec => []IndexIsComplete
<1>1. live \in RuleSets => IndexIsComplete
    BY RuleEngineAssumption, Proposed, Zenon DEF IndexIsComplete, Complete
<1> QED
    BY <1>1, LiveIsRuleSet, PTL

\* Whatever rules are live, matches_dns_host accepts every host name that an
\* intercepting rule matches.
THEOREM DnsCorrect == Spec => []RulesReachDns
<1>1. live \in RuleSets => RulesReachDns
    BY RuleEngineAssumption, Reached, Zenon DEF RulesReachDns, Covered
<1> QED
    BY <1>1, LiveIsRuleSet, PTL

\* What an answer is made of.
DecisionInv ==
  /\ live \in RuleSets
  /\ decision # None =>
      /\ decision.rules \in RuleSets /\ decision.url \in Urls
      /\ \/ /\ decision.told = "resolve"
            /\ decision.rule = resolve(decision.rules, decision.url)
         \/ /\ decision.told = "404" /\ decision.rule = None
         \/ /\ decision.told = "explain"
            /\ decision.groups = priority_groups(decision.rules, decision.url)
            /\ decision.rule = final_match(decision.groups)

\* A request's answer is computed from one snapshot of the live rules, and a reload
\* keeps no answer.
LEMMA DecisionsComputed == Spec => []DecisionInv
<1>1. Init => DecisionInv
    BY Zenon DEF Init, DecisionInv
<1>2. DecisionInv /\ [Next]_vars => DecisionInv'
  <2>1. SUFFICES ASSUME DecisionInv, [Next]_vars PROVE DecisionInv'
      BY Zenon
  <2>2. ASSUME NEW rules \in Reloads, replace(rules) PROVE DecisionInv'
      BY <2>2, RuleEngineAssumption, Zenon DEF replace, DecisionInv
  <2>3. ASSUME NEW u \in Urls, forward_request(u) PROVE DecisionInv'
    <3>1. PICK d : d = decision'
        BY Zenon
    <3>2. live' = live /\ live \in RuleSets
        BY <2>1, <2>3, Zenon DEF forward_request, DecisionInv
    <3>3. /\ d.rules = live /\ d.url = u /\ d.told = "resolve"
          /\ d.rule = resolve(live, u)
        BY <2>3, <3>1, Zenon DEF forward_request
    <3> QED
        BY <3>1, <3>2, <3>3, Zenon DEF DecisionInv
  <2>4. ASSUME NEW u \in Urls, explain_rules(u) PROVE DecisionInv'
    <3>1. PICK d, g : d = decision' /\ g = priority_groups(live, u)
        BY Zenon
    <3>2. live' = live /\ live \in RuleSets
        BY <2>1, <2>4, Zenon DEF explain_rules, DecisionInv
    <3>3. CASE g = <<>>
      <4>1. d = [rules |-> live, url |-> u, told |-> "404", rule |-> None]
          BY <2>4, <3>1, <3>3, Zenon DEF explain_rules
      <4>2. d.rules = live /\ d.url = u /\ d.told = "404" /\ d.rule = None
          BY <4>1, Zenon
      <4> QED
          BY <3>1, <3>2, <4>2, Zenon DEF DecisionInv
    <3>4. CASE g # <<>>
      <4>1. d = [rules |-> live, url |-> u, told |-> "explain",
                 rule |-> final_match(g), groups |-> g]
          BY <2>4, <3>1, <3>4, Zenon DEF explain_rules
      <4>2. /\ d.rules = live /\ d.url = u /\ d.told = "explain"
            /\ d.rule = final_match(g) /\ d.groups = g
          BY <4>1, Zenon
      <4> QED
          BY <3>1, <3>2, <4>2, Zenon DEF DecisionInv
    <3> QED
        BY <3>3, <3>4, Zenon
  <2>5. CASE UNCHANGED vars
      BY <2>1, <2>5, Zenon DEF vars, DecisionInv
  <2> QED
      BY <2>1, <2>2, <2>3, <2>4, <2>5, ZenonT(40) DEF Next
<1> QED
    BY <1>1, <1>2, PTL DEF Spec

\* Every answer names a rule of its snapshot or none, and a trace only rules of it.
THEOREM EngineTypes == Spec => []TypeOK
<1>1. DecisionInv => TypeOK
  <2>1. SUFFICES ASSUME DecisionInv PROVE TypeOK
      BY Zenon
  <2>2. live \in RuleSets
      BY <2>1, Zenon DEF DecisionInv
  <2>3. ASSUME decision # None
        PROVE  /\ decision.rules \in RuleSets /\ decision.url \in Urls
               /\ decision.rule \in DOMAIN decision.rules \cup {None}
               /\ decision.told = "404" => decision.rule = None
               /\ decision.told = "explain" =>
                    \A k \in DOMAIN decision.groups :
                        decision.groups[k] \in Groups(decision.rules)
    <3>1. decision.rules \in RuleSets /\ decision.url \in Urls
        BY <2>1, <2>3, Zenon DEF DecisionInv
    <3>2. decision.rules \in Seq(Rule) /\ decision.url \in Url
        BY <3>1, RuleEngineAssumption, Zenon
    <3>3. "resolve" # "404" /\ "resolve" # "explain" /\ "404" # "explain"
        BY Zenon
    <3>4. CASE /\ decision.told = "resolve"
               /\ decision.rule = resolve(decision.rules, decision.url)
        BY <3>1, <3>2, <3>3, <3>4, ReferenceTyped, ZenonT(40)
    <3>5. CASE decision.told = "404" /\ decision.rule = None
        BY <3>1, <3>3, <3>5, Zenon
    <3>6. CASE /\ decision.told = "explain"
               /\ decision.groups = priority_groups(decision.rules, decision.url)
               /\ decision.rule = final_match(decision.groups)
        BY <3>1, <3>2, <3>3, <3>6, TraceTyped, ZenonT(40)
    <3> QED
        BY <2>1, <2>3, <3>4, <3>5, <3>6, ZenonT(40) DEF DecisionInv
  <2> QED
      BY <2>2, <2>3, Zenon DEF TypeOK
<1> QED
    BY <1>1, DecisionsComputed, PTL

\* Whatever the rules, resolve_candidates gives a request the rule that the documented
\* order selects.
THEOREM ResolvesCorrectly == Spec => []ResolvesInOrder
<1>1. DecisionInv => ResolvesInOrder
  <2>1. SUFFICES ASSUME DecisionInv, decision # None, decision.told = "resolve"
                 PROVE  decision.rule = Reference(decision.rules, decision.url)
      BY Zenon DEF ResolvesInOrder
  <2>2. "resolve" # "404" /\ "resolve" # "explain"
      BY Zenon
  <2>3. /\ decision.rules \in Seq(Rule) /\ decision.url \in Url
        /\ decision.rule = resolve(decision.rules, decision.url)
      BY <2>1, <2>2, RuleEngineAssumption, ZenonT(40) DEF DecisionInv
  <2> QED
      BY <2>3, ResolvesToReference, Zenon
<1> QED
    BY <1>1, DecisionsComputed, PTL

\* Whatever the rules, the groups of an explanation tell the rule that requests are
\* resolved to.
THEOREM TraceCorrect == Spec => []TraceTellsDecision
<1>1. DecisionInv => TraceTellsDecision
  <2>1. SUFFICES ASSUME DecisionInv, decision # None, decision.told = "explain"
                 PROVE  TraceTellsDecision
      BY Zenon DEF TraceTellsDecision
  <2>2. "explain" # "404" /\ "resolve" # "explain"
      BY Zenon
  <2>3. PICK entries, u, g : entries = decision.rules /\ u = decision.url /\ g = decision.groups
      BY Zenon
  <2>4. /\ entries \in Seq(Rule) /\ u \in Url /\ g = priority_groups(entries, u)
      BY <2>1, <2>2, <2>3, RuleEngineAssumption, Zenon DEF DecisionInv
  <2>5. Reference(entries, u) = Told(entries, g)
      BY <2>4, TraceTells, Zenon
  <2>6. resolve(entries, u) = Reference(entries, u)
      BY <2>4, ResolvesToReference, Zenon
  <2> QED
      BY <2>3, <2>5, <2>6, Zenon DEF TraceTellsDecision, Told
<1> QED
    BY <1>1, DecisionsComputed, PTL

\* Whatever the rules, the rule an explanation reports is not the one requests are
\* resolved to exactly when a group below one that says Stop has a winner.
THEOREM ExplainErrsOnlyBelowStop == Spec => []ExplainErrsBelowStop
<1>1. DecisionInv => ExplainErrsBelowStop
  <2>1. SUFFICES ASSUME DecisionInv, decision # None, decision.told = "explain"
                 PROVE  ExplainErrsBelowStop
      BY Zenon DEF ExplainErrsBelowStop
  <2>2. "explain" # "404" /\ "resolve" # "explain"
      BY Zenon
  <2>3. PICK entries, u, g : entries = decision.rules /\ u = decision.url /\ g = decision.groups
      BY Zenon
  <2>4. /\ entries \in Seq(Rule) /\ u \in Url /\ g = priority_groups(entries, u)
        /\ decision.rule = final_match(g)
      BY <2>1, <2>2, <2>3, RuleEngineAssumption, Zenon DEF DecisionInv
  <2>5. resolve(entries, u) = Told(entries, g)
      BY <2>4, TraceTells, ResolvesToReference, Zenon
  <2>6. final_match(g) # Told(entries, g) <=>
          \E j, k \in DOMAIN g : /\ j < k
                                 /\ propagation(entries, g[j]) = "Stop"
                                 /\ g[k].winner # None
      BY <2>4, FinalMatchErrs, Zenon
  <2> QED
      BY <2>3, <2>4, <2>5, <2>6, Zenon DEF ExplainErrsBelowStop
<1> QED
    BY <1>1, DecisionsComputed, PTL
=============================================================================
